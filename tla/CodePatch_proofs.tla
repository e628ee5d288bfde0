--------------------------- MODULE CodePatch_proofs ---------------------------
(***************************************************************************)
(* What holds of the plugin in the game's memory for every size of the     *)
(* address space and of a page, every layout and every game binary that    *)
(* meets the assumptions of CodePatch: CodeInv is inductive, and with it   *)
(* the searches are exact, the call of the game is hooked, and the code is *)
(* put back.                                                               *)
(***************************************************************************)
EXTENDS CodePatch, InductionLemmas, TLAPS

-------------------------------------------------------------------------------
(* Addresses, pages, and the least element of a set of numbers. *)
LEMMA WrapIsAddress == \A n \in Int : Wrap(n) \in Addresses
BY CodeAssumption DEF Wrap, Addresses

LEMMA WrapInside == \A a \in Addresses : Wrap(a) = a
BY CodeAssumption DEF Wrap, Addresses

LEMMA WrapOnce ==
  \A n \in Int : /\ n < 0 /\ -Space <= n => Wrap(n) = n + Space
                 /\ Space <= n /\ n < 2 * Space => Wrap(n) = n - Space
BY CodeAssumption DEF Wrap

(* A jump that CalcRelativeJmp has written goes where it was meant to. *)
LEMMA JumpArrives ==
  ASSUME NEW at \in Nat, at + JumpSize < Space, NEW target \in Addresses
  PROVE  Wrap(at + JumpSize + Wrap(target - at - JumpSize)) = target
<1> DEFINE d == target - at - JumpSize
<1>1. d \in Int /\ -Space < d /\ d < Space
  BY CodeAssumption DEF JumpSize, Addresses
<1>2. CASE d >= 0
  <2>1. Wrap(d) = d
    BY <1>1, <1>2, WrapInside, CodeAssumption DEF Addresses
  <2> QED
    BY <2>1, WrapInside DEF JumpSize, Addresses
<1>3. CASE d < 0
  <2>1. Wrap(d) = d + Space
    BY <1>1, <1>3, WrapOnce, CodeAssumption
  <2>2. at + JumpSize + Wrap(d) = target + Space
    BY <2>1, CodeAssumption DEF JumpSize, Addresses
  <2>3. Wrap(target + Space) = target
    BY WrapOnce, CodeAssumption DEF Addresses
  <2> QED
    BY <2>2, <2>3
<1> QED
  BY <1>1, <1>2, <1>3

LEMMA PageFacts ==
  \A a \in Nat : /\ Page(a) \in Nat
                 /\ Page(a + 1) \in {Page(a), Page(a) + 1}
BY CodeAssumption DEF Page

LEMMA MinIsLeast ==
  ASSUME NEW S \in SUBSET Nat, S # {}
  PROVE  Min(S) \in S /\ \A y \in S : Min(S) <= y
<1>1. \E x \in S : \A y \in S : x <= y
  BY LeastNatural
<1> QED
  BY <1>1 DEF Min

-------------------------------------------------------------------------------
(* The binary.  First its layout: where SpawnServer and its call are. *)
LEMMA OpsAreAddresses ==
  /\ \A o \in OpNames : Ops[o] \in Addresses
  /\ \A m, n \in OpNames : Ops[m] = Ops[n] => m = n
BY CodeAssumption

LEMMA EngineLies ==
  /\ Engine.base \in Nat \ {0} /\ Engine.code \in Nat /\ Engine.data \in Nat
  /\ EngineSize = Engine.code + Engine.data
  /\ CommandAt \in Nat \ {0} /\ AdminScan \in Nat
  /\ CommandAt + AdminScan < Engine.base
  /\ Engine.base + EngineSize <= Space
  /\ Space \in Nat
BY CodeAssumption, LayoutAssumption DEF EngineSize

LEMMA ImagesLie ==
  \A i, j \in Physics :
    /\ i.base \in Nat \ {0} /\ i.size \in Nat \ {0, 1} /\ i.mark \in Nat
    /\ i = [base |-> i.base, size |-> i.size, mark |-> i.mark]
    /\ Engine.base + EngineSize <= i.base
    /\ i.base + j.size <= Space
<1> SUFFICES ASSUME NEW i \in Physics, NEW j \in Physics
             PROVE  /\ i.base \in Nat \ {0} /\ i.size \in Nat \ {0, 1} /\ i.mark \in Nat
                    /\ i = [base |-> i.base, size |-> i.size, mark |-> i.mark]
                    /\ Engine.base + EngineSize <= i.base
                    /\ i.base + j.size <= Space
  OBVIOUS
<1>1. i \in [base : Nat, size : Nat \ {0, 1}, mark : Nat]
  BY LayoutAssumption
<1>2. Engine.base + EngineSize <= i.base /\ i.base + j.size <= Space
  BY LayoutAssumption
<1> QED
  BY <1>1, <1>2, EngineLies

LEMMA CallLies ==
  ASSUME NEW p \in Platforms, NEW g \in Programs
  PROVE  /\ SpawnServerAt(g) \in Nat /\ Engine.base <= SpawnServerAt(g)
         /\ CallAt(p, g) \in Nat /\ SpawnServerAt(g) + 4 <= CallAt(p, g)
         /\ CallSize(p) \in 2 .. 3
         /\ CallAt(p, g) + CallSize(p) < Engine.base + Engine.code
         /\ Engine.base + Engine.code <= Space
<1>1. g.filler \in Seq(Addresses) /\ g.gap \in Nat /\ g.gap >= 3
      /\ CallAt(p, g) + CallSize(p) < Engine.base + Engine.code
  BY BuildAssumption
<1>2. Len(g.filler) \in Nat
  BY <1>1
<1>3. Skip[p] \in Nat /\ Skip[p] > 0
  BY CodeAssumption, LayoutAssumption
<1>4. CallSize(p) \in 2 .. 3
  BY DEF CallSize, JumpSize
<1>5. SpawnServerAt(g) \in Nat /\ Engine.base <= SpawnServerAt(g)
  BY <1>1, <1>2, EngineLies DEF SpawnServerAt
<1>6. CallAt(p, g) = SpawnServerAt(g) + g.gap + Skip[p]
  BY DEF PatternAt, CallAt
<1>7. CallAt(p, g) \in Nat /\ SpawnServerAt(g) + 4 <= CallAt(p, g)
  BY <1>1, <1>3, <1>5, <1>6
<1>8. Engine.base + Engine.code <= Space
  BY EngineLies
<1> QED
  BY <1>1, <1>4, <1>5, <1>7, <1>8

(* A sequence of cells behind another. *)
IsJoin(c, s, t) == s \in Seq(Addresses) /\ t \in Seq(Addresses) /\ c = s \o t

LEMMA JoinLength ==
  \A c, s, t : IsJoin(c, s, t) =>
    c \in Seq(Addresses) /\ Len(c) = Len(s) + Len(t)
BY DEF IsJoin

LEMMA JoinCells ==
  \A c, s, t : IsJoin(c, s, t) =>
    /\ \A i \in 1 .. Len(s) : c[i] = s[i]
    /\ \A i \in 1 .. Len(t) : c[Len(s) + i] = t[i]
BY DEF IsJoin

LEMMA OthersCells ==
  \A n \in Nat : /\ Others(n) \in Seq(Addresses)
                 /\ Len(Others(n)) = n
                 /\ \A i \in 1 .. n : Others(n)[i] = Ops["other"]
BY OpsAreAddresses DEF Others, OpNames

LEMMA GameCallCells ==
  ASSUME NEW p \in Platforms, NEW at \in Int
  PROVE  /\ GameCall(p, at) \in Seq(Addresses)
         /\ Len(GameCall(p, at)) = CallSize(p)
         /\ p = "windows" => GameCall(p, at)[1] = Ops["indirect"]
         /\ p = "linux" => /\ GameCall(p, at)[1] = Ops["call"]
                           /\ GameCall(p, at)[2] = Wrap(Log - at - JumpSize)
<1>1. /\ Ops["indirect"] \in Addresses /\ Ops["other"] \in Addresses
      /\ Ops["call"] \in Addresses
  BY OpsAreAddresses DEF OpNames
<1>2. Wrap(Log - at - JumpSize) \in Addresses
  BY WrapIsAddress, LayoutAssumption DEF Addresses, JumpSize
<1>3. CASE p = "windows"
  BY <1>1, <1>3 DEF GameCall, CallSize, JumpSize
<1>4. CASE p = "linux"
  BY <1>1, <1>2, <1>4 DEF GameCall, CallSize, JumpSize
<1> QED
  BY <1>3, <1>4 DEF Platforms

(* The cells of the engine's code that the plugin looks for, and the call. *)
LEMMA EngineCodeCells ==
  ASSUME NEW p \in Platforms, NEW g \in Programs
  PROVE  LET code   == EngineCode(p, g)
             server == SpawnServerAt(g) - Engine.base
             call   == CallAt(p, g) - Engine.base
         IN  /\ code \in Seq(Addresses)
             /\ Len(code) = call + CallSize(p) + 1
             /\ code[server + 1] = Ops["prologue"]
             /\ code[server + 3] = Ops["body"]
             /\ \A i \in 1 .. CallSize(p) : code[call + i] = GameCall(p, CallAt(p, g))[i]
             /\ code[call + CallSize(p) + 1] = Ops["rest"]
<1> DEFINE filler == g.filler
           head   == <<Ops["prologue"], Ops["other"], Ops["body"]>>
           other1 == Others(g.gap - 3)
           bytes  == <<Ops["pattern"]>>
           other2 == Others(Skip[p] - 1)
           call   == GameCall(p, CallAt(p, g))
           rest   == <<Ops["rest"]>>
           c1     == filler \o head
           c2     == c1 \o other1
           c3     == c2 \o bytes
           c4     == c3 \o other2
           c5     == c4 \o call
           c6     == c5 \o rest
           n      == Len(filler)
           gap    == g.gap
           skip   == Skip[p]
           size   == CallSize(p)
<1>1. EngineCode(p, g) = c6
  BY DEF EngineCode
<1>2. /\ Ops["prologue"] \in Addresses /\ Ops["other"] \in Addresses
      /\ Ops["body"] \in Addresses /\ Ops["pattern"] \in Addresses
      /\ Ops["rest"] \in Addresses
  BY OpsAreAddresses DEF OpNames
<1>3. filler \in Seq(Addresses) /\ n \in Nat /\ gap \in Nat /\ gap - 3 \in Nat
  BY BuildAssumption
<1>4. skip \in Nat /\ skip - 1 \in Nat
  BY CodeAssumption, LayoutAssumption
<1>5. /\ head \in Seq(Addresses) /\ Len(head) = 3
      /\ head[1] = Ops["prologue"] /\ head[3] = Ops["body"]
  BY <1>2
<1>6. CallAt(p, g) \in Int /\ Engine.base \in Nat
  BY CallLies, EngineLies
<1>7. call \in Seq(Addresses) /\ Len(call) = size
  BY <1>6, GameCallCells
<1>8. /\ SpawnServerAt(g) - Engine.base = n
      /\ CallAt(p, g) - Engine.base = n + gap + skip
  BY <1>3, <1>4, <1>6 DEF SpawnServerAt, PatternAt, CallAt
<1>9. size \in Nat
  BY DEF CallSize, JumpSize
<1>10. /\ other1 \in Seq(Addresses) /\ Len(other1) = gap - 3
       /\ other2 \in Seq(Addresses) /\ Len(other2) = skip - 1
  BY <1>3, <1>4, OthersCells
<1>11. /\ bytes \in Seq(Addresses) /\ Len(bytes) = 1
       /\ rest \in Seq(Addresses) /\ Len(rest) = 1 /\ rest[1] = Ops["rest"]
  BY <1>2
<1> HIDE DEF filler, head, other1, bytes, other2, call, rest
<1>12. IsJoin(c1, filler, head) /\ c1 \in Seq(Addresses)
  BY <1>3, <1>5, JoinLength DEF IsJoin
<1> HIDE DEF c1
<1>13. IsJoin(c2, c1, other1) /\ c2 \in Seq(Addresses)
  BY <1>10, <1>12, JoinLength DEF IsJoin
<1> HIDE DEF c2
<1>14. IsJoin(c3, c2, bytes) /\ c3 \in Seq(Addresses)
  BY <1>11, <1>13, JoinLength DEF IsJoin
<1> HIDE DEF c3
<1>15. IsJoin(c4, c3, other2) /\ c4 \in Seq(Addresses)
  BY <1>10, <1>14, JoinLength DEF IsJoin
<1> HIDE DEF c4
<1>16. IsJoin(c5, c4, call) /\ c5 \in Seq(Addresses)
  BY <1>7, <1>15, JoinLength DEF IsJoin
<1> HIDE DEF c5
<1>17. IsJoin(c6, c5, rest) /\ c6 \in Seq(Addresses)
  BY <1>11, <1>16, JoinLength DEF IsJoin
<1> HIDE DEF c6
<1>18. /\ Len(c1) = n + Len(head) /\ Len(c2) = Len(c1) + Len(other1)
       /\ Len(c3) = Len(c2) + Len(bytes) /\ Len(c4) = Len(c3) + Len(other2)
       /\ Len(c5) = Len(c4) + Len(call) /\ Len(c6) = Len(c5) + Len(rest)
  BY <1>12, <1>13, <1>14, <1>15, <1>16, <1>17, JoinLength
<1> HIDE DEF n, gap, skip, size
<1>19. /\ Len(c1) = n + 3 /\ Len(c2) = n + gap /\ Len(c3) = n + gap + 1
       /\ Len(c4) = n + gap + skip /\ Len(c5) = n + gap + skip + size
       /\ Len(c6) = n + gap + skip + size + 1
  BY <1>3, <1>4, <1>5, <1>7, <1>9, <1>10, <1>11, <1>18
<1>20. /\ \A i \in 1 .. n + 3 : c2[i] = c1[i]
       /\ \A i \in 1 .. n + gap : c3[i] = c2[i]
       /\ \A i \in 1 .. n + gap + 1 : c4[i] = c3[i]
       /\ \A i \in 1 .. n + gap + skip : c5[i] = c4[i]
       /\ \A i \in 1 .. n + gap + skip + size : c6[i] = c5[i]
  <2>1. /\ \A i \in 1 .. Len(c1) : c2[i] = c1[i]
        /\ \A i \in 1 .. Len(c2) : c3[i] = c2[i]
        /\ \A i \in 1 .. Len(c3) : c4[i] = c3[i]
        /\ \A i \in 1 .. Len(c4) : c5[i] = c4[i]
        /\ \A i \in 1 .. Len(c5) : c6[i] = c5[i]
    BY <1>13, <1>14, <1>15, <1>16, <1>17, JoinCells
  <2> QED
    BY <1>19, <2>1
<1>21. /\ \A i \in 1 .. 3 : c1[n + i] = head[i]
       /\ \A i \in 1 .. size : c5[n + gap + skip + i] = call[i]
       /\ c6[n + gap + skip + size + 1] = Ops["rest"]
  <2>1. /\ \A i \in 1 .. Len(head) : c1[Len(filler) + i] = head[i]
        /\ \A i \in 1 .. Len(call) : c5[Len(c4) + i] = call[i]
        /\ \A i \in 1 .. Len(rest) : c6[Len(c5) + i] = rest[i]
    <3>1. \A i \in 1 .. Len(head) : c1[Len(filler) + i] = head[i]
      BY <1>12, JoinCells
    <3>2. \A i \in 1 .. Len(call) : c5[Len(c4) + i] = call[i]
      BY <1>16, JoinCells
    <3>3. \A i \in 1 .. Len(rest) : c6[Len(c5) + i] = rest[i]
      BY <1>17, JoinCells
    <3> QED
      BY <3>1, <3>2, <3>3
  <2>2. c6[Len(c5) + 1] = rest[1]
    <3>1. 1 \in 1 .. Len(rest)
      BY <1>11
    <3> QED
      BY <2>1, <3>1
  <2>3. \A i \in 1 .. 3 : c1[n + i] = head[i]
    BY <1>5, <2>1 DEF n
  <2>4. \A i \in 1 .. size : c5[n + gap + skip + i] = call[i]
    BY <1>7, <1>19, <2>1
  <2>5. c6[n + gap + skip + size + 1] = Ops["rest"]
    BY <1>11, <1>19, <2>2
  <2> QED
    BY <2>3, <2>4, <2>5
<1>22. ASSUME NEW k \in {1, 3}
       PROVE  c6[n + k] = head[k]
  <2>1. n + k \in 1 .. n + 3 /\ k \in 1 .. 3
    BY <1>3
  <2>2. /\ n + k \in 1 .. n + gap /\ n + k \in 1 .. n + gap + 1
        /\ n + k \in 1 .. n + gap + skip /\ n + k \in 1 .. n + gap + skip + size
    BY <2>1, <1>3, <1>4, <1>9
  <2> QED
    BY <2>1, <2>2, <1>20, <1>21
<1>23. ASSUME NEW i \in 1 .. size
       PROVE  c6[n + gap + skip + i] = call[i]
  <2>1. n + gap + skip + i \in 1 .. n + gap + skip + size
    BY <1>3, <1>4, <1>9
  <2> QED
    BY <2>1, <1>20, <1>21
<1>24. c6[n + 1] = Ops["prologue"] /\ c6[n + 3] = Ops["body"]
  BY <1>5, <1>22
<1> QED
  BY <1>1, <1>8, <1>17, <1>19, <1>21, <1>23, <1>24 DEF call, size

LEMMA PhysicsCellIsAddress == \A i, offset : PhysicsCell(i, offset) \in Addresses
BY OpsAreAddresses DEF PhysicsCell, OpNames

(* The game's code lies below every engine, so mapping another one leaves it. *)
LEMMA MapPhysicsCells ==
  ASSUME NEW mem \in [Addresses -> Addresses \cup {Unmapped}],
         NEW old \in Physics, NEW new \in Physics
  PROVE  /\ MapPhysics(mem, old, new) \in [Addresses -> Addresses \cup {Unmapped}]
         /\ \A a \in new.base .. new.base + new.size - 1 :
              MapPhysics(mem, old, new)[a] = PhysicsCell(new, a - new.base)
         /\ \A a \in 0 .. Engine.base + EngineSize - 1 :
              MapPhysics(mem, old, new)[a] = mem[a]
<1>1. MapPhysics(mem, old, new) \in [Addresses -> Addresses \cup {Unmapped}]
  BY PhysicsCellIsAddress DEF MapPhysics
<1>2. ASSUME NEW a \in new.base .. new.base + new.size - 1
      PROVE  MapPhysics(mem, old, new)[a] = PhysicsCell(new, a - new.base)
  <2>1. new.base \in Nat /\ new.size \in Nat /\ new.base + new.size <= Space
    BY ImagesLie
  <2>2. a \in Addresses
    BY <2>1, EngineLies DEF Addresses
  <2> QED
    BY <2>2 DEF MapPhysics
<1>3. ASSUME NEW a \in 0 .. Engine.base + EngineSize - 1
      PROVE  MapPhysics(mem, old, new)[a] = mem[a]
  <2>1. a \in Addresses
    BY EngineLies DEF Addresses
  <2>2. a \notin new.base .. new.base + new.size - 1
    BY ImagesLie, EngineLies
  <2>3. a \notin old.base .. old.base + old.size - 1
    BY ImagesLie, EngineLies
  <2> QED
    BY <2>1, <2>2, <2>3 DEF MapPhysics
<1> QED
  BY <1>1, <1>2, <1>3

LEMMA PlacedCells ==
  ASSUME NEW mem \in [Addresses -> Addresses \cup {Unmapped}], NEW at \in Nat,
         NEW cells \in Seq(Addresses)
  PROVE  /\ Placed(mem, at, cells) \in [Addresses -> Addresses \cup {Unmapped}]
         /\ \A a \in Addresses :
              /\ a \in at .. at + Len(cells) - 1 =>
                   /\ Placed(mem, at, cells)[a] = cells[a - at + 1]
                   /\ Placed(mem, at, cells)[a] \in Addresses
              /\ a \notin at .. at + Len(cells) - 1 => Placed(mem, at, cells)[a] = mem[a]
<1>1. ASSUME NEW a \in Addresses, a \in at .. at + Len(cells) - 1
      PROVE  cells[a - at + 1] \in Addresses
  <2>1. Len(cells) \in Nat
    OBVIOUS
  <2>2. a - at + 1 \in 1 .. Len(cells)
    BY <1>1, <2>1
  <2> QED
    BY <2>2
<1> QED
  BY <1>1 DEF Placed

-------------------------------------------------------------------------------
(* The command's code, instruction after instruction. *)
LEMMA EncodedCells ==
  ASSUME NEW ins \in Instructions, NEW at \in Int
  PROVE  LET cells == Encoded(ins, at) IN
         /\ cells \in Seq(Addresses) /\ Len(cells) \in 1 .. 2
         /\ ins.op = "call" => /\ cells[1] = Ops["call"] /\ Len(cells) = 2
                               /\ cells[2] = Wrap(ins.arg - at - JumpSize)
         /\ ins.op # "call" => /\ cells[1] # Ops["call"]
                               /\ Len(cells) = 2 => ins.op = "push" /\ cells[2] = ins.arg
<1>1. /\ Ops["call"] \in Addresses /\ Ops["other"] \in Addresses
      /\ Ops["call"] # Ops["other"]
  BY OpsAreAddresses DEF OpNames
<1>2. ins.op \in {"call", "push", "other"} /\ ins.arg \in Addresses
  BY DEF Instructions
<1>3. Wrap(ins.arg - at - JumpSize) \in Addresses
  BY <1>2, WrapIsAddress DEF Addresses, JumpSize
<1>4. CASE ins.op = "call"
  BY <1>1, <1>3, <1>4 DEF Encoded
<1>5. CASE ins.op = "push"
  BY <1>1, <1>2, <1>5 DEF Encoded
<1>6. CASE ins.op = "other"
  BY <1>1, <1>6 DEF Encoded
<1> QED
  BY <1>2, <1>4, <1>5, <1>6

LEMMA ConcatCells ==
  ASSUME NEW S, NEW s \in Seq(S), NEW t \in Seq(S)
  PROVE  /\ s \o t \in Seq(S) /\ Len(s \o t) = Len(s) + Len(t)
         /\ Len(s) \in Nat /\ Len(t) \in Nat
         /\ \A i \in 1 .. Len(s) : (s \o t)[i] = s[i]
         /\ \A i \in 1 .. Len(t) : (s \o t)[Len(s) + i] = t[i]
OBVIOUS

(* The code up to the i-th instruction, for every i. *)
Codes(c) ==
  {f \in [0 .. Len(c) -> Seq(Addresses)] :
     /\ f[0] = <<>>
     /\ \A i \in 0 .. Len(c) - 1 :
          f[i + 1] = f[i] \o Encoded(c[i + 1], CommandAt + Len(f[i]))}

LEMMA CodeExists ==
  ASSUME NEW c \in Seq(Instructions)
  PROVE  Codes(c) # {}
<1> DEFINE T    == Seq(Addresses)
           none == <<>>
           step == [i \in 0 .. Len(c) - 1 |->
                      [s \in T |-> s \o Encoded(c[i + 1], CommandAt + Len(s))]]
<1>1. Len(c) \in Nat /\ none \in T /\ CommandAt \in Nat
  BY EngineLies
<1>2. ASSUME NEW i \in 0 .. Len(c) - 1, NEW s \in T
      PROVE  s \o Encoded(c[i + 1], CommandAt + Len(s)) \in T
  <2>1. c[i + 1] \in Instructions /\ CommandAt + Len(s) \in Int
    BY <1>1
  <2>2. Encoded(c[i + 1], CommandAt + Len(s)) \in T
    BY <2>1, EncodedCells
  <2> QED
    BY <2>2, ConcatCells
<1>3. step \in Steps(T, Len(c))
  BY <1>2 DEF Steps
<1>4. PICK f \in Iterates(T, none, Len(c), step) : TRUE
  <2> HIDE DEF T, none, step
  <2> QED
    BY <1>1, <1>3, Iteration
<1>5. f \in [0 .. Len(c) -> T] /\ f[0] = <<>>
  BY DEF Iterates
<1>6. ASSUME NEW i \in 0 .. Len(c) - 1
      PROVE  f[i + 1] = f[i] \o Encoded(c[i + 1], CommandAt + Len(f[i]))
  <2>1. f[i] \in T
    <3>1. i \in 0 .. Len(c)
      BY <1>1
    <3> HIDE DEF T
    <3> QED
      BY <1>5, <3>1
  <2>2. f[i + 1] = step[i][f[i]]
    <3> HIDE DEF T, none, step
    <3> QED
      BY DEF Iterates
  <2> QED
    BY <2>1, <2>2
<1> QED
  BY <1>5, <1>6 DEF Codes

LEMMA CommandUnfolds ==
  ASSUME NEW c \in Seq(Instructions)
  PROVE  \E f \in Codes(c) : CommandCode(c) = f[Len(c)]
<1> DEFINE IsCode(f) ==
             f = [i \in 0 .. Len(c) |->
                    IF i = 0 THEN <<>>
                    ELSE f[i - 1] \o Encoded(c[i], CommandAt + Len(f[i - 1]))]
           code == CHOOSE f : IsCode(f)
<1>1. Len(c) \in Nat /\ CommandAt \in Nat
  BY EngineLies
<1>2. \E f : IsCode(f)
  <2>1. PICK f \in Codes(c) : TRUE
    BY CodeExists
  <2>2. /\ f = [i \in 0 .. Len(c) |-> f[i]]
        /\ f[0] = <<>>
        /\ \A i \in 0 .. Len(c) - 1 :
             f[i + 1] = f[i] \o Encoded(c[i + 1], CommandAt + Len(f[i]))
    BY DEF Codes
  <2>3. ASSUME NEW i \in 0 .. Len(c), i # 0
        PROVE  f[i] = f[i - 1] \o Encoded(c[i], CommandAt + Len(f[i - 1]))
    <3>1. i - 1 \in 0 .. Len(c) - 1 /\ i - 1 + 1 = i
      BY <1>1, <2>3
    <3> QED
      BY <2>2, <3>1
  <2>4. IsCode(f)
    BY <2>2, <2>3
  <2> QED
    BY <2>4
<1>3. IsCode(code)
  <2> HIDE DEF IsCode
  <2> QED
    BY <1>2
<1>4. CommandCode(c) = code[Len(c)]
  BY DEF CommandCode
<1>5. code = [i \in 0 .. Len(c) |->
                IF i = 0 THEN <<>>
                ELSE code[i - 1] \o Encoded(c[i], CommandAt + Len(code[i - 1]))]
  BY <1>3
<1> HIDE DEF code
<1>6. DOMAIN code = 0 .. Len(c) /\ code[0] = <<>>
  BY <1>1, <1>5
<1>7. ASSUME NEW i \in 0 .. Len(c) - 1
      PROVE  code[i + 1] = code[i] \o Encoded(c[i + 1], CommandAt + Len(code[i]))
  <2>1. i + 1 \in 0 .. Len(c) /\ i + 1 # 0 /\ i + 1 - 1 = i
    BY <1>1
  <2> QED
    BY <1>5, <2>1
<1> DEFINE S == {i \in 0 .. Len(c) : code[i] \in Seq(Addresses)}
<1>8. 0 \in S
  <2>1. 0 \in 0 .. Len(c) /\ <<>> \in Seq(Addresses)
    BY <1>1
  <2> QED
    BY <1>6, <2>1
<1>9. ASSUME NEW i \in 0 .. Len(c) - 1, i \in S
      PROVE  i + 1 \in S
  <2>1. code[i] \in Seq(Addresses) /\ i + 1 \in 0 .. Len(c) /\ c[i + 1] \in Instructions
    BY <1>1, <1>9
  <2>2. CommandAt + Len(code[i]) \in Int
    BY <1>1, <2>1
  <2>3. Encoded(c[i + 1], CommandAt + Len(code[i])) \in Seq(Addresses)
    BY <2>1, <2>2, EncodedCells
  <2>4. code[i + 1] \in Seq(Addresses)
    BY <1>7, <2>1, <2>3, ConcatCells
  <2> QED
    BY <2>1, <2>4
<1>10. 0 .. Len(c) \subseteq S
  <2> HIDE DEF S
  <2>1. \A i \in 0 .. Len(c) - 1 : i \in S => i + 1 \in S
    BY <1>9
  <2> QED
    BY <1>1, <1>8, <2>1, UpwardInduction
<1>11. code \in [0 .. Len(c) -> Seq(Addresses)]
  <2>1. code = [i \in 0 .. Len(c) |-> code[i]]
    BY <1>5
  <2>2. \A i \in 0 .. Len(c) : code[i] \in Seq(Addresses)
    BY <1>10
  <2> QED
    BY <2>1, <2>2
<1>12. code \in Codes(c)
  BY <1>6, <1>7, <1>11 DEF Codes
<1> QED
  BY <1>4, <1>12

(* What the next instruction adds, and where. *)
LEMMA CodeAppends ==
  ASSUME NEW c \in Seq(Instructions), NEW f \in Codes(c), NEW i \in 0 .. Len(c) - 1
  PROVE  LET at    == CommandAt + Len(f[i])
             cells == Encoded(c[i + 1], at)
         IN  /\ c[i + 1] \in Instructions /\ at \in Nat
             /\ f[i] \in Seq(Addresses) /\ Len(f[i]) \in Nat
             /\ Len(f[i + 1]) = Len(f[i]) + Len(cells) /\ Len(cells) \in 1 .. 2
             /\ \A k \in 1 .. Len(f[i]) : f[i + 1][k] = f[i][k]
             /\ \A k \in 1 .. Len(cells) : f[i + 1][Len(f[i]) + k] = cells[k]
<1> DEFINE at    == CommandAt + Len(f[i])
           cells == Encoded(c[i + 1], at)
<1>1. Len(c) \in Nat /\ CommandAt \in Nat /\ c[i + 1] \in Instructions
  BY EngineLies
<1>2. f[i + 1] = f[i] \o cells
  BY DEF Codes
<1>3. f[i] \in Seq(Addresses)
  BY <1>1 DEF Codes
<1>4. at \in Nat /\ at \in Int
  BY <1>1, <1>3
<1>5. cells \in Seq(Addresses) /\ Len(cells) \in 1 .. 2
  BY <1>1, <1>4, EncodedCells
<1> HIDE DEF cells
<1>6. /\ Len(f[i + 1]) = Len(f[i]) + Len(cells) /\ Len(f[i]) \in Nat
      /\ \A k \in 1 .. Len(f[i]) : f[i + 1][k] = f[i][k]
      /\ \A k \in 1 .. Len(cells) : f[i + 1][Len(f[i]) + k] = cells[k]
  BY <1>2, <1>3, <1>5, ConcatCells
<1> QED
  BY <1>1, <1>3, <1>4, <1>5, <1>6 DEF cells

(* What has been written stays at its place. *)
LEMMA CodeGrows ==
  ASSUME NEW c \in Seq(Instructions), NEW f \in Codes(c),
         NEW i \in 0 .. Len(c), NEW j \in i .. Len(c)
  PROVE  Len(f[i]) <= Len(f[j]) /\ \A k \in 1 .. Len(f[i]) : f[j][k] = f[i][k]
<1> DEFINE S == {m \in 0 .. Len(c) : /\ Len(f[i]) <= Len(f[m])
                                     /\ \A k \in 1 .. Len(f[i]) : f[m][k] = f[i][k]}
<1>1. Len(c) \in Nat /\ \A m \in 0 .. Len(c) : Len(f[m]) \in Nat
  BY DEF Codes
<1>2. i \in S
  BY <1>1
<1>3. ASSUME NEW m \in i .. Len(c) - 1, m \in S
      PROVE  m + 1 \in S
  <2>1. m \in 0 .. Len(c) - 1 /\ m \in 0 .. Len(c) /\ m + 1 \in 0 .. Len(c)
    BY <1>1
  <2>2. /\ Len(f[m]) <= Len(f[m + 1])
        /\ \A k \in 1 .. Len(f[m]) : f[m + 1][k] = f[m][k]
    <3> DEFINE n == Len(Encoded(c[m + 1], CommandAt + Len(f[m])))
    <3>1. Len(f[m + 1]) = Len(f[m]) + n /\ n \in 1 .. 2
      BY <2>1, CodeAppends
    <3> HIDE DEF n
    <3>2. Len(f[m]) <= Len(f[m + 1])
      BY <1>1, <2>1, <3>1
    <3>3. \A k \in 1 .. Len(f[m]) : f[m + 1][k] = f[m][k]
      BY <2>1, CodeAppends
    <3> QED
      BY <3>2, <3>3
  <2>3. Len(f[i]) <= Len(f[m]) /\ \A k \in 1 .. Len(f[i]) : f[m][k] = f[i][k]
    BY <1>3
  <2>4. \A k \in 1 .. Len(f[i]) : k \in 1 .. Len(f[m])
    BY <1>1, <2>1, <2>3
  <2>5. Len(f[i]) <= Len(f[m + 1])
    BY <1>1, <2>1, <2>2, <2>3
  <2> QED
    BY <2>1, <2>2, <2>3, <2>4, <2>5
<1>4. i .. Len(c) \subseteq S
  <2> HIDE DEF S
  <2>1. \A m \in i .. Len(c) - 1 : m \in S => m + 1 \in S
    BY <1>3
  <2>2. i \in Int /\ Len(c) \in Int /\ (i <= Len(c) => i \in S)
    BY <1>1, <1>2
  <2> QED
    BY <2>1, <2>2, Induction
<1> QED
  BY <1>4

(* In front of the first call there is no call's byte, unless a push has it as its
   argument. *)
LEMMA CodeBeforeCall ==
  ASSUME NEW c \in Seq(Instructions), NEW f \in Codes(c), NEW n \in 0 .. Len(c),
         \A i \in 1 .. n : /\ c[i].op # "call"
                           /\ c[i].op = "push" => c[i].arg # Ops["call"]
  PROVE  \A k \in 1 .. Len(f[n]) : f[n][k] # Ops["call"]
<1> DEFINE S == {m \in 0 .. n : \A k \in 1 .. Len(f[m]) : f[m][k] # Ops["call"]}
<1>1. Len(c) \in Nat /\ f[0] = <<>> /\ n \in Nat
  BY DEF Codes
<1>2. 0 \in S
  BY <1>1
<1>3. ASSUME NEW m \in 0 .. n - 1, m \in S
      PROVE  m + 1 \in S
  <2>1. m + 1 \in 1 .. n /\ m \in 0 .. Len(c) - 1 /\ m + 1 \in 0 .. n
    BY <1>1
  <2> DEFINE at    == CommandAt + Len(f[m])
             cells == Encoded(c[m + 1], at)
  <2>2. /\ c[m + 1] \in Instructions /\ at \in Nat
        /\ Len(f[m]) \in Nat
        /\ Len(f[m + 1]) = Len(f[m]) + Len(cells)
        /\ \A k \in 1 .. Len(f[m]) : f[m + 1][k] = f[m][k]
        /\ \A k \in 1 .. Len(cells) : f[m + 1][Len(f[m]) + k] = cells[k]
    BY <2>1, CodeAppends
  <2>3. /\ Len(cells) \in 1 .. 2 /\ cells[1] # Ops["call"]
        /\ Len(cells) = 2 => cells[2] # Ops["call"]
    <3>1. at \in Int
      BY <2>2
    <3> HIDE DEF at
    <3> QED
      BY <2>1, <2>2, <3>1, EncodedCells
  <2> HIDE DEF at, cells
  <2>4. ASSUME NEW k \in 1 .. Len(f[m + 1])
        PROVE  f[m + 1][k] # Ops["call"]
    <3>1. CASE k \in 1 .. Len(f[m])
      BY <1>3, <2>2, <3>1
    <3>2. CASE k \notin 1 .. Len(f[m])
      <4>1. k = Len(f[m]) + 1 \/ (k = Len(f[m]) + 2 /\ Len(cells) = 2)
        <5>1. /\ Len(f[m + 1]) = Len(f[m]) + Len(cells) /\ Len(f[m]) \in Nat
              /\ Len(cells) \in 1 .. 2 /\ k \in 1 .. Len(f[m + 1])
          BY <2>2, <2>3
        <5>2. \A a \in Nat, b \in 1 .. 2, x \in Int :
                x \in 1 .. a + b /\ x \notin 1 .. a => x = a + 1 \/ (x = a + 2 /\ b = 2)
          OBVIOUS
        <5>3. k \in 1 .. Len(f[m]) + Len(cells) /\ k \in Int
          BY <5>1
        <5> QED
          BY <3>2, <5>1, <5>2, <5>3
      <4>2. 1 \in 1 .. Len(cells) /\ (Len(cells) = 2 => 2 \in 1 .. Len(cells))
        BY <2>3
      <4> QED
        BY <2>2, <2>3, <4>1, <4>2
    <3> QED
      BY <3>1, <3>2
  <2> QED
    BY <2>1, <2>4
<1>4. 0 .. n \subseteq S
  <2> HIDE DEF S
  <2>1. \A m \in 0 .. n - 1 : m \in S => m + 1 \in S
    BY <1>3
  <2> QED
    BY <1>1, <1>2, <2>1, UpwardInduction
<1> QED
  BY <1>1, <1>4

LEMMA CommandCells ==
  ASSUME NEW g \in Programs
  PROVE  /\ g.command \in Seq(Instructions)
         /\ CommandCode(g.command) \in Seq(Addresses)
         /\ CommandAt + Len(CommandCode(g.command)) <= Engine.base
<1>1. /\ g.command \in Seq(Instructions)
      /\ CommandAt + Len(CommandCode(g.command)) <= Engine.base
  BY BuildAssumption DEF Platforms
<1>2. PICK f \in Codes(g.command) : CommandCode(g.command) = f[Len(g.command)]
  BY <1>1, CommandUnfolds
<1>3. Len(g.command) \in 0 .. Len(g.command)
  BY <1>1
<1>4. CommandCode(g.command) \in Seq(Addresses)
  BY <1>2, <1>3 DEF Codes
<1> QED
  BY <1>1, <1>4

(* The cells of the binary: all of the command's code and of the engine is mapped,
   and the engine has its code at its start. *)
LEMMA BinaryCells ==
  ASSUME NEW p \in Platforms, NEW g \in Programs
  PROVE  LET code == EngineCode(p, g) IN
         /\ Binary(p, g) \in [Addresses -> Addresses \cup {Unmapped}]
         /\ \A a \in CommandAt .. CommandAt + AdminScan : Binary(p, g)[a] \in Addresses
         /\ \A a \in Engine.base .. Engine.base + EngineSize - 1 :
              /\ Binary(p, g)[a] \in Addresses
              /\ a \in Engine.base .. Engine.base + Len(code) - 1 =>
                   Binary(p, g)[a] = code[a - Engine.base + 1]
         /\ \A a \in g.havok.base .. g.havok.base + g.havok.size - 1 :
              Binary(p, g)[a] = PhysicsCell(g.havok, a - g.havok.base)
<1> DEFINE type     == [Addresses -> Addresses \cup {Unmapped}]
           empty    == [a \in Addresses |-> Unmapped]
           others   == Others(AdminScan + 1)
           command  == CommandCode(g.command)
           placed   == Placed(empty, CommandAt, others)
           command2 == Placed(placed, CommandAt, command)
           room     == Others(EngineSize)
           engine   == Placed(command2, Engine.base, room)
           code     == EngineCode(p, g)
           engine2  == Placed(engine, Engine.base, code)
<1>1. Binary(p, g) = MapPhysics(engine2, g.havok, g.havok)
  BY DEF Binary
<1>2. /\ others \in Seq(Addresses) /\ Len(others) = AdminScan + 1
      /\ room \in Seq(Addresses) /\ Len(room) = EngineSize
  <2>1. AdminScan + 1 \in Nat /\ EngineSize \in Nat
    BY EngineLies
  <2> QED
    BY <2>1, OthersCells
<1>3. command \in Seq(Addresses) /\ Len(command) \in Nat
  BY CommandCells
<1>4. code \in Seq(Addresses) /\ Len(code) \in Nat
  BY EngineCodeCells
<1>5. empty \in type
  OBVIOUS
<1>6. CommandAt \in Nat /\ Engine.base \in Nat /\ AdminScan \in Nat /\ EngineSize \in Nat
  BY EngineLies
<1>7. g.havok \in Physics
  BY CodeAssumption
<1> HIDE DEF empty, others, command, room, code, placed, command2, engine, engine2, type
<1>8. /\ placed \in type
      /\ \A a \in CommandAt .. CommandAt + AdminScan : placed[a] \in Addresses
  <2>1. ASSUME NEW a \in CommandAt .. CommandAt + AdminScan
        PROVE  placed[a] \in Addresses
    <3>1. a \in Addresses /\ a \in CommandAt .. CommandAt + Len(others) - 1
      BY <1>2, <1>6, EngineLies DEF Addresses
    <3> QED
      BY <3>1, <1>2, <1>5, <1>6, PlacedCells DEF placed, type
  <2> QED
    BY <2>1, <1>2, <1>5, <1>6, PlacedCells DEF placed, type
<1>9. /\ command2 \in type
      /\ \A a \in CommandAt .. CommandAt + AdminScan : command2[a] \in Addresses
  <2>1. ASSUME NEW a \in CommandAt .. CommandAt + AdminScan
        PROVE  command2[a] \in Addresses
    <3>1. a \in Addresses
      BY <1>6, EngineLies DEF Addresses
    <3> QED
      BY <3>1, <1>3, <1>6, <1>8, PlacedCells DEF command2, type
  <2> QED
    BY <2>1, <1>3, <1>6, <1>8, PlacedCells DEF command2, type
<1>10. /\ engine \in type
       /\ \A a \in CommandAt .. CommandAt + AdminScan : engine[a] \in Addresses
       /\ \A a \in Engine.base .. Engine.base + EngineSize - 1 : engine[a] \in Addresses
  <2>1. ASSUME NEW a \in CommandAt .. CommandAt + AdminScan
        PROVE  engine[a] \in Addresses
    <3>1. a \in Addresses
      BY <1>6, EngineLies DEF Addresses
    <3> QED
      BY <3>1, <1>2, <1>6, <1>9, PlacedCells DEF engine, type
  <2>2. ASSUME NEW a \in Engine.base .. Engine.base + EngineSize - 1
        PROVE  engine[a] \in Addresses
    <3>1. a \in Addresses /\ a \in Engine.base .. Engine.base + Len(room) - 1
      BY <1>2, <1>6, EngineLies DEF Addresses
    <3> QED
      BY <3>1, <1>2, <1>6, <1>9, PlacedCells DEF engine, type
  <2> QED
    BY <2>1, <2>2, <1>2, <1>6, <1>9, PlacedCells DEF engine, type
<1>11. /\ engine2 \in type
       /\ \A a \in CommandAt .. CommandAt + AdminScan : engine2[a] \in Addresses
       /\ \A a \in Engine.base .. Engine.base + EngineSize - 1 :
            /\ engine2[a] \in Addresses
            /\ a \in Engine.base .. Engine.base + Len(code) - 1 =>
                 engine2[a] = code[a - Engine.base + 1]
  <2>1. ASSUME NEW a \in CommandAt .. CommandAt + AdminScan
        PROVE  engine2[a] \in Addresses
    <3>1. a \in Addresses
      BY <1>6, EngineLies DEF Addresses
    <3> QED
      BY <3>1, <1>4, <1>6, <1>10, PlacedCells DEF engine2, type
  <2>2. ASSUME NEW a \in Engine.base .. Engine.base + EngineSize - 1
        PROVE  /\ engine2[a] \in Addresses
               /\ a \in Engine.base .. Engine.base + Len(code) - 1 =>
                    engine2[a] = code[a - Engine.base + 1]
    <3>1. a \in Addresses
      BY <1>6, EngineLies DEF Addresses
    <3> QED
      BY <3>1, <1>4, <1>6, <1>10, PlacedCells DEF engine2, type
  <2> QED
    BY <2>1, <2>2, <1>4, <1>6, <1>10, PlacedCells DEF engine2, type
<1>12. /\ Binary(p, g) \in type
       /\ \A a \in 0 .. Engine.base + EngineSize - 1 : Binary(p, g)[a] = engine2[a]
       /\ \A a \in g.havok.base .. g.havok.base + g.havok.size - 1 :
            Binary(p, g)[a] = PhysicsCell(g.havok, a - g.havok.base)
  BY <1>1, <1>7, <1>11, MapPhysicsCells DEF type
<1>13. /\ \A a \in CommandAt .. CommandAt + AdminScan : a \in 0 .. Engine.base + EngineSize - 1
       /\ \A a \in Engine.base .. Engine.base + EngineSize - 1 :
            a \in 0 .. Engine.base + EngineSize - 1
  BY <1>6, EngineLies
<1> QED
  BY <1>11, <1>12, <1>13 DEF type, code

(* Where FindAdminCommandIssueFunc looks the binary has the command's code, and what
   is behind it has no call. *)
LEMMA ScannedCells ==
  ASSUME NEW p \in Platforms, NEW g \in Programs,
         NEW a \in CommandAt .. CommandAt + AdminScan
  PROVE  LET code == CommandCode(g.command)
             k    == a - CommandAt + 1
         IN  /\ k <= Len(code) => Binary(p, g)[a] = code[k]
             /\ k > Len(code) => Binary(p, g)[a] = Ops["other"]
<1> DEFINE type     == [Addresses -> Addresses \cup {Unmapped}]
           empty    == [b \in Addresses |-> Unmapped]
           others   == Others(AdminScan + 1)
           code     == CommandCode(g.command)
           placed   == Placed(empty, CommandAt, others)
           command  == Placed(placed, CommandAt, code)
           room     == Others(EngineSize)
           engine   == Placed(command, Engine.base, room)
           cells    == EngineCode(p, g)
           engine2  == Placed(engine, Engine.base, cells)
           k        == a - CommandAt + 1
<1>1. Binary(p, g) = MapPhysics(engine2, g.havok, g.havok)
  BY DEF Binary
<1>2. AdminScan + 1 \in Nat /\ EngineSize \in Nat /\ CommandAt \in Nat /\ Engine.base \in Nat
  BY EngineLies
<1>3. /\ others \in Seq(Addresses) /\ Len(others) = AdminScan + 1
      /\ \A i \in 1 .. AdminScan + 1 : others[i] = Ops["other"]
      /\ room \in Seq(Addresses) /\ Len(room) \in Nat
  BY <1>2, OthersCells
<1>4. code \in Seq(Addresses) /\ Len(code) \in Nat
  BY CommandCells
<1>5. cells \in Seq(Addresses) /\ Len(cells) \in Nat
  BY EngineCodeCells
<1>6. empty \in type
  OBVIOUS
<1>7. g.havok \in Physics
  BY CodeAssumption
<1>8. a \in Addresses /\ k \in 1 .. AdminScan + 1
      /\ a < Engine.base /\ a \in 0 .. Engine.base + EngineSize - 1
  BY EngineLies DEF Addresses
<1>9. \A n \in Nat : a \notin Engine.base .. Engine.base + n - 1
  BY <1>2, <1>8
<1>10. \A n \in Nat : a \in CommandAt .. CommandAt + n - 1 <=> k <= n
  BY <1>2, <1>8
<1> HIDE DEF empty, others, code, placed, command, room, engine, cells, engine2, k, type
<1>11. placed \in type /\ placed[a] = Ops["other"]
  <2>1. a \in CommandAt .. CommandAt + Len(others) - 1
    BY <1>2, <1>3, <1>8, <1>10
  <2>2. placed[a] = others[k]
    BY <1>2, <1>3, <1>6, <1>8, <2>1, PlacedCells DEF placed, type, k
  <2>3. placed \in type
    BY <1>2, <1>3, <1>6, PlacedCells DEF placed, type
  <2> QED
    BY <1>3, <1>8, <2>2, <2>3
<1>12. /\ command \in type
       /\ k <= Len(code) => command[a] = code[k]
       /\ k > Len(code) => command[a] = Ops["other"]
  <2>1. k \in Int
    BY <1>8
  <2>2. command \in type
    BY <1>2, <1>4, <1>11, PlacedCells DEF command, type
  <2>3. CASE k <= Len(code)
    <3>1. a \in CommandAt .. CommandAt + Len(code) - 1
      BY <1>4, <1>10, <2>3
    <3>2. command[a] = code[k]
      BY <1>2, <1>4, <1>8, <1>11, <3>1, PlacedCells DEF command, type, k
    <3> QED
      BY <1>4, <2>1, <2>2, <2>3, <3>2
  <2>4. CASE k > Len(code)
    <3>1. ~(k <= Len(code))
      BY <1>4, <2>1, <2>4
    <3>2. a \notin CommandAt .. CommandAt + Len(code) - 1
      BY <1>4, <1>10, <3>1
    <3>3. command[a] = placed[a]
      BY <1>2, <1>4, <1>8, <1>11, <3>2, PlacedCells DEF command, type
    <3> QED
      BY <1>11, <2>2, <3>1, <3>3
  <2> QED
    BY <1>4, <2>1, <2>3, <2>4
<1>13. engine \in type /\ engine[a] = command[a]
  BY <1>2, <1>3, <1>8, <1>9, <1>12, PlacedCells DEF engine, type
<1>14. engine2 \in type /\ engine2[a] = engine[a]
  BY <1>2, <1>5, <1>8, <1>9, <1>13, PlacedCells DEF engine2, type
<1>15. Binary(p, g)[a] = engine2[a]
  BY <1>1, <1>7, <1>8, <1>14, MapPhysicsCells DEF type
<1> QED
  BY <1>12, <1>13, <1>14, <1>15 DEF code, k

(* The first call in the command's code: its opcode is the first one that the scan
   meets, and the address in its operand is the one it calls. *)
LEMMA FirstCallDecoded ==
  ASSUME NEW p \in Platforms, NEW g \in Programs, NEW S,
         \A i \in DOMAIN g.command :
           g.command[i].op = "push" => g.command[i].arg # Ops["call"],
         S = {x \in 0 .. AdminScan - 1 : Binary(p, g)[CommandAt + x] = Ops["call"]},
         S # {}
  PROVE  \E i \in DOMAIN g.command :
           /\ g.command[i].op = "call"
           /\ \A j \in 1 .. i - 1 : g.command[j].op # "call"
           /\ LET at == CommandAt + Min(S) IN
              Wrap(at + JumpSize + Binary(p, g)[at + 1]) = g.command[i].arg
<1> DEFINE c     == g.command
           code  == CommandCode(c)
           L     == Len(c)
           calls == {i \in Nat : i \in 1 .. L /\ c[i].op = "call"}
           x     == Min(S)
<1>1. c \in Seq(Instructions) /\ L \in Nat /\ DOMAIN c = 1 .. L
      /\ code \in Seq(Addresses) /\ Len(code) \in Nat
      /\ CommandAt + Len(code) <= Engine.base
  BY CommandCells
<1>2. CommandAt \in Nat \ {0} /\ AdminScan \in Nat /\ Engine.base \in Nat
      /\ Engine.base < Space /\ Space \in Nat
  BY EngineLies, CallLies
<1>3. Ops["call"] # Ops["other"]
  BY OpsAreAddresses DEF OpNames
<1>4. PICK f \in Codes(c) : code = f[L]
  BY <1>1, CommandUnfolds
<1>5. \A y \in 0 .. AdminScan :
         /\ y + 1 <= Len(code) => Binary(p, g)[CommandAt + y] = code[y + 1]
         /\ y + 1 > Len(code) => Binary(p, g)[CommandAt + y] = Ops["other"]
  <2> SUFFICES ASSUME NEW y \in 0 .. AdminScan
               PROVE  /\ y + 1 <= Len(code) => Binary(p, g)[CommandAt + y] = code[y + 1]
                      /\ y + 1 > Len(code) => Binary(p, g)[CommandAt + y] = Ops["other"]
    OBVIOUS
  <2> DEFINE a == CommandAt + y
             k == a - CommandAt + 1
  <2>1. a \in CommandAt .. CommandAt + AdminScan /\ k = y + 1
    BY <1>2
  <2>2. /\ k <= Len(code) => Binary(p, g)[a] = code[k]
        /\ k > Len(code) => Binary(p, g)[a] = Ops["other"]
    <3> HIDE DEF a
    <3> QED
      BY <2>1, ScannedCells
  <2> HIDE DEF k
  <2> QED
    BY <2>1, <2>2
<1> HIDE DEF c, code, L, x
<1>6. \A m \in 0 .. L : f[m] \in Seq(Addresses) /\ Len(f[m]) \in Nat
  BY DEF Codes, L
<1>7. S \subseteq 0 .. AdminScan - 1 /\ S \in SUBSET Nat
  BY <1>2
<1>8. x \in S /\ \A y \in S : x <= y
  BY <1>7, MinIsLeast DEF x
<1>9. x \in 0 .. AdminScan - 1 /\ Binary(p, g)[CommandAt + x] = Ops["call"]
  BY <1>8
<1>10. x + 1 <= Len(code) /\ code[x + 1] = Ops["call"]
  <2>1. x \in 0 .. AdminScan
    BY <1>2, <1>9
  <2>2. /\ x + 1 <= Len(code) => Binary(p, g)[CommandAt + x] = code[x + 1]
        /\ x + 1 > Len(code) => Binary(p, g)[CommandAt + x] = Ops["other"]
    BY <1>5, <2>1
  <2> QED
    BY <1>1, <1>3, <1>9, <2>2
<1>11. ASSUME NEW n \in 0 .. L, \A i \in 1 .. n : c[i].op # "call"
       PROVE  \A k \in 1 .. Len(f[n]) : f[n][k] # Ops["call"]
  <2>1. \A i \in 1 .. n : c[i].op = "push" => c[i].arg # Ops["call"]
    BY <1>1 DEF c
  <2>2. \A i \in 1 .. n : /\ c[i].op # "call"
                          /\ c[i].op = "push" => c[i].arg # Ops["call"]
    BY <1>11, <2>1
  <2> QED
    BY <1>1, <2>2, CodeBeforeCall DEF L
<1>12. calls # {}
  <2>1. SUFFICES ASSUME \A i \in 1 .. L : c[i].op # "call" PROVE FALSE
    BY <1>1
  <2>2. L \in 0 .. L
    BY <1>1
  <2>3. \A k \in 1 .. Len(code) : code[k] # Ops["call"]
    BY <1>4, <1>11, <2>1, <2>2
  <2>4. x + 1 \in 1 .. Len(code)
    BY <1>1, <1>9, <1>10
  <2> QED
    BY <1>10, <2>3, <2>4
<1>13. PICK i \in calls : \A j \in calls : i <= j
  BY <1>12, LeastNatural
<1>14. i \in 1 .. L /\ c[i].op = "call"
  OBVIOUS
<1>15. \A j \in 1 .. i - 1 : c[j].op # "call"
  <2>1. SUFFICES ASSUME NEW j \in 1 .. i - 1, c[j].op = "call" PROVE FALSE
    OBVIOUS
  <2>2. j \in calls /\ ~(i <= j)
    BY <1>1, <1>14, <2>1
  <2> QED
    BY <1>13, <2>2
<1> HIDE DEF calls
<1> DEFINE n   == i - 1
           off == Len(f[n])
           at  == CommandAt + off
<1>16. n \in 0 .. L - 1 /\ n \in 0 .. L /\ n + 1 = i /\ i \in 0 .. L /\ L \in i .. L
  BY <1>1, <1>14
<1>17. off \in Nat /\ \A k \in 1 .. off : f[n][k] # Ops["call"]
  BY <1>6, <1>11, <1>15, <1>16
<1>18. c[i].arg \in Addresses
  <2>1. c[i] \in Instructions
    BY <1>1, <1>14
  <2> QED
    BY <2>1 DEF Instructions
<1>19. /\ Len(f[i]) = off + 2
       /\ f[i][off + 1] = Ops["call"]
       /\ f[i][off + 2] = Wrap(c[i].arg - at - JumpSize)
  <2> DEFINE cells == Encoded(c[i], at)
  <2>1. /\ c[i] \in Instructions /\ at \in Nat
        /\ Len(f[i]) = off + Len(cells)
        /\ \A k \in 1 .. Len(cells) : f[i][off + k] = cells[k]
    <3>1. n \in 0 .. Len(c) - 1
      BY <1>16 DEF L
    <3>2. LET at2    == CommandAt + Len(f[n])
              cells2 == Encoded(c[n + 1], at2)
          IN  /\ c[n + 1] \in Instructions /\ at2 \in Nat
              /\ Len(f[n + 1]) = Len(f[n]) + Len(cells2)
              /\ \A k \in 1 .. Len(cells2) : f[n + 1][Len(f[n]) + k] = cells2[k]
      <4> HIDE DEF n
      <4> QED
        BY <1>1, <3>1, CodeAppends
    <3>3. n + 1 = i
      BY <1>16
    <3> HIDE DEF n
    <3> QED
      BY <3>2, <3>3
  <2>2. at \in Int
    BY <2>1
  <2> HIDE DEF at
  <2>3. cells[1] = Ops["call"] /\ Len(cells) = 2
        /\ cells[2] = Wrap(c[i].arg - at - JumpSize)
    BY <1>14, <2>1, <2>2, EncodedCells
  <2> HIDE DEF cells
  <2>4. 1 \in 1 .. Len(cells) /\ 2 \in 1 .. Len(cells)
    BY <2>3
  <2> QED
    BY <2>1, <2>3, <2>4 DEF at
<1>20. /\ off + 2 <= Len(code)
       /\ code[off + 1] = Ops["call"]
       /\ code[off + 2] = Wrap(c[i].arg - at - JumpSize)
       /\ \A k \in 1 .. off : code[k] # Ops["call"]
  <2>1. Len(f[i]) <= Len(code) /\ \A k \in 1 .. Len(f[i]) : code[k] = f[i][k]
    BY <1>1, <1>4, <1>16, CodeGrows DEF L
  <2>2. Len(f[n]) <= Len(code) /\ \A k \in 1 .. Len(f[n]) : code[k] = f[n][k]
    <3>1. L \in n .. L
      BY <1>1, <1>16
    <3> QED
      BY <1>1, <1>4, <1>16, <3>1, CodeGrows DEF L
  <2>3. off + 1 \in 1 .. Len(f[i]) /\ off + 2 \in 1 .. Len(f[i])
    BY <1>17, <1>19
  <2>4. off + 2 <= Len(code)
    BY <1>19, <2>1
  <2> QED
    BY <1>17, <1>19, <2>1, <2>2, <2>3, <2>4
<1> HIDE DEF n, off
<1>21. x = off
  <2>1. x >= off
    <3>1. SUFFICES ASSUME x < off PROVE FALSE
      BY <1>9, <1>17
    <3>2. x + 1 \in 1 .. off
      BY <1>9, <1>17, <3>1
    <3> QED
      BY <1>10, <1>20, <3>2
  <2>2. x <= off
    <3>1. SUFFICES ASSUME off < x PROVE FALSE
      BY <1>9, <1>17
    <3>2. off \in 0 .. AdminScan - 1
      <4>1. AdminScan \in Nat /\ off \in Nat /\ x \in 0 .. AdminScan - 1 /\ off < x
        BY <1>2, <1>9, <1>17, <3>1
      <4> QED
        BY <4>1
    <3>3. off \in 0 .. AdminScan /\ off + 1 <= Len(code)
      BY <1>1, <1>2, <1>17, <1>20, <3>2
    <3>4. Binary(p, g)[CommandAt + off] = code[off + 1]
      BY <1>5, <3>3
    <3>5. off \in S
      BY <1>20, <3>2, <3>4
    <3> QED
      BY <1>8, <1>9, <1>17, <3>1, <3>5
  <2> QED
    BY <1>9, <1>17, <2>1, <2>2
<1>22. Binary(p, g)[at + 1] = Wrap(c[i].arg - at - JumpSize)
  <2>1. /\ off + 1 \in 0 .. AdminScan /\ off + 1 + 1 <= Len(code)
        /\ at + 1 = CommandAt + (off + 1) /\ off + 1 + 1 = off + 2
    BY <1>1, <1>2, <1>9, <1>17, <1>20, <1>21
  <2>2. Binary(p, g)[CommandAt + (off + 1)] = code[off + 1 + 1]
    BY <1>5, <2>1
  <2> QED
    BY <1>20, <2>1, <2>2
<1>23. at \in Nat /\ at + JumpSize < Space
  <2>1. at \in Nat /\ at + 2 < Space
    <3>1. CommandAt + AdminScan < Engine.base
      BY EngineLies
    <3>2. off \in 0 .. AdminScan - 1
      BY <1>9, <1>21
    <3> QED
      BY <1>2, <1>17, <3>1, <3>2
  <2> QED
    BY <2>1 DEF JumpSize
<1> HIDE DEF at
<1>24. Wrap(at + JumpSize + Binary(p, g)[at + 1]) = c[i].arg
  BY <1>18, <1>22, <1>23, JumpArrives
<1>25. CommandAt + Min(S) = at
  BY <1>21 DEF at, x
<1> QED
  BY <1>1, <1>14, <1>15, <1>24, <1>25 DEF c

LEMMA SpawnServerCells ==
  ASSUME NEW p \in Platforms, NEW g \in Programs
  PROVE  LET call == CallAt(p, g) IN
         /\ Binary(p, g)[SpawnServerAt(g)] = Ops["prologue"]
         /\ Binary(p, g)[SpawnServerAt(g) + 2] = Ops["body"]
         /\ p = "windows" => Binary(p, g)[call] = Ops["indirect"]
         /\ p = "linux" => /\ Binary(p, g)[call] = Ops["call"]
                           /\ Binary(p, g)[call + 1] = Wrap(Log - call - JumpSize)
         /\ Binary(p, g)[call + CallSize(p)] = Ops["rest"]
<1> DEFINE server == SpawnServerAt(g)
           call   == CallAt(p, g)
           base   == Engine.base
           size   == CallSize(p)
           code   == EngineCode(p, g)
<1>1. /\ Len(code) = call - base + size + 1
      /\ code[server - base + 1] = Ops["prologue"]
      /\ code[server - base + 3] = Ops["body"]
      /\ \A i \in 1 .. size : code[call - base + i] = GameCall(p, call)[i]
      /\ code[call - base + size + 1] = Ops["rest"]
  BY EngineCodeCells
<1>2. \A a \in base .. base + EngineSize - 1 :
        a \in base .. base + Len(code) - 1 => Binary(p, g)[a] = code[a - base + 1]
  BY BinaryCells
<1>3. /\ server \in Nat /\ base \in Nat /\ base <= server
      /\ call \in Nat /\ server + 4 <= call
      /\ size \in 2 .. 3
      /\ call + size < base + EngineSize
  BY CallLies, EngineLies
<1> HIDE DEF server, call, base, size, code
<1>4. ASSUME NEW a \in base .. call + size
      PROVE  Binary(p, g)[a] = code[a - base + 1]
  <2>1. a \in base .. base + EngineSize - 1 /\ a \in base .. base + Len(code) - 1
    BY <1>1, <1>3, EngineLies
  <2> QED
    BY <1>2, <2>1
<1>5. /\ Binary(p, g)[server] = code[server - base + 1]
      /\ Binary(p, g)[server + 2] = code[server + 2 - base + 1]
      /\ Binary(p, g)[call] = code[call - base + 1]
      /\ Binary(p, g)[call + 1] = code[call + 1 - base + 1]
      /\ Binary(p, g)[call + size] = code[call + size - base + 1]
  BY <1>3, <1>4
<1>6. /\ server + 2 - base + 1 = server - base + 3
      /\ call + 1 - base + 1 = call - base + 2
      /\ call + size - base + 1 = call - base + size + 1
  BY <1>3
<1>7. /\ code[call - base + 1] = GameCall(p, call)[1]
      /\ code[call - base + 2] = GameCall(p, call)[2]
  BY <1>1, <1>3
<1>8. /\ p = "windows" => GameCall(p, call)[1] = Ops["indirect"]
      /\ p = "linux" => /\ GameCall(p, call)[1] = Ops["call"]
                        /\ GameCall(p, call)[2] = Wrap(Log - call - JumpSize)
  BY <1>3, GameCallCells
<1> QED
  BY <1>1, <1>5, <1>6, <1>7, <1>8 DEF server, call, size

LEMMA AppendJoins ==
  \A s \in Seq(Addresses), c \in Addresses : IsJoin(Append(s, c), s, <<c>>)
BY DEF IsJoin

(* The call that the plugin writes. *)
LEMMA HookCells ==
  ASSUME platform \in Platforms, NEW at \in Nat
  PROVE  /\ Hook(at) \in Seq(Addresses)
         /\ Len(Hook(at)) = CallSize(platform)
         /\ Hook(at)[1] = Ops["call"]
         /\ Hook(at)[2] = Wrap(Wrapper - at - JumpSize)
         /\ platform = "windows" => Hook(at)[3] = Ops["nop"]
<1>1. Ops["call"] \in Addresses /\ Ops["nop"] \in Addresses
  BY OpsAreAddresses DEF OpNames
<1>2. Wrap(Wrapper - at - JumpSize) \in Addresses
  BY WrapIsAddress, LayoutAssumption DEF Addresses, JumpSize
<1>3. CASE platform = "windows"
  <2> DEFINE jump == Jump(at, Wrapper)
  <2>1. /\ jump \in Seq(Addresses) /\ Len(jump) = 2
        /\ jump[1] = Ops["call"] /\ jump[2] = Wrap(Wrapper - at - JumpSize)
    BY <1>1, <1>2 DEF Jump, CalcRelativeJmp
  <2> DEFINE nop  == <<Ops["nop"]>>
             hook == Hook(at)
  <2>2. hook = Append(jump, Ops["nop"])
    BY <1>3 DEF Hook
  <2>3. nop \in Seq(Addresses) /\ Len(nop) = 1 /\ nop[1] = Ops["nop"]
    BY <1>1
  <2> HIDE DEF jump
  <2>4. IsJoin(hook, jump, nop)
    BY <1>1, <2>1, <2>2, AppendJoins
  <2> HIDE DEF nop, hook
  <2>5. hook \in Seq(Addresses) /\ Len(hook) = Len(jump) + Len(nop)
    BY <2>4, JoinLength
  <2>6. \A i \in 1 .. Len(jump) : hook[i] = jump[i]
    BY <2>4, JoinCells
  <2>7. \A i \in 1 .. Len(nop) : hook[Len(jump) + i] = nop[i]
    BY <2>4, JoinCells
  <2>8. hook[1] = jump[1] /\ hook[2] = jump[2]
    BY <2>1, <2>6
  <2>9. hook[Len(jump) + 1] = nop[1]
    <3>1. 1 \in 1 .. Len(nop)
      BY <2>3
    <3> QED
      BY <2>7, <3>1
  <2>10. hook[3] = Ops["nop"]
    BY <2>1, <2>3, <2>9
  <2>11. CallSize(platform) = 3
    BY <1>3 DEF CallSize, JumpSize
  <2> QED
    BY <2>1, <2>3, <2>5, <2>8, <2>10, <2>11 DEF hook
<1>4. CASE platform = "linux"
  <2>1. Hook(at) = <<Ops["call"], Wrap(Wrapper - at - JumpSize)>>
    BY <1>4 DEF Hook, Jump, CalcRelativeJmp
  <2>2. CallSize(platform) = 2 /\ platform # "windows"
    BY <1>4 DEF CallSize, JumpSize
  <2> QED
    BY <1>1, <1>2, <2>1, <2>2
<1> QED
  BY <1>3, <1>4 DEF Platforms

-------------------------------------------------------------------------------
(* The call of SpawnServer in the process. *)
LEMMA RestLies ==
  ASSUME platform \in Platforms, program \in Programs
  PROVE  /\ CallAt(platform, program) \in Nat \ {0}
         /\ RestAt \in Nat /\ RestAt = CallAt(platform, program) + CallSize(platform)
         /\ CallSize(platform) \in 2 .. 3
         /\ CommandAt < Engine.base /\ Engine.base < CallAt(platform, program)
         /\ RestAt < Engine.base + Engine.code
         /\ RestAt < Engine.base + EngineSize
         /\ RestAt < Space
BY CallLies, EngineLies DEF RestAt

LEMMA CallPages ==
  ASSUME platform \in Platforms, program \in Programs,
         NEW a \in CallAt(platform, program) .. RestAt
  PROVE  a \in Addresses /\ Page(a) \in Pages \cap EnginePages /\ LoaderProt[Page(a)] = "rx"
<1>1. a \in Addresses /\ a \in Engine.base .. Engine.base + Engine.code - 1
  BY RestLies, EngineLies DEF Addresses
<1>2. Page(a) \in Pages \cap EnginePages
  BY <1>1 DEF Pages, EnginePages
<1> QED
  BY <1>1, <1>2 DEF LoaderProt

(* A patch of the call, or of a part of it, leaves every page as it was, and does
   not meet a protected one. *)
LEMMA PagesKept ==
  ASSUME platform \in Platforms, program \in Programs, NEW at \in Nat, NEW n \in 1 .. 2,
         CallAt(platform, program) <= at, at + n <= RestAt
  PROVE  /\ Reprotected(LoaderProt, at, n) = LoaderProt
         /\ ~WriteFaults(at, n)
<1>1. /\ Page(at) \in Nat /\ Page(at + n - 1) \in {Page(at), Page(at) + 1}
  <2>1. CASE n = 1
    BY <2>1, PageFacts
  <2>2. CASE n = 2
    BY <2>2, PageFacts
  <2> QED
    BY <2>1, <2>2
<1>2. TouchedPages(at, n) = {Page(at), Page(at + n - 1)}
  BY <1>1 DEF TouchedPages
<1>3. /\ at \in CallAt(platform, program) .. RestAt
      /\ at + n - 1 \in CallAt(platform, program) .. RestAt
  BY RestLies
<1>4. \A g \in TouchedPages(at, n) : LoaderProt[g] = "rx"
  BY <1>2, <1>3, CallPages
<1>5. LoaderProt[Page(at)] = "rx"
  BY <1>3, CallPages
<1>6. LoaderProt \in [Pages -> {"rx", "rw"}]
  BY DEF LoaderProt
<1>7. Reprotected(LoaderProt, at, n) = LoaderProt
  <2>1. ASSUME NEW g \in Pages
        PROVE  Reprotected(LoaderProt, at, n)[g] = LoaderProt[g]
    BY <1>4, <1>5 DEF Reprotected
  <2> QED
    BY <2>1, <1>6 DEF Reprotected
<1>8. \A a \in at .. at + n - 1 : a \in {at, at + n - 1}
  OBVIOUS
<1> QED
  BY <1>2, <1>7, <1>8 DEF WriteFaults

LEMMA CallProtected ==
  ASSUME platform \in Platforms, program \in Programs, prot = LoaderProt
  PROVE  /\ Protected(CallAt(platform, program)) = LoaderProt
         /\ ~WriteFaults(CallAt(platform, program), JumpSize)
<1> DEFINE at == CallAt(platform, program)
<1>1. at \in Nat /\ at + 2 <= RestAt
  BY RestLies
<1>2. /\ Reprotected(LoaderProt, at, 2) = LoaderProt
      /\ ~WriteFaults(at, 2)
  BY <1>1, PagesKept
<1>3. platform = "windows" => Reprotected(LoaderProt, at + 2, 1) = LoaderProt
  <2>1. SUFFICES ASSUME platform = "windows"
                 PROVE  Reprotected(LoaderProt, at + 2, 1) = LoaderProt
    OBVIOUS
  <2>2. at + 2 \in Nat /\ at <= at + 2 /\ at + 2 + 1 <= RestAt
    BY <1>1, <2>1, RestLies DEF CallSize, JumpSize
  <2> QED
    BY <2>2, PagesKept
<1> QED
  BY <1>2, <1>3 DEF Protected, JumpSize

(* Apart from the plugin's call, a patch there changes nothing. *)
LEMMA CallPatched ==
  ASSUME CodeTypeOK, NEW cells \in Seq(Addresses), Len(cells) = CallSize(platform)
  PROVE  LET at  == CallAt(platform, program)
             mem == Placed(memory, at, cells)
         IN  /\ mem \in [Addresses -> Addresses \cup {Unmapped}]
             /\ \A a \in CallCells : mem[a] = cells[a - at + 1]
             /\ \A a \in Addresses : a \notin CallCells => mem[a] = memory[a]
<1> DEFINE at == CallAt(platform, program)
<1>1. platform \in Platforms /\ program \in Programs
      /\ memory \in [Addresses -> Addresses \cup {Unmapped}]
  BY DEF CodeTypeOK
<1>2. at \in Nat /\ CallCells = at .. at + Len(cells) - 1
  BY <1>1, RestLies DEF CallCells
<1>3. \A a \in CallCells : a \in Addresses
  BY <1>1, <1>2, RestLies, EngineLies DEF Addresses
<1> QED
  BY <1>1, <1>2, <1>3, PlacedCells

(* What the processor finds at the places that it comes to: the plugin's call, the
   game's own one, the byte after a jump, or the code behind the call. *)
LEMMA AtInstruction ==
  ASSUME CodeTypeOK, GameInv, CpuInv, ip # NullAddr
  PROVE  LET call == CallAt(platform, program) IN
         /\ prot[Page(ip)] = "rx"
         /\ \/ /\ ip = call /\ pc = "active"
               /\ memory[ip] = Ops["call"] /\ Destination(ip) = Wrapper
            \/ /\ ip = call /\ pc = "out" /\ platform = "windows"
               /\ memory[ip] = Ops["indirect"]
            \/ /\ ip = call /\ pc = "out" /\ platform = "linux"
               /\ memory[ip] = Ops["call"] /\ Destination(ip) = Log
            \/ /\ ip = call + JumpSize /\ platform = "windows"
               /\ pc = "active" /\ called = Wrapper
               /\ memory[ip] = Ops["nop"]
            \/ /\ ip = RestAt
               /\ called = (IF pc = "active" THEN Wrapper ELSE Log)
               /\ memory[ip] = Ops["rest"]
<1> DEFINE call == CallAt(platform, program)
           size == CallSize(platform)
<1>1. platform \in Platforms /\ program \in Programs
  BY DEF CodeTypeOK
<1>2. /\ call \in Nat /\ RestAt = call + size /\ size \in 2 .. 3
      /\ CommandAt <= call /\ RestAt < Engine.base + EngineSize
      /\ RestAt < Space
  BY <1>1, RestLies, EngineLies
<1>3. /\ platform = "windows" => size = 3
      /\ platform = "linux" => size = 2
  BY DEF CallSize, JumpSize
<1>4. platform = "windows" \/ platform = "linux"
  BY <1>1 DEF Platforms
<1>5. /\ pc \in {"out", "active"}
      /\ \/ ip = call
         \/ /\ \/ ip = RestAt
               \/ ip = call + JumpSize /\ pc = "active"
            /\ called = (IF pc = "active" THEN Wrapper ELSE Log)
  BY DEF CpuInv
<1> HIDE DEF call, size
<1>6. prot[Page(ip)] = "rx"
  <2>1. ip \in call .. RestAt
    BY <1>2, <1>5 DEF JumpSize
  <2> QED
    BY <1>1, <2>1, CallPages DEF GameInv, call
<1>7. \A a \in call .. RestAt : memory[a] = Expected(a)
  <2>1. EngineSize \in Nat /\ Engine.base \in Nat /\ CommandAt \in Nat
    BY EngineLies
  <2>2. \A a \in call .. RestAt : a \in GameCells
    BY <1>2, <2>1 DEF GameCells
  <2> QED
    BY <2>2 DEF GameInv
<1>8. CallCells = call .. call + size - 1
  BY <1>2 DEF CallCells, call
<1>9. memory[RestAt] = Ops["rest"]
  <2>1. RestAt \in call .. RestAt /\ RestAt \notin CallCells
    BY <1>2, <1>8
  <2>2. memory[RestAt] = Binary(platform, program)[RestAt]
    BY <1>7, <2>1 DEF Expected
  <2> QED
    BY <1>1, <1>2, <2>2, SpawnServerCells DEF call, size
<1>10. CASE pc = "active"
  <2>1. /\ Hook(call)[1] = Ops["call"]
        /\ Hook(call)[2] = Wrap(Wrapper - call - JumpSize)
        /\ platform = "windows" => Hook(call)[3] = Ops["nop"]
    BY <1>1, <1>2, HookCells
  <2>2. ASSUME NEW a \in CallCells, NEW i \in 1 .. 3, a = call + i - 1
        PROVE  memory[a] = Hook(call)[i]
    <3>1. a \in call .. RestAt /\ a - call + 1 = i
      BY <1>2, <1>8, <2>2
    <3> QED
      BY <3>1, <1>7, <1>10 DEF Expected, call
  <2>3. memory[call] = Ops["call"] /\ memory[call + 1] = Wrap(Wrapper - call - JumpSize)
    <3>1. call \in CallCells /\ call + 1 \in CallCells
      BY <1>2, <1>8
    <3>2. call = call + 1 - 1 /\ call + 1 = call + 2 - 1
      BY <1>2
    <3>3. memory[call] = Hook(call)[1] /\ memory[call + 1] = Hook(call)[2]
      BY <2>2, <3>1, <3>2
    <3> QED
      BY <2>1, <3>3
  <2>4. Destination(call) = Wrapper
    <3>1. call + JumpSize < Space /\ Wrapper \in Addresses
      BY <1>2, EngineLies, LayoutAssumption DEF JumpSize
    <3>2. Wrap(call + JumpSize + Wrap(Wrapper - call - JumpSize)) = Wrapper
      BY <1>2, <3>1, JumpArrives
    <3> QED
      BY <2>3, <3>2 DEF Destination
  <2>5. platform = "windows" => memory[call + JumpSize] = Ops["nop"]
    <3>1. SUFFICES ASSUME platform = "windows"
                   PROVE  memory[call + JumpSize] = Ops["nop"]
      OBVIOUS
    <3>2. call + 2 \in CallCells
      BY <1>2, <1>3, <1>8, <3>1
    <3>3. call + 2 = call + 3 - 1
      BY <1>2
    <3>4. memory[call + 2] = Hook(call)[3]
      BY <2>2, <3>2, <3>3
    <3> QED
      BY <2>1, <3>1, <3>4 DEF JumpSize
  <2>6. platform = "linux" => call + JumpSize = RestAt
    BY <1>2, <1>3 DEF JumpSize
  <2> QED
    BY <1>4, <1>5, <1>6, <1>9, <1>10, <2>3, <2>4, <2>5, <2>6 DEF call
<1>11. CASE pc = "out"
  <2>1. call \in call .. RestAt /\ call + 1 \in call .. RestAt
    BY <1>2
  <2>2. /\ memory[call] = Binary(platform, program)[call]
        /\ memory[call + 1] = Binary(platform, program)[call + 1]
    BY <1>7, <1>11, <2>1 DEF Expected
  <2>3. platform = "windows" => memory[call] = Ops["indirect"]
    BY <1>1, <2>2, SpawnServerCells DEF call
  <2>4. platform = "linux" => /\ memory[call] = Ops["call"]
                             /\ memory[call + 1] = Wrap(Log - call - JumpSize)
    BY <1>1, <2>2, SpawnServerCells DEF call
  <2>5. platform = "linux" => Destination(call) = Log
    <3>1. call + JumpSize < Space /\ Log \in Addresses
      BY <1>2, EngineLies, LayoutAssumption DEF JumpSize
    <3>2. Wrap(call + JumpSize + Wrap(Log - call - JumpSize)) = Log
      BY <1>2, <3>1, JumpArrives
    <3> QED
      BY <2>4, <3>2 DEF Destination
  <2> QED
    BY <1>4, <1>5, <1>6, <1>9, <1>11, <2>3, <2>4, <2>5 DEF call
<1> QED
  BY <1>5, <1>10, <1>11

-------------------------------------------------------------------------------
(* What follows from the invariant. *)
LEMMA InvHookReached == CodeInv => HookReached
<1> SUFFICES ASSUME CodeInv
             PROVE  HookReached
  OBVIOUS
<1>1. platform \in Platforms /\ program \in Programs
  BY DEF CodeInv, CodeTypeOK
<1>2. pc # "write fault"
  BY DEF CodeInv, GameInv
<1>3. ip # NullAddr =>
        \/ \E op \in {"indirect", "nop", "rest"} : Fetched(op)
        \/ Fetched("call") /\ Destination(ip) \in Present
  BY AtInstruction DEF CodeInv, Fetched, Present
<1>4. ASSUME ip = RestAt
      PROVE  called = (IF pc = "active" THEN Wrapper ELSE Log)
  <2>1. ip # NullAddr /\ ip # CallAt(platform, program)
    BY <1>1, <1>4, RestLies DEF NullAddr
  <2> QED
    BY <2>1 DEF CodeInv, CpuInv
<1> QED
  BY <1>2, <1>3, <1>4 DEF HookReached

LEMMA InvCodeIntact == CodeInv => CodeIntact
BY DEF CodeInv, GameInv, CodeIntact, Expected, GameCells, CallCells

-------------------------------------------------------------------------------
(* What a step keeps that leaves a part of the state alone. *)
LEMMA GameKept ==
  ASSUME GameInv, UNCHANGED <<platform, program, memory, prot>>,
         pc' = "active" <=> pc = "active", pc' # "write fault"
  PROVE  GameInv'
BY DEF GameInv, GameCells, Expected, CallCells, RestAt, Hook

LEMMA RecordKept ==
  ASSUME RecordInv, UNCHANGED <<platform, memory, image, record>>,
         pc' \in Stages \ {"modules"} => pc \in Stages \ {"modules"}
  PROVE  RecordInv'
BY DEF RecordInv

LEMMA PatchKept ==
  ASSUME PatchInv, UNCHANGED <<platform, program, patchAddr, saved>>,
         pc' # "patch", pc' = "active" => pc = "active"
  PROVE  PatchInv'
BY DEF PatchInv

LEMMA SearchKept ==
  ASSUME pc' \notin {"patch", "no signature", "search fault"}
  PROVE  SearchIsExact' /\ SearchStaysMapped'
BY DEF SearchIsExact, SearchStaysMapped

LEMMA IdleCpu == ASSUME ip' = NullAddr PROVE CpuInv'
BY DEF CpuInv

(* A step of the host or of the load that only moves on. *)
LEMMA MovesOn ==
  ASSUME CodeInv, UNCHANGED <<world, machine, statics, ip>>,
         ip = NullAddr, pc # "active",
         pc' \in {"modules", "failed", "out", "unloaded"}
  PROVE  GameInv' /\ RecordInv' /\ PatchInv' /\ CpuInv' /\ SearchIsExact'
         /\ SearchStaysMapped'
BY GameKept, RecordKept, PatchKept, IdleCpu, SearchKept
   DEF CodeInv, world, machine, statics, Stages

-------------------------------------------------------------------------------
(* The steps of the host and of a load. *)
LEMMA HostLoadsKeepsInv == CodeInv /\ HostLoads => CodeInv'
<1> SUFFICES ASSUME CodeInv, HostLoads
             PROVE  CodeInv'
  OBVIOUS
<1>1. CodeTypeOK'
  BY DEF CodeInv, CodeTypeOK, HostLoads, machine, statics, cpu, Stages
<1>2. GameInv' /\ RecordInv'
  BY GameKept, RecordKept DEF CodeInv, HostLoads, machine, statics, Stages
<1>3. PatchInv' /\ CpuInv' /\ SearchIsExact' /\ SearchStaysMapped'
  BY PatchKept, IdleCpu, SearchKept DEF CodeInv, HostLoads, statics, cpu
<1> QED
  BY <1>1, <1>2, <1>3 DEF CodeInv

LEMMA HostUnmapsKeepsInv == CodeInv /\ HostUnmaps => CodeInv'
<1> SUFFICES ASSUME CodeInv, HostUnmaps
             PROVE  CodeInv'
  OBVIOUS
<1>1. NullAddr \in Addresses /\ NoModule \in [base : Addresses, size : Addresses]
  BY EngineLies DEF NullAddr, NoModule, Addresses
<1>2. CodeTypeOK'
  <2>1. CASE UNCHANGED statics
    BY <2>1 DEF CodeInv, CodeTypeOK, HostUnmaps, machine, statics, cpu, world
  <2>2. CASE ~UNCHANGED statics
    <3>1. record' \in [{"engine", "vphysics"} -> [base : Addresses, size : Addresses]]
      BY <1>1, <2>2 DEF HostUnmaps
    <3>2. found' \in [{"spawn", "physics"} -> Addresses]
      BY <1>1, <2>2 DEF HostUnmaps
    <3>3. saved' \in [1 .. 3 -> Addresses]
      BY <1>1, <2>2 DEF HostUnmaps, NothingSaved, NullAddr
    <3> QED
      BY <1>1, <2>2, <3>1, <3>2, <3>3
      DEF CodeInv, CodeTypeOK, HostUnmaps, machine, cpu, world
  <2> QED
    BY <2>1, <2>2
<1>3. ip = NullAddr /\ ip' = NullAddr /\ pc # "active" /\ pc' = "out"
  BY DEF HostUnmaps, Failed, CodeInv, CpuInv, cpu
<1>4. GameInv'
  BY <1>3, GameKept DEF CodeInv, HostUnmaps, machine, world
<1>5. RecordInv'
  BY <1>3 DEF CodeInv, HostUnmaps, machine, world, statics, RecordInv, Stages
<1>6. PatchInv'
  BY <1>3 DEF CodeInv, HostUnmaps, world, statics, PatchInv
<1> QED
  BY <1>2, <1>3, <1>4, <1>5, <1>6, IdleCpu, SearchKept DEF CodeInv

(* What Module_t::Init records of vphysics is at least as long as the image. *)
LEMMA VphysicsRecorded ==
  ASSUME RecordInv, NEW i \in Physics
  PROVE  \E k \in Physics :
           /\ ModuleInit(record.vphysics, i.base, i.size) = [base |-> i.base, size |-> k.size]
           /\ k.size >= i.size
           /\ platform = "windows" => k.size = i.size
<1> DEFINE mapped == ModuleInit(record.vphysics, i.base, i.size)
<1>1. i.size \in Nat /\ i.size > 0
  BY ImagesLie
<1>2. CASE platform = "windows" \/ record.vphysics = NoModule
  <2>1. mapped = [base |-> i.base, size |-> i.size]
    BY <1>1, <1>2 DEF ModuleInit, SizeAsTold, SizeRaised, NoModule
  <2> QED
    BY <1>1, <2>1
<1>3. CASE platform # "windows" /\ record.vphysics # NoModule
  <2>1. PICK h \in Physics, j \in Physics : record.vphysics = [base |-> h.base, size |-> j.size]
    BY <1>3 DEF RecordInv
  <2>2. j.size \in Nat /\ record.vphysics.size = j.size
    BY <2>1, ImagesLie
  <2>3. CASE i.size > j.size
    <3>1. mapped = [base |-> i.base, size |-> i.size]
      BY <1>3, <2>2, <2>3 DEF ModuleInit, SizeRaised
    <3> QED
      BY <1>1, <1>3, <3>1
  <2>4. CASE ~(i.size > j.size)
    <3>1. mapped = [base |-> i.base, size |-> j.size]
      BY <1>3, <2>2, <2>4 DEF ModuleInit, SizeRaised
    <3>2. j.size >= i.size
      BY <1>1, <2>2, <2>4
    <3> QED
      BY <1>3, <3>1, <3>2
  <2> QED
    BY <2>3, <2>4
<1> QED
  BY <1>2, <1>3

LEMMA InitModulesKeepsInv == CodeInv /\ InitModules => CodeInv'
<1> SUFFICES ASSUME CodeInv, InitModules
             PROVE  CodeInv'
  OBVIOUS
<1> DEFINE engine == ModuleInit(record.engine, Engine.base, EngineSize)
           mapped == ModuleInit(record.vphysics, image.base, image.size)
<1>1. /\ pc = "modules" /\ ip = NullAddr
      /\ pc' \in {"admin", "failed"}
      /\ pc' = "admin" => image = program.havok
      /\ UNCHANGED <<world, machine, found, admin, patchAddr, saved, cpu>>
  BY DEF InitModules, CodeInv, CpuInv
<1>2. /\ image \in Physics /\ record.engine \in {NoModule, [base |-> Engine.base, size |-> EngineSize]}
      /\ \/ record.vphysics = NoModule
         \/ \E i, j \in Physics : record.vphysics = [base |-> i.base, size |-> j.size]
      /\ platform \in Platforms /\ program \in Programs
  BY DEF CodeInv, CodeTypeOK, RecordInv
<1>3. Engine.base \in Addresses /\ EngineSize \in Addresses /\ EngineSize > 0
  BY <1>2, RestLies, EngineLies DEF Addresses
<1>4. engine = [base |-> Engine.base, size |-> EngineSize]
  BY <1>2, <1>3 DEF ModuleInit, SizeAsTold, SizeRaised, NoModule, Addresses
<1>5. \E k \in Physics :
        /\ mapped = [base |-> image.base, size |-> k.size]
        /\ k.size >= image.size
        /\ platform = "windows" => k.size = image.size
  BY <1>2, VphysicsRecorded DEF CodeInv
<1>6. \A i, j \in Physics : [base |-> i.base, size |-> j.size] \in [base : Addresses, size : Addresses]
  BY ImagesLie, EngineLies DEF Addresses
<1> HIDE DEF engine, mapped
<1>7. record' = [engine |-> engine, vphysics |-> IF image = program.havok THEN mapped ELSE record.vphysics]
  BY DEF InitModules, engine, mapped
<1>8. record' \in [{"engine", "vphysics"} -> [base : Addresses, size : Addresses]]
  BY <1>3, <1>4, <1>5, <1>6, <1>7 DEF CodeInv, CodeTypeOK
<1>9. CodeTypeOK'
  BY <1>1, <1>8 DEF CodeInv, CodeTypeOK, machine, cpu, world, Stages, Failed
<1>10. GameInv'
  BY <1>1, GameKept DEF CodeInv, machine, world
<1>11. RecordInv'
  <2>1. /\ record'.engine = [base |-> Engine.base, size |-> EngineSize]
        /\ record'.engine # NoModule
    BY <1>3, <1>4, <1>7 DEF NoModule
  <2>2. /\ \/ record'.vphysics = NoModule
           \/ \E i, j \in Physics : record'.vphysics = [base |-> i.base, size |-> j.size]
        /\ pc' # "failed" => record'.vphysics = mapped
    BY <1>1, <1>2, <1>5, <1>7
  <2> QED
    BY <1>1, <1>5, <2>1, <2>2 DEF CodeInv, RecordInv, machine, world, Stages
<1>12. PatchInv'
  BY <1>1, PatchKept DEF CodeInv, world
<1>13. CpuInv' /\ SearchIsExact' /\ SearchStaysMapped'
  BY <1>1, IdleCpu, SearchKept DEF cpu
<1> QED
  BY <1>9, <1>10, <1>11, <1>12, <1>13 DEF CodeInv

LEMMA FindAdminKeepsInv == CodeInv /\ FindAdminCommandIssueFunc => CodeInv'
<1> SUFFICES ASSUME CodeInv, FindAdminCommandIssueFunc
             PROVE  CodeInv'
  OBVIOUS
<1>1. /\ pc = "admin" /\ ip = NullAddr /\ pc' \in {"failed", "signatures"}
      /\ UNCHANGED <<world, machine, record, found, patchAddr, saved, cpu>>
  BY DEF FindAdminCommandIssueFunc, CodeInv, CpuInv
<1>2. platform \in Platforms /\ program \in Programs
  BY DEF CodeInv, CodeTypeOK
<1>3. admin' \in Addresses
  <2>1. CASE CallsFrom(CommandAt) = {}
    BY <2>1 DEF FindAdminCommandIssueFunc, CodeInv, CodeTypeOK
  <2>2. CASE CallsFrom(CommandAt) # {}
    <3> DEFINE i == Min(CallsFrom(CommandAt))
    <3>1. CallsFrom(CommandAt) \subseteq 0 .. AdminScan - 1
      BY DEF CallsFrom
    <3>2. i \in 0 .. AdminScan - 1
      BY <2>2, <3>1, MinIsLeast, EngineLies
    <3> HIDE DEF i
    <3>3. CommandAt + i + 1 \in CommandAt .. CommandAt + AdminScan
      BY <3>2, EngineLies
    <3>4. Binary(platform, program)[CommandAt + i + 1] \in Addresses
      BY <1>2, <3>3, BinaryCells
    <3>5. CommandAt + i + 1 \in GameCells
      BY <1>2, <3>2, EngineLies, RestLies DEF GameCells
    <3>6. memory[CommandAt + i + 1] \in Int
      BY <1>1, <3>4, <3>5 DEF CodeInv, GameInv, Expected, Addresses
    <3>7. Callee(CommandAt + i) \in Addresses
      BY <3>2, <3>6, WrapIsAddress, EngineLies DEF Callee, JumpSize
    <3> QED
      BY <2>2, <3>7 DEF FindAdminCommandIssueFunc, i
  <2> QED
    BY <2>1, <2>2
<1>4. CodeTypeOK'
  BY <1>1, <1>3 DEF CodeInv, CodeTypeOK, machine, cpu, world, Stages, Failed
<1>5. GameInv' /\ RecordInv'
  BY <1>1, GameKept, RecordKept DEF CodeInv, machine, world, Stages
<1>6. PatchInv' /\ CpuInv' /\ SearchIsExact' /\ SearchStaysMapped'
  BY <1>1, PatchKept, IdleCpu, SearchKept DEF CodeInv, world, cpu
<1> QED
  BY <1>4, <1>5, <1>6 DEF CodeInv

-------------------------------------------------------------------------------
(* The search.  In a module that ends before the last address, a signature of at
   least one cell is looked for at every place but the last, so what is found is
   the first occurrence and what is missed can only be at that place. *)
LEMMA SearchedPlaces ==
  ASSUME NEW base \in Nat \ {0}, NEW size \in Nat, base + size <= Space,
         NEW sig \in Seq(Addresses \cup {Wildcard}), Len(sig) > 0, Len(sig) <= size
  PROVE  LET m == [base |-> base, size |-> size] IN
         /\ Positions(m, sig) = base .. base + size - Len(sig) - 1
         /\ \A i \in Positions(m, sig), j \in DOMAIN sig :
              i + j - 1 \in base .. base + size - 1 /\ Wrap(i + j - 1) = i + j - 1
         /\ Matches(m, sig) =
              {i \in Positions(m, sig) :
                 \A j \in DOMAIN sig : sig[j] = Wildcard \/ sig[j] = memory[i + j - 1]}
<1> DEFINE m == [base |-> base, size |-> size]
           n == Len(sig)
<1>1. n \in Nat /\ DOMAIN sig = 1 .. n /\ Space \in Nat
  BY EngineLies
<1>2. m.base = base /\ m.size = size
  OBVIOUS
<1> HIDE DEF m, n
<1>3. base + size - n \in Addresses
  BY <1>1 DEF n, Addresses
<1>4. Positions(m, sig) = base .. base + size - n - 1
  BY <1>2, <1>3, WrapInside DEF Positions, ScanEnd, n
<1>5. ASSUME NEW i \in Positions(m, sig), NEW j \in DOMAIN sig
      PROVE  i + j - 1 \in base .. base + size - 1 /\ Wrap(i + j - 1) = i + j - 1
  <2>1. i + j - 1 \in base .. base + size - 1
    BY <1>1, <1>4
  <2>2. i + j - 1 \in Addresses
    BY <1>1, <2>1 DEF Addresses
  <2> QED
    BY <2>1, <2>2, WrapInside
<1>6. Matches(m, sig) =
        {i \in Positions(m, sig) :
           \A j \in DOMAIN sig : sig[j] = Wildcard \/ sig[j] = memory[i + j - 1]}
  BY <1>5 DEF Matches, MatchesAt, SameByte
<1> QED
  BY <1>4, <1>5, <1>6 DEF m, n

LEMMA SearchFindsFirst ==
  ASSUME NEW base \in Nat \ {0}, NEW size \in Nat, base + size <= Space,
         NEW sig \in Seq(Addresses \cup {Wildcard}), Len(sig) > 0, Len(sig) <= size
  PROVE  LET m == [base |-> base, size |-> size] IN
         /\ FindSignature(m, sig) \in Addresses
         /\ FirstOrMissed(m, sig, FindSignature(m, sig))
<1> DEFINE m     == [base |-> base, size |-> size]
           n     == Len(sig)
           all   == Occurrences(base, size, sig)
           match == Matches(m, sig)
           last  == base + size - n
<1>1. n \in Nat /\ DOMAIN sig = 1 .. n /\ Space \in Nat
  BY EngineLies
<1>2. m.base = base /\ m.size = size
  OBVIOUS
<1>3. match = {i \in base .. last - 1 :
                 \A j \in DOMAIN sig : sig[j] = Wildcard \/ sig[j] = memory[i + j - 1]}
  BY SearchedPlaces
<1>4. all = {i \in base .. last :
               \A j \in DOMAIN sig : sig[j] = Wildcard \/ sig[j] = memory[i + j - 1]}
  BY DEF Occurrences
<1>5. last \in Nat /\ base <= last /\ last < Space
  BY <1>1
<1> HIDE DEF m, n, all, match, last
<1>6. match \subseteq all /\ all \subseteq match \cup {last} /\ match \subseteq base .. last - 1
  BY <1>3, <1>4, <1>5
<1>7. CASE match = {}
  <2>1. FindSignature(m, sig) = NullAddr
    BY <1>7 DEF FindSignature, match
  <2>2. all \subseteq {last}
    BY <1>6, <1>7
  <2> QED
    BY <1>1, <1>2, <1>5, <2>1, <2>2 DEF FirstOrMissed, all, last, n, m, NullAddr, Addresses
<1>8. CASE match # {}
  <2>1. /\ FindSignature(m, sig) \in match
        /\ \A y \in match : FindSignature(m, sig) <= y
    <3>1. match \in SUBSET Nat
      BY <1>6
    <3> QED
      BY <1>8, <3>1, MinIsLeast DEF FindSignature, match
  <2>2. FindSignature(m, sig) \in base .. last - 1
    BY <1>6, <2>1
  <2>3. FindSignature(m, sig) # NullAddr /\ FindSignature(m, sig) \in Addresses
    BY <1>1, <1>5, <2>2 DEF NullAddr, Addresses
  <2>4. \A y \in all : FindSignature(m, sig) <= y
    BY <1>5, <1>6, <2>1, <2>2
  <2>5. FindSignature(m, sig) \in all
    BY <1>6, <2>1
  <2> QED
    BY <1>2, <2>3, <2>4, <2>5 DEF FirstOrMissed, all, m
<1> QED
  BY <1>7, <1>8 DEF m

(* A search in a module that is mapped reads nothing else. *)
LEMMA SearchReadsModule ==
  ASSUME NEW base \in Nat \ {0}, NEW size \in Nat, base + size <= Space,
         NEW sig \in Seq(Addresses \cup {Wildcard}), Len(sig) > 0, Len(sig) <= size,
         \A a \in base .. base + size - 1 : memory[a] # Unmapped
  PROVE  ~SearchFaults([base |-> base, size |-> size], sig)
BY SearchedPlaces DEF SearchFaults

(* What is searched in a load that has found the modules. *)
LEMMA SearchedModules ==
  ASSUME CodeTypeOK, RecordInv, pc = "signatures"
  PROVE  /\ record.engine = [base |-> Engine.base, size |-> EngineSize]
         /\ Engine.base \in Nat \ {0} /\ EngineSize \in Nat
         /\ Engine.base + EngineSize <= Space /\ 3 <= EngineSize
         /\ \E size \in Nat : /\ record.vphysics = [base |-> image.base, size |-> size]
                              /\ image.base + size <= Space
                              /\ image.size <= size
                              /\ platform = "windows" => size = image.size
         /\ image \in Physics
         /\ image.base \in Nat \ {0} /\ image.size \in Nat /\ 2 <= image.size
<1>1. /\ image \in Physics /\ platform \in Platforms /\ program \in Programs
      /\ record.engine = [base |-> Engine.base, size |-> EngineSize]
      /\ record.vphysics.base = image.base /\ record.vphysics.size >= image.size
      /\ platform = "windows" => record.vphysics.size = image.size
      /\ \/ record.vphysics = NoModule
         \/ \E i, j \in Physics : record.vphysics = [base |-> i.base, size |-> j.size]
  BY DEF CodeTypeOK, RecordInv, Stages
<1>2. image.base \in Nat \ {0} /\ image.size \in Nat /\ 2 <= image.size
  BY <1>1, ImagesLie
<1>3. record.vphysics # NoModule
  BY <1>1, <1>2 DEF NoModule, NullAddr
<1>4. PICK i \in Physics, j \in Physics : record.vphysics = [base |-> i.base, size |-> j.size]
  BY <1>1, <1>3
<1>5. j.size \in Nat /\ i.base + j.size <= Space /\ i.base = image.base
      /\ record.vphysics.size = j.size
  BY <1>1, <1>4, ImagesLie
<1>6. 3 <= EngineSize
  BY <1>1, RestLies, EngineLies
<1> QED
  BY <1>1, <1>2, <1>4, <1>5, <1>6, EngineLies

(* SpawnServer's signature is found at SpawnServer, which its build and game data
   file promise and no other cell of the engine can spoil. *)
LEMMA FindsSpawnServer ==
  ASSUME CodeTypeOK, GameInv, RecordInv, pc = "signatures"
  PROVE  /\ ~SearchFaults(record.engine, SpawnSig)
         /\ FindSignature(record.engine, SpawnSig) = SpawnServerAt(program)
         /\ FirstOrMissed(record.engine, SpawnSig, FindSignature(record.engine, SpawnSig))
<1> DEFINE base   == Engine.base
           server == SpawnServerAt(program)
           all    == Occurrences(base, EngineSize, SpawnSig)
           answer == FindSignature(record.engine, SpawnSig)
<1>1. platform \in Platforms /\ program \in Programs
  BY DEF CodeTypeOK
<1>2. /\ record.engine = [base |-> base, size |-> EngineSize]
      /\ base \in Nat \ {0} /\ EngineSize \in Nat
      /\ base + EngineSize <= Space /\ 3 <= EngineSize
  BY SearchedModules
<1>3. /\ Ops["prologue"] \in Addresses /\ Ops["body"] \in Addresses
      /\ Wildcard \notin Addresses
  BY OpsAreAddresses, LayoutAssumption DEF OpNames
<1>4. /\ SpawnSig \in Seq(Addresses \cup {Wildcard}) /\ Len(SpawnSig) = 3
      /\ DOMAIN SpawnSig = 1 .. 3
      /\ SpawnSig[1] = Ops["prologue"] /\ SpawnSig[2] = Wildcard
      /\ SpawnSig[3] = Ops["body"]
  BY <1>3 DEF SpawnSig
<1>5. \A a \in base .. base + EngineSize - 1 :
        memory[a] = Binary(platform, program)[a] /\ memory[a] \in Addresses
  <2>1. \A a \in base .. base + EngineSize - 1 : a \in GameCells
    BY <1>2, EngineLies DEF GameCells
  <2> QED
    BY <1>1, <2>1, BinaryCells DEF GameInv, Expected
<1>6. server \in Nat /\ base <= server /\ server + 6 < base + EngineSize
  BY <1>1, <1>2, CallLies, EngineLies
<1>7. ~SearchFaults(record.engine, SpawnSig)
  <2>1. \A a \in base .. base + EngineSize - 1 : memory[a] # Unmapped
    BY <1>5, CodeAssumption
  <2>2. Len(SpawnSig) > 0 /\ Len(SpawnSig) <= EngineSize
    BY <1>2, <1>4
  <2>3. ~SearchFaults([base |-> base, size |-> EngineSize], SpawnSig)
    BY <1>2, <1>4, <2>1, <2>2, SearchReadsModule
  <2> QED
    BY <1>2, <2>3
<1>8. answer \in Addresses /\ FirstOrMissed(record.engine, SpawnSig, answer)
  <2>1. Len(SpawnSig) > 0 /\ Len(SpawnSig) <= EngineSize
    BY <1>2, <1>4
  <2> DEFINE m == [base |-> base, size |-> EngineSize]
  <2>2. FindSignature(m, SpawnSig) \in Addresses /\ FirstOrMissed(m, SpawnSig, FindSignature(m, SpawnSig))
    BY <1>2, <1>4, <2>1, SearchFindsFirst
  <2> QED
    BY <1>2, <2>2
<1>9. memory[server] = Ops["prologue"] /\ memory[server + 2] = Ops["body"]
  <2>1. /\ server \in base .. base + EngineSize - 1
        /\ server + 2 \in base .. base + EngineSize - 1
    BY <1>2, <1>6
  <2> QED
    BY <1>1, <1>5, <2>1, SpawnServerCells
<1>10. ASSUME NEW a \in base .. server - 1
       PROVE  ~(memory[a] = Ops["prologue"] /\ memory[a + 2] = Ops["body"])
  <2>1. /\ a \in base .. base + EngineSize - 1
        /\ a + 2 \in base .. base + EngineSize - 1
    BY <1>2, <1>6
  <2> QED
    BY <1>1, <1>5, <2>1, BuildAssumption
<1> HIDE DEF base, server, answer
<1>11. all = {a \in base .. base + EngineSize - 3 :
                memory[a] = Ops["prologue"] /\ memory[a + 2] = Ops["body"]}
  <2>1. ASSUME NEW a \in base .. base + EngineSize - 3
        PROVE  (\A j \in DOMAIN SpawnSig : SpawnSig[j] \in {Wildcard, memory[a + j - 1]})
                 <=> memory[a] = Ops["prologue"] /\ memory[a + 2] = Ops["body"]
    <3>1. a + 1 - 1 = a /\ a + 3 - 1 = a + 2
      BY <1>2
    <3>2. \A j \in 1 .. 3 : j = 1 \/ j = 2 \/ j = 3
      OBVIOUS
    <3>3. Ops["prologue"] # Wildcard /\ Ops["body"] # Wildcard
      BY <1>3
    <3> QED
      BY <1>4, <3>1, <3>2, <3>3
  <2> QED
    BY <1>4, <2>1 DEF Occurrences
<1>12. server \in all /\ server # base + EngineSize - 3
  BY <1>2, <1>6, <1>9, <1>11
<1>13. answer \in all /\ answer <= server
  BY <1>2, <1>4, <1>8, <1>12 DEF FirstOrMissed
<1>14. answer = server
  BY <1>2, <1>6, <1>10, <1>11, <1>13
<1> QED
  BY <1>7, <1>8, <1>14 DEF answer, server

(* The physics engine's is exact too, and reads beyond the image only where the
   recorded size does. *)
LEMMA FindsPhysics ==
  ASSUME CodeTypeOK, RecordInv, pc = "signatures"
  PROVE  /\ SearchFaults(record.vphysics, sought) =>
              platform = "linux" /\ record.vphysics.size > image.size
         /\ FindSignature(record.vphysics, sought) \in Addresses
         /\ FirstOrMissed(record.vphysics, sought, FindSignature(record.vphysics, sought))
<1>1. image \in Physics /\ image.base \in Nat \ {0} /\ image.size \in Nat /\ 2 <= image.size
  BY SearchedModules
<1>2. PICK size \in Nat : /\ record.vphysics = [base |-> image.base, size |-> size]
                          /\ image.base + size <= Space
                          /\ image.size <= size
                          /\ platform = "windows" => size = image.size
  BY SearchedModules
<1>3. Ops["mark"] \in Addresses /\ Ops["body"] \in Addresses
  BY OpsAreAddresses DEF OpNames
<1>4. sought \in Seq(Addresses \cup {Wildcard}) /\ Len(sought) = 2
  <2>1. sought \in PhysicsSigs
    BY DEF CodeTypeOK
  <2>2. CASE sought = <<Ops["mark"], Ops["body"]>>
    BY <1>3, <2>2
  <2>3. CASE sought = <<Ops["body"], Ops["mark"]>>
    BY <1>3, <2>3
  <2> QED
    BY <2>1, <2>2, <2>3 DEF PhysicsSigs
<1>5. Len(sought) > 0 /\ Len(sought) <= size /\ image.base + size <= Space
  BY <1>1, <1>2, <1>4
<1> DEFINE m == [base |-> image.base, size |-> size]
<1>6. FindSignature(m, sought) \in Addresses /\ FirstOrMissed(m, sought, FindSignature(m, sought))
  BY <1>1, <1>4, <1>5, SearchFindsFirst
<1>7. size = image.size => ~SearchFaults(m, sought)
  <2>1. SUFFICES ASSUME size = image.size
                 PROVE  ~SearchFaults(m, sought)
    OBVIOUS
  <2>2. \A a \in image.base .. image.base + size - 1 : memory[a] # Unmapped
    BY <2>1, PhysicsCellIsAddress, CodeAssumption DEF RecordInv
  <2> QED
    BY <1>1, <1>4, <1>5, <2>2, SearchReadsModule
<1>8. size # image.size => platform = "linux" /\ size > image.size
  BY <1>1, <1>2 DEF CodeTypeOK, Platforms
<1> QED
  BY <1>2, <1>6, <1>7, <1>8

LEMMA FindSignaturesKeepsInv == CodeInv /\ FindSignatures => CodeInv'
<1> SUFFICES ASSUME CodeInv, FindSignatures
             PROVE  CodeInv'
  OBVIOUS
<1> DEFINE spawn   == FindSignature(record.engine, SpawnSig)
           physics == FindSignature(record.vphysics, sought)
<1>1. /\ pc = "signatures" /\ ip = NullAddr
      /\ UNCHANGED <<world, machine, record, admin, patchAddr, saved, cpu>>
  BY DEF FindSignatures, CodeInv, CpuInv
<1>2. /\ ~SearchFaults(record.engine, SpawnSig)
      /\ spawn = SpawnServerAt(program)
      /\ FirstOrMissed(record.engine, SpawnSig, spawn)
  BY <1>1, FindsSpawnServer DEF CodeInv
<1>3. /\ SearchFaults(record.vphysics, sought) =>
           platform = "linux" /\ record.vphysics.size > image.size
      /\ physics \in Addresses
      /\ FirstOrMissed(record.vphysics, sought, physics)
  BY <1>1, FindsPhysics DEF CodeInv
<1>4. spawn \in Addresses /\ spawn # NullAddr
  <2>1. /\ SpawnServerAt(program) \in Nat /\ Engine.base <= SpawnServerAt(program)
        /\ SpawnServerAt(program) + 4 <= CallAt(platform, program)
    BY CallLies DEF CodeInv, CodeTypeOK
  <2>2. CallAt(platform, program) \in Nat /\ CallAt(platform, program) < RestAt
        /\ RestAt \in Nat /\ RestAt < Space
    BY RestLies DEF CodeInv, CodeTypeOK
  <2> QED
    BY <1>2, <2>1, <2>2, EngineLies DEF Addresses, NullAddr
<1> HIDE DEF spawn, physics
<1>5. \/ /\ pc' = "search fault" /\ found' = found
         /\ platform = "linux" /\ record.vphysics.size > image.size
      \/ /\ pc' = "no signature" /\ physics = NullAddr
         /\ found' = [spawn |-> spawn, physics |-> found.physics]
      \/ /\ pc' = "patch"
         /\ found' = [spawn |-> spawn, physics |-> physics]
  BY <1>2, <1>3, <1>4 DEF FindSignatures, Kept, spawn, physics
<1>6. found' \in [{"spawn", "physics"} -> Addresses]
  <2>1. found \in [{"spawn", "physics"} -> Addresses]
    BY DEF CodeInv, CodeTypeOK
  <2>2. found.physics \in Addresses
    BY <2>1
  <2>3. \A a, b \in Addresses : [spawn |-> a, physics |-> b] \in [{"spawn", "physics"} -> Addresses]
    OBVIOUS
  <2> QED
    BY <1>3, <1>4, <1>5, <2>1, <2>2, <2>3
<1>7. CodeTypeOK'
  BY <1>1, <1>5, <1>6 DEF CodeInv, CodeTypeOK, machine, cpu, world, Stages, Failed, Faults
<1>8. GameInv' /\ RecordInv'
  BY <1>1, <1>5, GameKept, RecordKept DEF CodeInv, machine, world, Stages
<1>9. PatchInv'
  <2>1. pc' = "patch" => found'.spawn = SpawnServerAt(program)
    BY <1>2, <1>5
  <2>2. pc' # "active"
    BY <1>5
  <2> QED
    BY <1>1, <2>1, <2>2 DEF CodeInv, PatchInv, world
<1>10. SearchIsExact'
  <2>1. pc' = "patch" => found'.spawn = spawn /\ found'.physics = physics
    BY <1>5
  <2>2. pc' = "no signature" => FirstOrMissed(record.vphysics, sought, NullAddr)
    BY <1>3, <1>5
  <2>3. /\ pc' = "patch" => /\ FirstOrMissed(record.engine, SpawnSig, found'.spawn)
                            /\ FirstOrMissed(record.vphysics, sought, found'.physics)
    BY <1>2, <1>3, <2>1
  <2> QED
    BY <1>1, <2>2, <2>3 DEF SearchIsExact, FirstOrMissed, Occurrences, world, machine
<1>11. SearchStaysMapped'
  BY <1>1, <1>5 DEF SearchStaysMapped, world, machine
<1> QED
  BY <1>1, <1>7, <1>8, <1>9, <1>10, <1>11, IdleCpu DEF CodeInv, cpu

-------------------------------------------------------------------------------
(* The patch.  The four bytes are those before the call. *)
LEMMA HookAtCall ==
  ASSUME CodeTypeOK, GameInv, PatchInv, pc = "patch", Hits # {}
  PROVE  HookAt = CallAt(platform, program)
<1> DEFINE server == SpawnServerAt(program)
<1>1. platform \in Platforms /\ program \in Programs /\ found.spawn = server
  BY DEF CodeTypeOK, PatchInv
<1>2. server \in Nat /\ Engine.base <= server /\ EngineSize \in Nat /\ Window \subseteq Nat
      /\ CommandAt \in Nat /\ CommandAt < Engine.base /\ Engine.base \in Nat
      /\ Engine.base + EngineSize <= Space /\ Space \in Nat
  BY <1>1, CallLies, EngineLies, RestLies, CodeAssumption
<1>3. ASSUME NEW i \in Hits
      PROVE  i = program.gap
  <2>1. i \in Window /\ memory[Wrap(server + i)] = Ops["pattern"]
    BY <1>1, <1>3 DEF Hits
  <2>2. /\ server + i < Engine.base + EngineSize
        /\ Binary(platform, program)[server + i] = Ops["pattern"] => i = program.gap
    BY <1>1, <2>1, BuildAssumption
  <2>3. server + i \in GameCells /\ Wrap(server + i) = server + i
    <3>1. i \in Nat
      BY <1>2, <2>1
    <3>2. server + i \in CommandAt .. Engine.base + EngineSize - 1
          /\ server + i \in 0 .. Space - 1
      BY <1>2, <2>2, <3>1
    <3> QED
      BY <3>2, WrapInside DEF GameCells, Addresses
  <2>4. memory[server + i] = Binary(platform, program)[server + i]
    BY <2>3 DEF GameInv, Expected
  <2> QED
    BY <2>1, <2>2, <2>3, <2>4
<1>4. Min(Hits) = program.gap
  <2>1. Hits \in SUBSET Nat
    BY <1>2 DEF Hits
  <2>2. Min(Hits) \in Hits
    BY <2>1, MinIsLeast
  <2> QED
    BY <1>3, <2>2
<1> QED
  BY <1>1, <1>4 DEF HookAt, CallAt, PatternAt

(* After a patch of the call the pages and everything but the call are as they
   were. *)
LEMMA PatchAtCall ==
  ASSUME CodeTypeOK, GameInv, RecordInv,
         NEW cells \in Seq(Addresses), Len(cells) = CallSize(platform), NEW done,
         PatchMemory(CallAt(platform, program), cells, done)
  PROVE  /\ memory' \in [Addresses -> Addresses \cup {Unmapped}]
         /\ \A a \in CallCells : memory'[a] = cells[a - CallAt(platform, program) + 1]
         /\ \A a \in GameCells : a \notin CallCells => memory'[a] = Binary(platform, program)[a]
         /\ \A a \in image.base .. image.base + image.size - 1 : memory'[a] = memory[a]
         /\ prot' = LoaderProt /\ pc' = done /\ image' = image
<1> DEFINE at == CallAt(platform, program)
<1>1. platform \in Platforms /\ program \in Programs /\ image \in Physics /\ prot = LoaderProt
  BY DEF CodeTypeOK, GameInv
<1>2. prot' = LoaderProt /\ pc' = done /\ image' = image /\ memory' = Placed(memory, at, cells)
  BY <1>1, CallProtected DEF PatchMemory
<1>3. /\ memory' \in [Addresses -> Addresses \cup {Unmapped}]
      /\ \A a \in CallCells : memory'[a] = cells[a - at + 1]
      /\ \A a \in Addresses : a \notin CallCells => memory'[a] = memory[a]
  BY <1>2, CallPatched
<1>4. ASSUME NEW a \in GameCells, a \notin CallCells
      PROVE  memory'[a] = Binary(platform, program)[a]
  <2>1. a \in Addresses
    BY EngineLies DEF GameCells, Addresses
  <2> QED
    BY <1>3, <1>4, <2>1 DEF GameInv, Expected
<1>5. ASSUME NEW a \in image.base .. image.base + image.size - 1
      PROVE  memory'[a] = memory[a]
  <2>1. /\ image.base \in Nat /\ image.size \in Nat /\ image.base + image.size <= Space
        /\ Engine.base + EngineSize <= image.base
    BY <1>1, ImagesLie
  <2>2. a \in Addresses /\ a >= Engine.base + EngineSize
    BY <2>1, EngineLies DEF Addresses
  <2>3. a \notin CallCells
    <3>1. /\ RestAt \in Nat /\ RestAt < Engine.base + EngineSize
          /\ CallAt(platform, program) \in Nat
      BY <1>1, RestLies
    <3>2. a > RestAt
      BY <2>1, <2>2, <3>1, EngineLies
    <3> QED
      BY <3>1, <3>2 DEF CallCells
  <2> QED
    BY <1>3, <2>2, <2>3
<1> QED
  BY <1>2, <1>3, <1>4, <1>5

LEMMA PatchSpawnServerKeepsInv == CodeInv /\ PatchSpawnServer => CodeInv'
<1> SUFFICES ASSUME CodeInv, PatchSpawnServer
             PROVE  CodeInv'
  OBVIOUS
<1> DEFINE at == CallAt(platform, program)
<1>1. /\ pc = "patch" /\ ip = NullAddr /\ HookAt = at
      /\ PatchMemory(at, Hook(at), "active")
      /\ saved' = Overwritten(at) /\ patchAddr' = at
      /\ UNCHANGED <<world, record, found, admin, cpu>>
  BY HookAtCall DEF PatchSpawnServer, CodeInv, CpuInv
<1>2. platform \in Platforms /\ program \in Programs
  BY DEF CodeInv, CodeTypeOK
<1>3. /\ at \in Nat \ {0} /\ RestAt = at + CallSize(platform) /\ CallSize(platform) \in 2 .. 3
      /\ CommandAt \in Nat /\ CommandAt < at /\ Engine.base \in Nat /\ Engine.base < at
      /\ EngineSize \in Nat
      /\ RestAt < Engine.base + EngineSize /\ RestAt < Space /\ Space \in Nat
  BY <1>2, RestLies, EngineLies
<1>4. Hook(at) \in Seq(Addresses) /\ Len(Hook(at)) = CallSize(platform)
  BY <1>2, <1>3, HookCells
<1>5. /\ memory' \in [Addresses -> Addresses \cup {Unmapped}]
      /\ \A a \in CallCells : memory'[a] = Hook(at)[a - at + 1]
      /\ \A a \in GameCells : a \notin CallCells => memory'[a] = Binary(platform, program)[a]
      /\ \A a \in image.base .. image.base + image.size - 1 : memory'[a] = memory[a]
      /\ prot' = LoaderProt /\ pc' = "active" /\ image' = image
  BY <1>1, <1>4, PatchAtCall DEF CodeInv
<1>6. ASSUME NEW i \in 1 .. CallSize(platform)
      PROVE  /\ saved'[i] = Binary(platform, program)[at + i - 1]
             /\ saved'[i] \in Addresses
  <2>1. /\ at + i - 1 \in GameCells
        /\ at + i - 1 \in Engine.base .. Engine.base + EngineSize - 1
    BY <1>3 DEF GameCells
  <2>2. memory[at + i - 1] = Binary(platform, program)[at + i - 1]
    BY <1>1, <2>1 DEF CodeInv, GameInv, Expected
  <2>3. i \in 1 .. 3 /\ i <= CallSize(platform)
    BY <1>3
  <2>4. saved'[i] = memory[at + i - 1]
    BY <1>1, <2>3 DEF Overwritten
  <2> QED
    BY <1>2, <2>1, <2>2, <2>4, BinaryCells
<1>7. saved' \in [1 .. 3 -> Addresses]
  <2>1. ASSUME NEW i \in 1 .. 3
        PROVE  saved'[i] \in Addresses
    <3>1. CASE i <= CallSize(platform)
      BY <1>3, <1>6, <3>1
    <3>2. CASE ~(i <= CallSize(platform))
      BY <1>1, <3>2 DEF Overwritten, CodeInv, CodeTypeOK
    <3> QED
      BY <3>1, <3>2
  <2>2. saved' = [i \in 1 .. 3 |-> saved'[i]]
    BY <1>1 DEF Overwritten
  <2> QED
    BY <2>1, <2>2
<1>8. CodeTypeOK'
  <2>1. at \in Addresses
    BY <1>3 DEF Addresses
  <2> QED
    BY <1>1, <1>5, <1>7, <2>1 DEF CodeInv, CodeTypeOK, GameInv, cpu, world
<1>9. GameInv'
  <2>1. CallCells' = CallCells /\ GameCells' = GameCells
    BY <1>1 DEF CallCells, RestAt, GameCells, world
  <2>2. \A a \in GameCells : memory'[a] = Expected(a)'
    BY <1>1, <1>5, <2>1 DEF Expected, Hook, world
  <2> QED
    BY <1>5, <2>1, <2>2 DEF GameInv
<1>10. RecordInv'
  BY <1>1, <1>5 DEF CodeInv, RecordInv, world, Stages
<1>11. PatchInv'
  BY <1>1, <1>3, <1>5, <1>6 DEF PatchInv, world, NullAddr
<1> QED
  BY <1>1, <1>5, <1>8, <1>9, <1>10, <1>11, IdleCpu, SearchKept DEF CodeInv, cpu

(* The unload puts back what the patch has saved, the code of the game. *)
LEMMA UnloadKeepsInv == CodeInv /\ UnloadPhysSwapper => CodeInv'
<1> SUFFICES ASSUME CodeInv, UnloadPhysSwapper
             PROVE  CodeInv'
  OBVIOUS
<1> DEFINE at   == CallAt(platform, program)
           size == CallSize(platform)
<1>1. /\ pc \in {"active"} \cup Failed /\ ip = NullAddr
      /\ UNCHANGED <<world, statics, cpu>>
  BY DEF UnloadPhysSwapper
<1>2. platform \in Platforms /\ program \in Programs
  BY DEF CodeInv, CodeTypeOK
<1>3. CASE patchAddr = NullAddr
  <2>1. pc # "active" /\ pc' = "unloaded" /\ UNCHANGED machine
    BY <1>3 DEF UnloadPhysSwapper, CodeInv, PatchInv
  <2>2. CodeTypeOK'
    BY <1>1, <2>1 DEF CodeInv, CodeTypeOK, machine, statics, cpu, world
  <2> QED
    BY <1>1, <2>1, <2>2, MovesOn DEF CodeInv, cpu
<1>4. CASE patchAddr # NullAddr
  <2>1. /\ patchAddr = at
        /\ \A i \in 1 .. size : saved[i] = Binary(platform, program)[at + i - 1]
    BY <1>4 DEF CodeInv, PatchInv
  <2>2. PatchMemory(at, Restored, "unloaded")
    BY <1>4, <2>1 DEF UnloadPhysSwapper
  <2>3. size \in 2 .. 3
    BY <1>2, RestLies
  <2>4. /\ Restored \in Seq(Addresses) /\ Len(Restored) = size
        /\ \A i \in 1 .. size : Restored[i] = saved[i]
    <3>1. saved \in [1 .. 3 -> Addresses]
      BY DEF CodeInv, CodeTypeOK
    <3> QED
      BY <2>3, <3>1 DEF Restored
  <2>5. /\ memory' \in [Addresses -> Addresses \cup {Unmapped}]
        /\ \A a \in CallCells : memory'[a] = Restored[a - at + 1]
        /\ \A a \in GameCells : a \notin CallCells => memory'[a] = Binary(platform, program)[a]
        /\ \A a \in image.base .. image.base + image.size - 1 : memory'[a] = memory[a]
        /\ prot' = LoaderProt /\ pc' = "unloaded" /\ image' = image
    BY <2>2, <2>4, PatchAtCall DEF CodeInv
  <2>6. ASSUME NEW a \in CallCells
        PROVE  memory'[a] = Binary(platform, program)[a]
    <3>1. at \in Nat /\ CallCells = at .. at + size - 1
      BY <1>2, RestLies DEF CallCells
    <3>2. PICK i \in 1 .. size : a - at + 1 = i /\ at + i - 1 = a
      <4>1. a - at + 1 \in 1 .. size /\ at + (a - at + 1) - 1 = a
        BY <2>3, <3>1
      <4> QED
        BY <4>1
    <3>3. memory'[a] = Restored[i]
      BY <2>5, <3>2
    <3>4. saved[i] = Binary(platform, program)[at + i - 1]
      BY <2>1, <3>2
    <3> QED
      BY <2>4, <3>2, <3>3, <3>4
  <2>7. CodeTypeOK'
    BY <1>1, <2>5 DEF CodeInv, CodeTypeOK, GameInv, cpu, world, statics
  <2>8. GameInv'
    <3>1. GameCells' = GameCells
      BY DEF GameCells
    <3>2. \A a \in GameCells : memory'[a] = Binary(platform, program)[a]
      BY <2>5, <2>6
    <3>3. \A a \in GameCells : memory'[a] = Expected(a)'
      BY <1>1, <2>5, <3>2 DEF Expected, world
    <3> QED
      BY <2>5, <3>1, <3>3 DEF GameInv
  <2>9. RecordInv'
    BY <1>1, <2>5 DEF CodeInv, RecordInv, world, statics, Stages
  <2>10. PatchInv'
    BY <1>1, <2>5, PatchKept DEF CodeInv, world, statics
  <2> QED
    BY <1>1, <2>5, <2>7, <2>8, <2>9, <2>10, IdleCpu, SearchKept DEF CodeInv, cpu
<1> QED
  BY <1>3, <1>4

LEMMA NothingToPatchKeepsInv == CodeInv /\ NothingToPatch => CodeInv'
<1> SUFFICES ASSUME CodeInv, NothingToPatch
             PROVE  CodeInv'
  OBVIOUS
<1>1. ip = NullAddr /\ ip' = NullAddr
  BY DEF NothingToPatch, CodeInv, CpuInv, cpu
<1>2. CodeTypeOK'
  BY DEF CodeInv, CodeTypeOK, NothingToPatch, machine, statics, cpu, world, Failed
<1> QED
  BY <1>1, <1>2, MovesOn DEF CodeInv, NothingToPatch

-------------------------------------------------------------------------------
(* The steps of the processor.  Those that only go on in SpawnServer: *)
LEMMA ProcessorGoesOn ==
  ASSUME CodeInv, UNCHANGED <<world, machine, statics, pc>>,
         pc \in {"out", "active"}, ip' \in Addresses, called' \in Addresses, CpuInv'
  PROVE  CodeInv'
<1>1. CodeTypeOK'
  BY DEF CodeInv, CodeTypeOK, machine, statics, world
<1>2. GameInv' /\ RecordInv' /\ PatchInv' /\ SearchIsExact' /\ SearchStaysMapped'
  BY GameKept, RecordKept, PatchKept, SearchKept
  DEF CodeInv, world, machine, statics, Stages, GameInv
<1> QED
  BY <1>1, <1>2 DEF CodeInv

(* SpawnServer's next instruction. *)
LEMMA NextInstruction ==
  ASSUME CodeInv
  PROVE  /\ CallAt(platform, program) \in Addresses /\ RestAt \in Addresses
         /\ CallAt(platform, program) + JumpSize \in Addresses
         /\ NullAddr \in Addresses
         /\ RestAt = CallAt(platform, program)
                       + (IF platform = "windows" THEN JumpSize + 1 ELSE JumpSize)
<1>1. platform \in Platforms /\ program \in Programs
  BY DEF CodeInv, CodeTypeOK
<1>2. /\ CallAt(platform, program) \in Nat /\ RestAt \in Nat
      /\ RestAt = CallAt(platform, program) + CallSize(platform)
      /\ CallSize(platform) \in 2 .. 3 /\ RestAt < Space /\ Space \in Nat
  BY <1>1, RestLies, EngineLies
<1> QED
  BY <1>2 DEF CallSize, JumpSize, Addresses, NullAddr

LEMMA SpawnServerKeepsInv == CodeInv /\ SpawnServer => CodeInv'
<1> SUFFICES ASSUME CodeInv, SpawnServer
             PROVE  CodeInv'
  OBVIOUS
<1>1. CpuInv'
  BY DEF SpawnServer, CpuInv, world
<1> QED
  BY <1>1, NextInstruction, ProcessorGoesOn DEF SpawnServer

LEMMA CallLogKeepsInv == CodeInv /\ CallLog => CodeInv'
<1> SUFFICES ASSUME CodeInv, CallLog
             PROVE  CodeInv'
  OBVIOUS
<1>1. ip # NullAddr /\ pc \in {"out", "active"}
  BY DEF CallLog, Fetched, CodeInv, CpuInv
<1>2. /\ Ops["indirect"] # Ops["call"] /\ Ops["indirect"] # Ops["nop"]
      /\ Ops["indirect"] # Ops["rest"] /\ Ops["call"] # Ops["nop"]
      /\ Ops["call"] # Ops["rest"] /\ Wrapper # Log
  BY OpsAreAddresses, LayoutAssumption DEF OpNames
<1>3. /\ ip = CallAt(platform, program) /\ pc = "out"
      /\ \/ platform = "windows" /\ memory[ip] = Ops["indirect"]
         \/ platform = "linux" /\ memory[ip] = Ops["call"]
  BY <1>1, <1>2, AtInstruction DEF CallLog, Fetched, CodeInv
<1>4. ip' = RestAt
  <2>1. CallAt(platform, program) \in Nat
    BY RestLies DEF CodeInv, CodeTypeOK
  <2>2. /\ platform = "windows" => ip' = ip + JumpSize + 1
        /\ platform = "linux" => ip' = ip + JumpSize
    BY <1>2, <1>3 DEF CallLog, Fetched
  <2> QED
    BY <1>3, <2>1, <2>2, NextInstruction DEF JumpSize
<1>5. called' = Log /\ Log \in Addresses
  BY LayoutAssumption DEF CallLog
<1>6. RestAt' = RestAt
  BY DEF CallLog, RestAt, world
<1>7. CpuInv'
  BY <1>3, <1>4, <1>5, <1>6 DEF CallLog, CpuInv
<1> QED
  BY <1>1, <1>4, <1>5, <1>7, NextInstruction, ProcessorGoesOn DEF CallLog

LEMMA PassNopKeepsInv == CodeInv /\ PassNop => CodeInv'
<1> SUFFICES ASSUME CodeInv, PassNop
             PROVE  CodeInv'
  OBVIOUS
<1>1. ip # NullAddr /\ pc \in {"out", "active"}
  BY DEF PassNop, Fetched, CodeInv, CpuInv
<1>2. /\ Ops["nop"] # Ops["call"] /\ Ops["nop"] # Ops["indirect"]
      /\ Ops["nop"] # Ops["rest"]
  BY OpsAreAddresses DEF OpNames
<1>3. /\ ip = CallAt(platform, program) + JumpSize /\ platform = "windows"
      /\ pc = "active" /\ called = Wrapper
  BY <1>1, <1>2, AtInstruction DEF PassNop, Fetched, CodeInv
<1>4. CallAt(platform, program) \in Nat
  BY RestLies DEF CodeInv, CodeTypeOK
<1>5. ip' = RestAt
  BY <1>3, <1>4, NextInstruction DEF PassNop, JumpSize
<1>6. called' \in Addresses
  BY DEF PassNop, CodeInv, CodeTypeOK
<1>7. RestAt' = RestAt
  BY DEF PassNop, RestAt, world
<1>8. CpuInv'
  BY <1>3, <1>5, <1>7 DEF PassNop, CpuInv
<1> QED
  BY <1>1, <1>5, <1>6, <1>8, NextInstruction, ProcessorGoesOn DEF PassNop

LEMMA GoOnKeepsInv == CodeInv /\ GoOn => CodeInv'
<1> SUFFICES ASSUME CodeInv, GoOn
             PROVE  CodeInv'
  OBVIOUS
<1>1. pc \in {"out", "active"} /\ called' \in Addresses
  BY DEF GoOn, Fetched, CodeInv, CpuInv, CodeTypeOK
<1> QED
  BY <1>1, NextInstruction, ProcessorGoesOn, IdleCpu DEF GoOn

(* The plugin's function may map another engine, which leaves the game's code. *)
LEMMA CallWrapperKeepsInv == CodeInv /\ CallWrapper => CodeInv'
<1> SUFFICES ASSUME CodeInv, CallWrapper
             PROVE  CodeInv'
  OBVIOUS
<1> DEFINE call == CallAt(platform, program)
<1>1. /\ ip # NullAddr /\ pc = "active" /\ pc' = "active"
      /\ image \in Physics /\ image' \in Physics
      /\ memory \in [Addresses -> Addresses \cup {Unmapped}]
      /\ platform \in Platforms /\ program \in Programs
  BY DEF CallWrapper, Fetched, CodeInv, CodeTypeOK
<1>2. /\ Ops["call"] # Ops["nop"] /\ Ops["call"] # Ops["rest"]
  BY OpsAreAddresses DEF OpNames
<1>3. ip = call
  BY <1>1, <1>2, AtInstruction DEF CallWrapper, Fetched, CodeInv
<1>4. /\ memory' = MapPhysics(memory, image, image')
      /\ memory' \in [Addresses -> Addresses \cup {Unmapped}]
      /\ \A a \in image'.base .. image'.base + image'.size - 1 :
           memory'[a] = PhysicsCell(image', a - image'.base)
      /\ \A a \in 0 .. Engine.base + EngineSize - 1 : memory'[a] = memory[a]
  <2>1. memory' = MapPhysics(memory, image, image')
    BY DEF CallWrapper
  <2> QED
    BY <1>1, <2>1, MapPhysicsCells
<1>5. PICK k \in Physics :
        ModuleInit(record.vphysics, image'.base, image'.size) = [base |-> image'.base, size |-> k.size]
  BY <1>1, VphysicsRecorded DEF CodeInv
<1>6. record \in [{"engine", "vphysics"} -> [base : Addresses, size : Addresses]]
  BY DEF CodeInv, CodeTypeOK
<1>7. /\ record'.engine = record.engine
      /\ record'.vphysics = [base |-> image'.base, size |-> k.size]
  BY <1>5, <1>6 DEF CallWrapper
<1>8. [base |-> image'.base, size |-> k.size] \in [base : Addresses, size : Addresses]
  <2>1. /\ image'.base \in Nat \ {0} /\ k.size \in Nat \ {0, 1}
        /\ image'.base + k.size <= Space
    BY <1>1, <1>5, ImagesLie
  <2>2. Space \in Nat
    BY EngineLies
  <2> QED
    BY <2>1, <2>2 DEF Addresses
<1>9. record' \in [{"engine", "vphysics"} -> [base : Addresses, size : Addresses]]
  <2>1. record' = [record EXCEPT !.vphysics = [base |-> image'.base, size |-> k.size]]
    BY <1>5 DEF CallWrapper
  <2> QED
    BY <1>6, <1>8, <2>1
<1>10. /\ ip' = call + JumpSize /\ ip' \in Addresses
       /\ called' = Wrapper /\ called' \in Addresses
  BY <1>3, NextInstruction, LayoutAssumption DEF CallWrapper
<1>11. CodeTypeOK'
  BY <1>1, <1>4, <1>9, <1>10 DEF CallWrapper, CodeInv, CodeTypeOK, world
<1>12. GameInv'
  <2>1. \A a \in GameCells : memory'[a] = memory[a]
    <3>1. GameCells \subseteq 0 .. Engine.base + EngineSize - 1
      BY EngineLies DEF GameCells
    <3> QED
      BY <1>4, <3>1
  <2>2. \A a \in GameCells : Expected(a)' = Expected(a)
    BY <1>1 DEF CallWrapper, Expected, CallCells, RestAt, Hook, world
  <2>3. GameCells' = GameCells
    BY DEF GameCells
  <2>4. \A a \in GameCells' : memory'[a] = Expected(a)'
    BY <2>1, <2>2, <2>3 DEF CodeInv, GameInv
  <2> QED
    BY <1>1, <2>4 DEF GameInv, CodeInv, CallWrapper
<1>13. RecordInv'
  BY <1>1, <1>4, <1>7 DEF CodeInv, RecordInv, Stages
<1>14. PatchInv'
  BY <1>1, PatchKept DEF CodeInv, CallWrapper, world
<1>15. CpuInv'
  BY <1>1, <1>10 DEF CpuInv, CallWrapper, world
<1> QED
  BY <1>1, <1>11, <1>12, <1>13, <1>14, <1>15, SearchKept DEF CodeInv

-------------------------------------------------------------------------------
(* A process that has just started. *)
LEMMA CodeInvInit == CodeInit => CodeInv
<1> SUFFICES ASSUME CodeInit
             PROVE  CodeInv
  OBVIOUS
<1>1. /\ platform \in Platforms /\ program \in Programs /\ image \in Physics
      /\ image = program.havok /\ memory = Binary(platform, program)
      /\ pc = "out" /\ ip = NullAddr /\ patchAddr = NullAddr
  BY CodeAssumption DEF CodeInit
<1>2. NullAddr \in Addresses
  BY EngineLies DEF NullAddr, Addresses
<1>3. memory \in [Addresses -> Addresses \cup {Unmapped}]
  BY <1>1, BinaryCells
<1>4. LoaderProt \in [Pages -> {"rx", "rw"}]
  BY DEF LoaderProt
<1>5. NothingSaved \in [1 .. 3 -> Addresses]
  BY <1>2 DEF NothingSaved, NullAddr
<1>6. [engine |-> NoModule, vphysics |-> NoModule] \in
        [{"engine", "vphysics"} -> [base : Addresses, size : Addresses]]
  BY <1>2 DEF NoModule, NullAddr
<1>7. CodeTypeOK
  BY <1>1, <1>2, <1>3, <1>4, <1>5, <1>6 DEF CodeInit, CodeTypeOK
<1>8. GameInv
  BY <1>1 DEF CodeInit, GameInv, Expected
<1>9. RecordInv
  BY <1>1, BinaryCells DEF CodeInit, RecordInv, Stages
<1>10. PatchInv /\ CpuInv
  BY <1>1 DEF PatchInv, CpuInv
<1>11. SearchIsExact /\ SearchStaysMapped
  BY <1>1 DEF SearchIsExact, SearchStaysMapped
<1> QED
  BY <1>7, <1>8, <1>9, <1>10, <1>11 DEF CodeInv

LEMMA CodeStep == CodeInv /\ [CodeNext]_vars => CodeInv'
<1> SUFFICES ASSUME CodeInv, [CodeNext]_vars
             PROVE  CodeInv'
  OBVIOUS
<1>1. CASE HostLoads
  BY <1>1, HostLoadsKeepsInv
<1>2. CASE HostUnmaps
  BY <1>2, HostUnmapsKeepsInv
<1>3. CASE InitModules
  BY <1>3, InitModulesKeepsInv
<1>4. CASE FindAdminCommandIssueFunc
  BY <1>4, FindAdminKeepsInv
<1>5. CASE FindSignatures
  BY <1>5, FindSignaturesKeepsInv
<1>6. CASE PatchSpawnServer
  BY <1>6, PatchSpawnServerKeepsInv
<1>7. CASE NothingToPatch
  BY <1>7, NothingToPatchKeepsInv
<1>8. CASE UnloadPhysSwapper
  BY <1>8, UnloadKeepsInv
<1>9. CASE SpawnServer
  BY <1>9, SpawnServerKeepsInv
<1>10. CASE CallLog
  BY <1>10, CallLogKeepsInv
<1>11. CASE CallWrapper
  BY <1>11, CallWrapperKeepsInv
<1>12. CASE PassNop
  BY <1>12, PassNopKeepsInv
<1>13. CASE GoOn
  BY <1>13, GoOnKeepsInv
<1>14. CASE UNCHANGED vars
  <2>1. CodeTypeOK'
    BY <1>14 DEF CodeInv, CodeTypeOK, vars, world, machine, statics, cpu
  <2>2. GameInv'
    BY <1>14, GameKept DEF CodeInv, GameInv, vars, world, machine, statics, cpu
  <2>3. RecordInv'
    BY <1>14, RecordKept DEF CodeInv, vars, world, machine, statics, cpu
  <2>4. PatchInv'
    BY <1>14 DEF CodeInv, PatchInv, vars, world, machine, statics, cpu
  <2>5. CpuInv'
    BY <1>14 DEF CodeInv, CpuInv, RestAt, vars, world, machine, statics, cpu
  <2>6. SearchIsExact'
    BY <1>14 DEF CodeInv, SearchIsExact, FirstOrMissed, Occurrences, vars, world,
       machine, statics, cpu
  <2>7. SearchStaysMapped'
    BY <1>14 DEF CodeInv, SearchStaysMapped, vars, world, machine, statics, cpu
  <2> QED
    BY <2>1, <2>2, <2>3, <2>4, <2>5, <2>6, <2>7 DEF CodeInv
<1>15. CASE Ended
  BY <1>14, <1>15 DEF Ended
<1> QED
  BY <1>1, <1>2, <1>3, <1>4, <1>5, <1>6, <1>7, <1>8, <1>9, <1>10, <1>11, <1>12, <1>13,
     <1>14, <1>15 DEF CodeNext

-------------------------------------------------------------------------------
(* The invariant: which cells of the game's code differ from the binary, where the
   images lie, what the plugin has recorded, found and saved of them, and how far
   SpawnServer has come. *)
THEOREM CodeInvariant == CodeSpec => []CodeInv
<1>1. CodeInit => CodeInv
  BY CodeInvInit
<1>2. CodeInv /\ [CodeNext]_vars => CodeInv'
  BY CodeStep
<1> QED
  BY <1>1, <1>2, PTL DEF CodeSpec

(* Every variable of the process keeps its type: no write leaves the memory, no
   recorded module and no decoded address the address space. *)
THEOREM CodeTypeCorrect == CodeSpec => []CodeTypeOK
<1>1. CodeInv => CodeTypeOK
  BY DEF CodeInv
<1> QED
  BY <1>1, CodeInvariant, PTL

(* SpawnServer only meets whole instructions in pages it may execute, and calls the
   plugin's function if the plugin is loaded (PatchSpawnServer, extension.cpp:585)
   and the game's if not, wherever the call lies. *)
THEOREM CodeHookReached == CodeSpec => []HookReached
BY InvHookReached, CodeInvariant, PTL

(* Apart from the call of a loaded plugin, the game's code and its protection are
   what they were before any load (extension.cpp:818). *)
THEOREM CodeIsIntact == CodeSpec => []CodeIntact
BY InvCodeIntact, CodeInvariant, PTL

(* FindSignature (memory.h:30) answers with the first occurrence, and misses none
   but one at the last place of a module. *)
THEOREM CodeSearchIsExact == CodeSpec => []SearchIsExact
<1>1. CodeInv => SearchIsExact
  BY DEF CodeInv
<1> QED
  BY <1>1, CodeInvariant, PTL

(* Only a recorded size that was never lowered (module.h:33) makes a search read
   where no module is. *)
THEOREM CodeSearchStaysMapped == CodeSpec => []SearchStaysMapped
<1>1. CodeInv => SearchStaysMapped
  BY DEF CodeInv
<1> QED
  BY <1>1, CodeInvariant, PTL
(* The address that FindAdminCommandIssueFunc (extension.cpp:323) has read out of the
   code of dumpentityfactories is the function that its first call calls, whatever
   instructions are around that call, unless one in front of it holds the call's
   opcode. *)
LEMMA FindAdminDecodes ==
  CodeInv /\ AdminDecoded /\ FindAdminCommandIssueFunc => AdminDecoded'
<1> SUFFICES ASSUME CodeInv, AdminDecoded, FindAdminCommandIssueFunc,
                    admin' # NullAddr, NoStrayCallByte'
             PROVE  \E i \in DOMAIN program'.command :
                      /\ program'.command[i].op = "call"
                      /\ program'.command[i].arg = admin'
                      /\ \A j \in 1 .. i - 1 : program'.command[j].op # "call"
  BY DEF AdminDecoded
<1>1. pc = "admin" /\ program' = program
  BY DEF FindAdminCommandIssueFunc, world
<1>2. platform \in Platforms /\ program \in Programs
  BY DEF CodeInv, CodeTypeOK
<1>3. \A i \in DOMAIN program.command :
        program.command[i].op = "push" => program.command[i].arg # Ops["call"]
  BY <1>1 DEF NoStrayCallByte
<1>4. CASE CallsFrom(CommandAt) = {}
  <2>1. admin' = admin
    BY <1>4 DEF FindAdminCommandIssueFunc
  <2> QED
    BY <1>1, <1>3, <2>1 DEF AdminDecoded, NoStrayCallByte
<1>5. CASE CallsFrom(CommandAt) # {}
  <2>1. \A a \in CommandAt .. CommandAt + AdminScan :
          memory[a] = Binary(platform, program)[a]
    <3> SUFFICES ASSUME NEW a \in CommandAt .. CommandAt + AdminScan
                 PROVE  memory[a] = Binary(platform, program)[a]
      OBVIOUS
    <3>1. a \in GameCells
      BY EngineLies DEF GameCells
    <3> QED
      BY <1>1, <3>1 DEF CodeInv, GameInv, Expected
  <2> DEFINE S == CallsFrom(CommandAt)
             at == CommandAt + Min(S)
  <2>2. S = {x \in 0 .. AdminScan - 1 :
               Binary(platform, program)[CommandAt + x] = Ops["call"]}
    <3>1. \A x \in 0 .. AdminScan - 1 : CommandAt + x \in CommandAt .. CommandAt + AdminScan
      BY EngineLies
    <3> QED
      BY <2>1, <3>1 DEF CallsFrom
  <2>3. memory[at + 1] = Binary(platform, program)[at + 1]
    <3>1. S \in SUBSET Nat /\ S \subseteq 0 .. AdminScan - 1
      BY EngineLies DEF CallsFrom
    <3> HIDE DEF S
    <3>2. Min(S) \in 0 .. AdminScan - 1
      BY <1>5, <3>1, MinIsLeast DEF S
    <3>3. at + 1 \in CommandAt .. CommandAt + AdminScan
      BY <3>2, EngineLies
    <3> QED
      BY <2>1, <3>3
  <2>4. admin' = Wrap(at + JumpSize + Binary(platform, program)[at + 1])
    BY <1>5, <2>3 DEF FindAdminCommandIssueFunc, Callee
  <2> HIDE DEF S
  <2>5. \E i \in DOMAIN program.command :
          /\ program.command[i].op = "call"
          /\ \A j \in 1 .. i - 1 : program.command[j].op # "call"
          /\ Wrap(at + JumpSize + Binary(platform, program)[at + 1])
               = program.command[i].arg
    <3>1. S # {}
      BY <1>5 DEF S
    <3> QED
      BY <1>2, <1>3, <2>2, <3>1, FirstCallDecoded
  <2> QED
    BY <1>1, <2>4, <2>5
<1> QED
  BY <1>4, <1>5

(* What FindAdminCommandIssueFunc reads out of a console command is the function that
   the command's first call calls (extension.cpp:323), for every sequence of
   instructions in which no operand holds the call's own byte. *)
THEOREM CodeAdminDecoded == CodeSpec => []AdminDecoded
<1>1. CodeInit => AdminDecoded
  BY DEF CodeInit, AdminDecoded
<1>2. CodeInv /\ AdminDecoded /\ [CodeNext]_vars => AdminDecoded'
  <2> SUFFICES ASSUME CodeInv, AdminDecoded, [CodeNext]_vars
               PROVE  AdminDecoded'
    OBVIOUS
  <2>1. ASSUME program' = program, admin' \in {admin, NullAddr}
        PROVE  AdminDecoded'
    BY <2>1 DEF AdminDecoded, NoStrayCallByte
  <2>2. CASE FindAdminCommandIssueFunc
    BY <2>2, FindAdminDecodes
  <2>3. CASE ~FindAdminCommandIssueFunc
    <3>1. program' = program
      BY <2>3 DEF CodeNext, vars, world, HostLoads, InitModules, FindSignatures,
         PatchSpawnServer, NothingToPatch, UnloadPhysSwapper, HostUnmaps, SpawnServer,
         CallLog, CallWrapper, PassNop, GoOn, Ended
    <3>2. admin' \in {admin, NullAddr}
      BY <2>3 DEF CodeNext, vars, statics, HostLoads, InitModules, FindSignatures,
         PatchSpawnServer, NothingToPatch, UnloadPhysSwapper, HostUnmaps, SpawnServer,
         CallLog, CallWrapper, PassNop, GoOn, Ended
    <3> QED
      BY <2>1, <3>1, <3>2
  <2> QED
    BY <2>2, <2>3
<1> QED
  BY <1>1, <1>2, CodeInvariant, PTL DEF CodeSpec
===============================================================================
