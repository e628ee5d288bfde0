------------------------------- MODULE CodePatch -------------------------------
(***************************************************************************)
(* What the plugin does to the memory of the game: it finds out where the  *)
(* modules lie (module.h), searches them for signatures, reads the target  *)
(* of a call out of a console command's code, and writes a call of its own *)
(* into CGameServer::SpawnServer (memory.h, PatchSpawnServer), which the   *)
(* processor then executes at every map load until an unload undoes it.    *)
(*                                                                         *)
(* Memory is a row of cells.  A cell is one byte of the code, except that  *)
(* a 32-bit operand takes one cell, as wide as an address, and so do the   *)
(* four bytes PatchSpawnServer looks for.  Addresses wrap as in the code.  *)
(***************************************************************************)
EXTENDS Integers, SequencesExt

CONSTANTS
  Space,      \* the number of addresses
  PageSize,   \* the number of cells in a page
  Unmapped,   \* what is at an address with no memory
  Ops,        \* the cells with a meaning, a record of distinct numbers
  Wildcard,   \* the byte of a signature that matches everything
  Window,     \* the offsets in SpawnServer that are scanned (0x400 .. 0x4FF)
  Skip,       \* Skip[platform]: from the four bytes to the call
  AdminScan,  \* how much of the command's code is scanned (0x10)
  Engine,     \* the engine's image: base, the cells of code and of data
  CommandAt,  \* where the code of dumpentityfactories begins
  Wrapper,    \* COM_TimestampedLog_Wrapper
  Log,        \* COM_TimestampedLog
  Programs,   \* the game binaries the plugin may meet, havok is their vphysics
  Physics     \* the images of physics engines: base, size and mark

Addresses == 0 .. Space - 1
Platforms == {"windows", "linux"}
NullAddr  == 0

Wrap(n) == n % Space
Page(a) == a \div PageSize
Pages   == {Page(a) : a \in Addresses}

OpNames == {"call", "indirect", "nop", "pattern", "prologue", "body", "mark",
            "rest", "other"}

ASSUME CodeAssumption ==
  /\ Space \in Nat \ {0} /\ PageSize \in Nat \ {0}
  /\ Ops \in [OpNames -> Addresses]
  /\ \A m, n \in OpNames : Ops[m] = Ops[n] => m = n
  /\ Unmapped \notin Addresses
  /\ Window \subseteq Nat /\ AdminScan \in Nat
  /\ Skip \in [Platforms -> Nat]
  /\ \A g \in Programs : g.havok \in Physics

VARIABLES
  platform,  \* which of the two builds runs
  program,   \* the game binary, as its author wrote it
  sought,    \* the signature for vphysics in the game data file of this load
  memory,    \* the cells of the process
  prot,      \* the protection of every page
  image,     \* the physics engine that is mapped
  record,    \* g_Modules: base and size of the engine and of vphysics
  found,     \* g_Signatures, NullAddr for what is not there
  admin,     \* UTIL_IsCommandIssuedByServerAdmin
  patchAddr, \* g_SpawnServerPatchAddr
  saved,     \* g_SpawnServerTrampoline and g_SpawnServerTrampolinePad
  pc,        \* what the main thread does
  ip,        \* the instruction in SpawnServer that is executed next
  called     \* the function that SpawnServer's call has reached

world   == <<platform, program, sought>>
statics == <<record, found, admin, patchAddr, saved>>
cpu     == <<ip, called>>
machine == <<memory, prot, image>>
vars    == <<world, machine, statics, pc, cpu>>

Stages == {"modules", "admin", "signatures", "patch"}
Failed == {"failed", "no signature"}
Faults == {"search fault", "write fault"}

-------------------------------------------------------------------------------
(* AsmJump_t and CalcRelativeJmp.  As a fault: the offset is not cut to    *)
(* the width of the operand.                                               *)
JumpSize == 2

CalcUnwrapped(start, target) == target - start - JumpSize
CalcRelativeJmp(start, target) == Wrap(target - start - JumpSize)

Jump(at, target) == <<Ops["call"], CalcRelativeJmp(at, target)>>

(* The binary.  An instruction of the command is a record of its name and  *)
(* its argument, the argument of a call being the function it calls.       *)
Instructions == [op : {"call", "push", "other"}, arg : Addresses]

Encoded(ins, at) ==
  CASE ins.op = "call"  -> <<Ops["call"], Wrap(ins.arg - at - JumpSize)>>
    [] ins.op = "push"  -> <<Ops["other"], ins.arg>>
    [] ins.op = "other" -> <<Ops["other"]>>

CommandCode(command) ==
  LET code[i \in 0 .. Len(command)] ==
        IF i = 0 THEN <<>>
        ELSE code[i - 1] \o Encoded(command[i], CommandAt + Len(code[i - 1]))
  IN  code[Len(command)]

(* SpawnServer behind some other code.  On Windows the logging function is *)
(* called through a pointer, which makes the call one byte longer.         *)
CallSize(p) == IF p = "windows" THEN JumpSize + 1 ELSE JumpSize

GameCall(p, at) ==
  IF p = "windows" THEN <<Ops["indirect"], Ops["other"], Ops["other"]>>
  ELSE <<Ops["call"], Wrap(Log - at - JumpSize)>>

SpawnServerAt(g) == Engine.base + Len(g.filler)
PatternAt(g) == SpawnServerAt(g) + g.gap
CallAt(p, g) == PatternAt(g) + Skip[p]

Others(n) == [i \in 1 .. n |-> Ops["other"]]

EngineCode(p, g) ==
  g.filler \o <<Ops["prologue"], Ops["other"], Ops["body"]>>
  \o Others(g.gap - 3) \o <<Ops["pattern"]>> \o Others(Skip[p] - 1)
  \o GameCall(p, CallAt(p, g)) \o <<Ops["rest"]>>

EngineSize == Engine.code + Engine.data

(* An image's cells, mark being the offset of the bytes that a signature   *)
(* of the physics library describes.                                       *)
PhysicsCell(i, offset) ==
  IF offset = i.mark THEN Ops["mark"]
  ELSE IF offset = i.mark + 1 THEN Ops["body"] ELSE Ops["other"]

Placed(mem, at, cells) ==
  [a \in Addresses |->
     IF a \in at .. at + Len(cells) - 1 THEN cells[a - at + 1] ELSE mem[a]]

MapPhysics(mem, old, new) ==
  [a \in Addresses |->
     IF a \in new.base .. new.base + new.size - 1 THEN PhysicsCell(new, a - new.base)
     ELSE IF a \in old.base .. old.base + old.size - 1 THEN Unmapped
     ELSE mem[a]]

Binary(p, g) ==
  LET empty   == [a \in Addresses |-> Unmapped]
      command == Placed(Placed(empty, CommandAt, Others(AdminScan + 1)),
                        CommandAt, CommandCode(g.command))
      engine  == Placed(Placed(command, Engine.base, Others(EngineSize)),
                        Engine.base, EngineCode(p, g))
  IN  MapPhysics(engine, g.havok, g.havok)

EnginePages == {Page(a) : a \in Engine.base .. Engine.base + Engine.code - 1}

LoaderProt == [g \in Pages |-> IF g \in EnginePages THEN "rx" ELSE "rw"]

(* What lies where: the code of the command, the engine and the physics engines
   do not overlap, and no image lies so high that the recorded size of another
   would carry it past the last address. *)
ASSUME LayoutAssumption ==
  /\ CommandAt \in Nat \ {0}
  /\ Engine \in [base : Nat, code : Nat, data : Nat]
  /\ CommandAt + AdminScan < Engine.base
  /\ Physics \subseteq [base : Nat, size : Nat \ {0, 1}, mark : Nat]
  /\ \A i, j \in Physics : /\ Engine.base + EngineSize <= i.base
                           /\ i.base + j.size <= Space
  /\ Engine.base + EngineSize <= Space
  /\ {Wrapper, Log} \subseteq Addresses /\ Wrapper # Log
  /\ Wildcard \notin Addresses
  /\ \A p \in Platforms : Skip[p] > 0

(* The game data file describes the binary: the first place in the engine that
   SpawnServer's signature matches is SpawnServer, what is scanned lies in the
   engine, and the four bytes, if they are in it, are those before the call. *)
ASSUME BuildAssumption ==
  \A p \in Platforms, g \in Programs :
    LET mem == Binary(p, g) IN
    /\ g.command \in Seq(Instructions)
    /\ CommandAt + Len(CommandCode(g.command)) <= Engine.base
    /\ g.filler \in Seq(Addresses) /\ g.gap \in Nat /\ g.gap >= 3
    /\ CallAt(p, g) + CallSize(p) < Engine.base + Engine.code
    /\ \A a \in Engine.base .. SpawnServerAt(g) - 1 :
         ~(mem[a] = Ops["prologue"] /\ mem[a + 2] = Ops["body"])
    /\ \A i \in Window :
         /\ SpawnServerAt(g) + i < Engine.base + EngineSize
         /\ mem[SpawnServerAt(g) + i] = Ops["pattern"] => i = g.gap

PhysicsSigs == {<<Ops["mark"], Ops["body"]>>, <<Ops["body"], Ops["mark"]>>}

NoModule == [base |-> NullAddr, size |-> 0]
NothingSaved == <<0, 0, 0>>

CodeInit ==
  /\ platform \in Platforms
  /\ program \in Programs
  /\ sought \in PhysicsSigs
  /\ memory = Binary(platform, program)
  /\ prot = LoaderProt
  /\ image = program.havok
  /\ record = [engine |-> NoModule, vphysics |-> NoModule]
  /\ found = [spawn |-> NullAddr, physics |-> NullAddr]
  /\ admin = NullAddr
  /\ patchAddr = NullAddr
  /\ saved = NothingSaved
  /\ pc = "out"
  /\ ip = NullAddr
  /\ called = NullAddr

-------------------------------------------------------------------------------
(* Module_t::Init.  Windows is asked for the size of the image, on Linux   *)
(* the recorded size is raised to the end of the last segment.             *)
SizeAsTold(old, size) == size
SizeRaised(old, size) == IF size > old THEN size ELSE old

ModuleInit(old, base, size) ==
  [ base |-> base,
    size |-> IF platform = "windows" THEN SizeAsTold(old.size, size)
             ELSE SizeRaised(old.size, size) ]

InitModules ==
  /\ pc = "modules"
  /\ record' = [ engine   |-> ModuleInit(record.engine, Engine.base, EngineSize),
                 vphysics |-> IF image = program.havok
                              THEN ModuleInit(record.vphysics, image.base, image.size)
                              ELSE record.vphysics ]
  /\ pc' = IF image = program.havok THEN "admin" ELSE "failed"
  /\ UNCHANGED <<world, machine, found, admin, patchAddr, saved, cpu>>

(* FindAdminCommandIssueFunc.  As a fault: the offset is added to the      *)
(* address of the call itself.                                             *)
CallsFrom(at) == {i \in 0 .. AdminScan - 1 : memory[at + i] = Ops["call"]}

CalleeOfStart(at) == Wrap(at + memory[at + 1])
Callee(at) == Wrap(at + JumpSize + memory[at + 1])

FindAdminCommandIssueFunc ==
  /\ pc = "admin"
  /\ IF CallsFrom(CommandAt) = {}
     THEN pc' = "failed" /\ UNCHANGED admin
     ELSE /\ admin' = Callee(CommandAt + Min(CallsFrom(CommandAt)))
          /\ pc' = "signatures"
  /\ UNCHANGED <<world, machine, record, found, patchAddr, saved, cpu>>

-------------------------------------------------------------------------------
(* FindSignature.  It looks at every position before End, and at a         *)
(* position it reads every byte that is no wildcard.  As faults: a search  *)
(* that goes on to the end of the image, and a match that is decided by    *)
(* the last byte alone.                                                    *)
SpawnSig   == <<Ops["prologue"], Wildcard, Ops["body"]>>

EndOfImage(m, sig) == Wrap(m.base + m.size)
ScanEnd(m, sig) == Wrap(m.base + m.size - Len(sig))

Positions(m, sig) == m.base .. ScanEnd(m, sig) - 1

SameByte(sig, j, at) == sig[j] = Wildcard \/ sig[j] = memory[Wrap(at + j - 1)]

LastByteMatches(sig, at) == SameByte(sig, Len(sig), at)
MatchesAt(sig, at) == \A j \in DOMAIN sig : SameByte(sig, j, at)

Matches(m, sig) == {i \in Positions(m, sig) : MatchesAt(sig, i)}

FindSignature(m, sig) ==
  IF Matches(m, sig) = {} THEN NullAddr ELSE Min(Matches(m, sig))

(* A position before the first match has a byte where no memory is.        *)
SearchFaults(m, sig) ==
  \E i \in Positions(m, sig) :
    /\ \A k \in Matches(m, sig) : i < k
    /\ \E j \in DOMAIN sig :
         sig[j] # Wildcard /\ memory[Wrap(i + j - 1)] = Unmapped

Kept(address, old) == IF address = NullAddr THEN old ELSE address

FindSignatures ==
  /\ pc = "signatures"
  /\ LET spawn   == FindSignature(record.engine, SpawnSig)
         physics == FindSignature(record.vphysics, sought)
     IN  IF \/ SearchFaults(record.engine, SpawnSig)
            \/ SearchFaults(record.vphysics, sought)
         THEN pc' = "search fault" /\ UNCHANGED found
         ELSE /\ found' = [ spawn   |-> Kept(spawn, found.spawn),
                            physics |-> Kept(physics, found.physics) ]
              /\ pc' = IF NullAddr \in {spawn, physics} THEN "no signature"
                       ELSE "patch"
  /\ UNCHANGED <<world, machine, record, admin, patchAddr, saved, cpu>>

-------------------------------------------------------------------------------
(* A patch of n cells from an address on.  Linux rounds the address down   *)
(* to its page and protects from there to the last cell; afterwards the    *)
(* pages are code, whatever they were.  Windows protects the pages that    *)
(* the cells lie in and afterwards gives all of them what the first had.   *)
(* As a fault: only the first page is opened.                              *)
FirstPage(at, n) == {Page(at)}
TouchedPages(at, n) == Page(at) .. Page(at + n - 1)

Reprotected(old, at, n) ==
  [g \in Pages |-> IF g \notin TouchedPages(at, n) THEN old[g]
                   ELSE IF platform = "windows" THEN old[Page(at)] ELSE "rx"]

WriteFaults(at, n) == \E a \in at .. at + n - 1 : Page(a) \notin TouchedPages(at, n)

(* On Windows a second call of PatchMemory writes the byte after the jump. *)
Protected(at) ==
  LET jump == Reprotected(prot, at, JumpSize)
  IN  IF platform = "windows" THEN Reprotected(jump, at + JumpSize, 1) ELSE jump

PatchMemory(at, cells, done) ==
  /\ memory' = Placed(memory, at, cells)
  /\ prot' = Protected(at)
  /\ pc' = IF WriteFaults(at, JumpSize) THEN "write fault" ELSE done
  /\ UNCHANGED image

(* PatchSpawnServer.  The call is one byte longer on Windows.              *)
Hits == {i \in Window : memory[Wrap(found.spawn + i)] = Ops["pattern"]}
HookAt == found.spawn + Min(Hits) + Skip[platform]

Hook(at) ==
  IF platform = "windows" THEN Append(Jump(at, Wrapper), Ops["nop"])
  ELSE Jump(at, Wrapper)

Overwritten(at) ==
  [i \in 1 .. 3 |-> IF i <= CallSize(platform) THEN memory[at + i - 1] ELSE saved[i]]

PatchSpawnServer ==
  /\ pc = "patch"
  /\ Hits # {}
  /\ PatchMemory(HookAt, Hook(HookAt), "active")
  /\ saved' = Overwritten(HookAt)
  /\ patchAddr' = HookAt
  /\ UNCHANGED <<world, record, found, admin, cpu>>

NothingToPatch ==
  /\ pc = "patch"
  /\ Hits = {}
  /\ pc' = "failed"
  /\ UNCHANGED <<world, machine, statics, cpu>>

(* UnloadPhysSwapper, also after a failed load.  As a fault: the byte      *)
(* after the jump is not put back.                                         *)
RestoredJump == SubSeq(saved, 1, JumpSize)
Restored == SubSeq(saved, 1, CallSize(platform))

UnloadPhysSwapper ==
  /\ pc \in {"active"} \cup Failed
  /\ ip = NullAddr
  /\ IF patchAddr = NullAddr
     THEN pc' = "unloaded" /\ UNCHANGED machine
     ELSE PatchMemory(patchAddr, Restored, "unloaded")
  /\ UNCHANGED <<world, statics, cpu>>

-------------------------------------------------------------------------------
(* The host.  Every load may find another game data file.  Another         *)
(* holder may keep the library mapped, and with it what it has stored.     *)
HostLoads ==
  /\ pc = "out"
  /\ ip = NullAddr
  /\ pc' = "modules"
  /\ sought' \in PhysicsSigs
  /\ UNCHANGED <<platform, program, machine, statics, cpu>>

HostUnmaps ==
  /\ pc \in {"unloaded"} \cup Failed
  /\ pc' = "out"
  /\ \/ UNCHANGED statics
     \/ /\ record' = [engine |-> NoModule, vphysics |-> NoModule]
        /\ found' = [spawn |-> NullAddr, physics |-> NullAddr]
        /\ admin' = NullAddr
        /\ patchAddr' = NullAddr
        /\ saved' = NothingSaved
  /\ UNCHANGED <<world, machine, cpu>>

(* The processor, from the call in SpawnServer to what follows it.         *)
SpawnServer ==
  /\ pc \in {"out", "active"}
  /\ ip = NullAddr
  /\ ip' = CallAt(platform, program)
  /\ called' = NullAddr
  /\ UNCHANGED <<world, machine, statics, pc>>

Destination(at) == Wrap(at + JumpSize + memory[at + 1])

Fetched(op) == ip # NullAddr /\ prot[Page(ip)] = "rx" /\ memory[ip] = Ops[op]

CallLog ==
  /\ \/ Fetched("indirect") /\ ip' = ip + JumpSize + 1
     \/ Fetched("call") /\ Destination(ip) = Log /\ ip' = ip + JumpSize
  /\ called' = Log
  /\ UNCHANGED <<world, machine, statics, pc>>

(* COM_TimestampedLog_Wrapper may swap the engine: the image changes, and  *)
(* PhysicsSwap looks at the new module.                                    *)
CallWrapper ==
  /\ Fetched("call")
  /\ Destination(ip) = Wrapper
  /\ pc = "active"
  /\ ip' = ip + JumpSize
  /\ called' = Wrapper
  /\ image' \in Physics
  /\ memory' = MapPhysics(memory, image, image')
  /\ record' = [record EXCEPT !.vphysics = ModuleInit(@, image'.base, image'.size)]
  /\ UNCHANGED <<world, prot, found, admin, patchAddr, saved, pc>>

PassNop ==
  /\ Fetched("nop")
  /\ ip' = ip + 1
  /\ UNCHANGED <<world, machine, statics, pc, called>>

GoOn ==
  /\ Fetched("rest")
  /\ ip' = NullAddr
  /\ UNCHANGED <<world, machine, statics, pc, called>>

Ended == pc \in Faults /\ UNCHANGED vars

CodeNext ==
  \/ HostLoads \/ InitModules \/ FindAdminCommandIssueFunc \/ FindSignatures
  \/ PatchSpawnServer \/ NothingToPatch
  \/ UnloadPhysSwapper \/ HostUnmaps
  \/ SpawnServer \/ CallLog \/ CallWrapper \/ PassNop \/ GoOn
  \/ Ended

CodeSpec == CodeInit /\ [][CodeNext]_vars

-------------------------------------------------------------------------------
(* The type invariant. *)
CodeTypeOK ==
  /\ platform \in Platforms
  /\ program \in Programs
  /\ sought \in PhysicsSigs
  /\ memory \in [Addresses -> Addresses \cup {Unmapped}]
  /\ prot \in [Pages -> {"rx", "rw"}]
  /\ image \in Physics
  /\ record \in [{"engine", "vphysics"} -> [base : Addresses, size : Addresses]]
  /\ found \in [{"spawn", "physics"} -> Addresses]
  /\ {admin, patchAddr, ip, called} \subseteq Addresses
  /\ saved \in [1 .. 3 -> Addresses]
  /\ pc \in {"out", "active", "unloaded"} \cup Stages \cup Failed \cup Faults

(* Where an image really has a signature's bytes. *)
Occurrences(base, size, sig) ==
  {a \in base .. base + size - Len(sig) :
     \A j \in DOMAIN sig : sig[j] \in {Wildcard, memory[a + j - 1]}}

FirstOrMissed(m, sig, address) ==
  LET all == Occurrences(m.base, m.size, sig) IN
  IF address = NullAddr THEN all \subseteq {m.base + m.size - Len(sig)}
  ELSE address \in all /\ \A a \in all : address <= a

(* FindSignature (memory.h:30) answers with the first occurrence; a search
   fails only where nothing is or where the one occurrence is the last place
   in the image, which the loop's bound leaves out. *)
SearchIsExact ==
  /\ pc = "patch" =>
       /\ FirstOrMissed(record.engine, SpawnSig, found.spawn)
       /\ FirstOrMissed(record.vphysics, sought, found.physics)
  /\ pc = "no signature" =>
       \/ FirstOrMissed(record.engine, SpawnSig, NullAddr)
       \/ FirstOrMissed(record.vphysics, sought, NullAddr)

(* No search reads beyond the memory of a module, save one: on Linux the
   recorded size is never lowered (module.h:33), so in a library that stayed
   mapped over swaps to a larger engine and back, the next load reads on when
   it looks for something that is not there. *)
SearchStaysMapped ==
  pc = "search fault" => platform = "linux" /\ record.vphysics.size > image.size

(* The console command's function calls the admin check first; whatever code
   is in front of that call, unless it contains the call's own byte, the
   address read out of it (extension.cpp:323) is the one that it calls. *)
NoStrayCallByte ==
  \A i \in DOMAIN program.command :
    program.command[i].op = "push" => program.command[i].arg # Ops["call"]

AdminDecoded ==
  admin # NullAddr /\ NoStrayCallByte =>
    \E i \in DOMAIN program.command :
      /\ program.command[i].op = "call" /\ program.command[i].arg = admin
      /\ \A j \in 1 .. i - 1 : program.command[j].op # "call"

(* Wherever in a page the call lies, and on both platforms: SpawnServer only
   meets whole instructions, in pages it may execute, that call a function the
   process has, no write meets a protected page, and when SpawnServer reaches
   the instruction behind its call, it has called the plugin's function if the
   plugin is loaded and the game's if not. *)
RestAt == CallAt(platform, program) + CallSize(platform)

Present == IF pc = "active" THEN {Log, Wrapper} ELSE {Log}

HookReached ==
  /\ pc # "write fault"
  /\ ip # NullAddr =>
       \/ \E op \in {"indirect", "nop", "rest"} : Fetched(op)
       \/ Fetched("call") /\ Destination(ip) \in Present
  /\ ip = RestAt => called = (IF pc = "active" THEN Wrapper ELSE Log)

(* Apart from the call of a loaded plugin, the code is as its author wrote it,
   and every page is protected as the loader left it, whatever was loaded,
   refused, unloaded and loaded again before. *)
CodeIntact ==
  /\ prot = LoaderProt
  /\ \A a \in CommandAt .. Engine.base + EngineSize - 1 :
       \/ memory[a] = Binary(platform, program)[a]
       \/ pc = "active" /\ a \in CallAt(platform, program) .. RestAt - 1

-------------------------------------------------------------------------------
(* What every step keeps, and what the properties above follow from: which cells
   of the game's code differ from the binary, ... *)
GameCells == CommandAt .. Engine.base + EngineSize - 1

CallCells == CallAt(platform, program) .. RestAt - 1

Expected(a) ==
  IF pc = "active" /\ a \in CallCells
  THEN Hook(CallAt(platform, program))[a - CallAt(platform, program) + 1]
  ELSE Binary(platform, program)[a]

GameInv ==
  /\ \A a \in GameCells : memory[a] = Expected(a)
  /\ prot = LoaderProt
  /\ pc # "write fault"

(* ... where the images lie and what the plugin has recorded of them, ... *)
RecordInv ==
  /\ \A a \in image.base .. image.base + image.size - 1 :
       memory[a] = PhysicsCell(image, a - image.base)
  /\ record.engine \in {NoModule, [base |-> Engine.base, size |-> EngineSize]}
  /\ \/ record.vphysics = NoModule
     \/ \E i, j \in Physics : record.vphysics = [base |-> i.base, size |-> j.size]
  /\ pc \in Stages \ {"modules"} =>
       /\ record.engine # NoModule
       /\ record.vphysics.base = image.base
       /\ record.vphysics.size >= image.size
       /\ platform = "windows" => record.vphysics.size = image.size

(* ... what has been found and saved, ... *)
PatchInv ==
  /\ pc = "patch" => found.spawn = SpawnServerAt(program)
  /\ pc = "active" => patchAddr # NullAddr
  /\ patchAddr # NullAddr =>
       /\ patchAddr = CallAt(platform, program)
       /\ \A i \in 1 .. CallSize(platform) :
            saved[i] = Binary(platform, program)[patchAddr + i - 1]

(* ... and how far SpawnServer has come. *)
CpuInv ==
  ip # NullAddr =>
    /\ pc \in {"out", "active"}
    /\ \/ ip = CallAt(platform, program)
       \/ /\ \/ ip = RestAt
             \/ ip = CallAt(platform, program) + JumpSize /\ pc = "active"
          /\ called = (IF pc = "active" THEN Wrapper ELSE Log)

(* Every step keeps all of it, wherever the code and the images lie. *)
CodeInv ==
  /\ CodeTypeOK
  /\ GameInv
  /\ RecordInv
  /\ PatchInv
  /\ CpuInv
  /\ SearchIsExact
  /\ SearchStaysMapped
===============================================================================
