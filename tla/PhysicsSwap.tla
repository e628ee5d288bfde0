------------------------------ MODULE PhysicsSwap ------------------------------
(***************************************************************************)
(* PhysicsSwap() of extension.cpp, step by step, over the part of the game *)
(* process it rewrites: the mapped engine modules, the application system  *)
(* group, the interface pointers other modules cached, the collision data  *)
(* of the model cache and the working directory.                           *)
(*                                                                         *)
(* The function runs on the server's main thread, so nothing interleaves   *)
(* with it; `pc' names the next group of statements.  Between two swaps    *)
(* the game adds models, loads their collision data lazily and evicts      *)
(* them.  Who decides that a swap is needed is another module: here any    *)
(* engine other than the running one may be requested.                     *)
(***************************************************************************)
EXTENDS PhysicsEngines, Integers

CONSTANTS
  Models,         \* handles of the model cache
  Dedicated,      \* g_Dedicated: no client module in the process
  CanFail,        \* pairs <<e, stage>>: bringing up e may fail in that stage
  CompleteGroup,  \* the group picked at 253 holds Havok's module and its system
  PluginFactory   \* the address of PhysicsQueryInterface

Stages == {"load", "factory", "connect", "init", "query"}

ASSUME SwapAssumption ==
  /\ Dedicated \in BOOLEAN
  /\ CanFail \subseteq Engines \X Stages
  /\ CompleteGroup \in BOOLEAN
  /\ PluginFactory \notin OptionalEngine

VARIABLES
  \* the game process
  refs,          \* refs[e]: reference count of engine e's module
  system,        \* system[e]: how far its physics system has been brought up
  groupModule,   \* the engine whose module the application system group holds
  groupSystem,   \* the engine whose physics system that group holds
  outerSystem,   \* a physics system registered with another group
  holder,        \* holder[h]: the engine the interface pointer h leads to
  serverFactory, \* physinterface of the server: the factory it queries
  dict,          \* m_Dict: the models in the cache
  vcollide,      \* vcollide[m]: the engine that allocated m's collision data
  workdir,       \* the working directory of the process
  \* globals of the plugin
  physicsSystem, \* g_PhysicsSystem
  queried,       \* g_Physics, g_PhysCollision and g_PhysSurfaceProps together
  moduleHandle,  \* g_Modules[VPHYSICS].handle
  physEngine,    \* the value of the convar phys_engine, NoEngine for ""
  \* locals of PhysicsSwap
  pc,            \* the statements to execute next
  origHandle,    \* OrigPhysicsHandle
  origSystem,    \* OrigPhysicsSystem
  scopedModule,  \* PhysicsHandleScope.Handle
  scopedDir      \* WorkingDirScope.WorkingDir, NoDir when it is empty

names    == <<engineName, swapName>>
modules  == <<refs, system>>
registry == <<groupModule, groupSystem, outerSystem>>
pointers == <<holder, serverFactory>>
cache    == <<dict, vcollide>>
globals  == <<physicsSystem, queried>>
shown    == <<moduleHandle, physEngine>>
locals   == <<origHandle, origSystem, scopedModule>>
dirs     == <<workdir, scopedDir>>

swapVars == <<names, modules, registry, pointers, cache, globals, shown,
              locals, dirs, pc>>

(* The interface pointers that PhysicsSwap replaces through a DataRef, and
   those a module refreshes itself when its Init function is called. *)
RefHolders == {"engineCollision", "engineSurfaceProps", "datacacheCollision"}
Holders == RefHolders \cup {"server"}
             \cup (IF Dedicated THEN {} ELSE {"client"})

GameDir == "game"
NoDir == "none"
Dirs == {GameDir, "bin", "extensions"}

PC == {"idle", "fetch", "load", "factory", "connect", "init", "query", "fix",
       "destroy", "retire", "reassign", "reload", "client", "server",
       "publish", "unwind", "crashed"}

(* The engine's modules and systems are up: code behind a pointer to e can be
   called. *)
Live(e) == refs[e] > 0 /\ system[e] = "running"

(* g_EngineInterface(VPHYSICS_INTERFACE_VERSION): the group is asked first. *)
EngineInterface == IF groupSystem # NoEngine THEN groupSystem ELSE outerSystem

Fails(stage) == <<swapName, stage>> \in CanFail

(* The answers a query of the new engine may give. *)
Answers(e, stage) == IF Fails(stage) THEN {e, NoEngine} ELSE {e}

(* `if (!answer) return false'.  As a fault: the answer is not looked at. *)
Unchecked(answer, next) == next
Checked(answer, next) == IF answer # NoEngine THEN next ELSE "unwind"

(* The destructors of ScopedSysModule_t and of ScopedWorkingDir_t.  As a fault:
   what was acquired is not given back. *)
KeptRefs == refs
ReleasedRefs ==
  [e \in Engines |-> IF e = scopedModule THEN refs[e] - 1 ELSE refs[e]]

KeptDir == workdir
RestoredDir == IF scopedDir # NoDir THEN scopedDir ELSE workdir

(* The result of FixAppSystemGroup.  As a fault: either entry will do. *)
EitherFixed == groupModule = origHandle \/ groupSystem = origSystem
BothFixed == groupModule = origHandle /\ groupSystem = origSystem

(* The entries that First, Next and InvalidIndex of m_Dict walk over.  As a
   fault: the walk ends one entry early. *)
WalkedButLast == dict \ {CHOOSE m \in Models : TRUE}
Walked == dict

(* What PhysicsQueryInterface, or the factory the server had before, leads to.
   As a fault: the server is left with the interface it had cached. *)
ServerKeeps == holder["server"]
ServerAnswer ==
  IF serverFactory = PluginFactory THEN physicsSystem ELSE serverFactory

-------------------------------------------------------------------------------
(* The process as the plugin finds it: Havok is up and everything points to it.
   When the group that the code picks (253) lacks one of Havok's two entries,
   FixAppSystemGroup has an error to report; the physics system may be
   registered elsewhere then. *)
ProcessInit ==
  /\ refs = [e \in Engines |-> IF e = HAVOK THEN 1 ELSE 0]
  /\ system = [e \in Engines |-> IF e = HAVOK THEN "running" ELSE "raw"]
  /\ groupModule \in {HAVOK, NoEngine}
  /\ groupSystem \in {HAVOK, NoEngine}
  /\ outerSystem \in {HAVOK, NoEngine}
  /\ CompleteGroup => groupModule = HAVOK /\ groupSystem = HAVOK
  /\ holder = [h \in Holders |-> HAVOK]
  /\ serverFactory = HAVOK
  /\ dict = {}
  /\ vcollide = [m \in Models |-> NoEngine]
  /\ workdir = GameDir

LocalsInit ==
  /\ pc = "idle"
  /\ origHandle = NoEngine
  /\ origSystem = NoEngine
  /\ scopedModule = NoEngine
  /\ scopedDir = NoDir

SwapInit ==
  /\ NamesInit
  /\ ProcessInit
  /\ LocalsInit
  /\ physicsSystem = NoEngine
  /\ queried = NoEngine
  /\ moduleHandle = HAVOK
  /\ physEngine = HAVOK

-------------------------------------------------------------------------------
(* The caller: PhysicsNeedsSwap chose e, and PhysicsSwap is entered. *)
RequestSwap(e) ==
  /\ pc = "idle"
  /\ e # engineName
  /\ swapName' = e
  /\ pc' = "fetch"
  /\ UNCHANGED <<engineName, modules, registry, pointers, cache, globals,
                 shown, locals, dirs>>

FetchOriginal ==
  /\ pc = "fetch"
  /\ EngineInterface # NoEngine
  /\ Live(EngineInterface)
  /\ origHandle' = moduleHandle
  /\ origSystem' = EngineInterface
  /\ pc' = "load"
  /\ UNCHANGED <<names, modules, registry, pointers, cache, globals, shown,
                 scopedModule, dirs>>

FetchFails ==
  /\ pc = "fetch"
  /\ EngineInterface = NoEngine
  /\ pc' = "idle"
  /\ UNCHANGED <<names, modules, registry, pointers, cache, globals, shown,
                 locals, dirs>>

(* A group that a failed swap left half fixed names a system whose module has
   been unloaded; asking it for an interface is the end of the process. *)
FetchCrashes ==
  /\ pc = "fetch"
  /\ EngineInterface # NoEngine
  /\ ~Live(EngineInterface)
  /\ pc' = "crashed"
  /\ UNCHANGED <<names, modules, registry, pointers, cache, globals, shown,
                 locals, dirs>>

(* The working directory is saved and moved to the bin folder, then the module
   of the new engine is loaded from there or from the extension folder. *)
LoadModule ==
  /\ pc = "load"
  /\ scopedDir' = workdir
  /\ workdir' = "bin"
  /\ \/ /\ refs' = [refs EXCEPT ![swapName] = @ + 1]
        /\ scopedModule' = swapName
        /\ pc' = "factory"
     \/ /\ Fails("load")
        /\ pc' = "unwind"
        /\ UNCHANGED <<refs, scopedModule>>
  /\ UNCHANGED <<names, system, registry, pointers, cache, globals, shown,
                 origHandle, origSystem>>

(* g_PhysicsSystem is assigned whether or not the factory has the interface. *)
GetFactory ==
  /\ pc = "factory"
  /\ physicsSystem' \in Answers(scopedModule, "factory")
  /\ pc' = Checked(physicsSystem', "connect")
  /\ workdir' = IF physicsSystem' = NoEngine THEN workdir
             ELSE IF swapName # HAVOK THEN "extensions" ELSE "bin"
  /\ UNCHANGED <<names, modules, registry, pointers, cache, queried, shown,
                 locals, scopedDir>>

BringUp(stage, status, next) ==
  \/ /\ system' = [system EXCEPT ![physicsSystem] = status]
     /\ pc' = next
  \/ /\ Fails(stage)
     /\ pc' = "unwind"
     /\ UNCHANGED system

ConnectSystem ==
  /\ pc = "connect"
  /\ BringUp("connect", "connected", "init")
  /\ UNCHANGED <<names, refs, registry, pointers, cache, globals, shown,
                 locals, dirs>>

InitSystem ==
  /\ pc = "init"
  /\ BringUp("init", "running", "query")
  /\ UNCHANGED <<names, refs, registry, pointers, cache, globals, shown,
                 locals, dirs>>

(* All three interfaces or none: when one is missing the others are cleared. *)
QueryInterfaces ==
  /\ pc = "query"
  /\ queried' \in Answers(physicsSystem, "query")
  /\ pc' = Checked(queried', "fix")
  /\ UNCHANGED <<names, modules, registry, pointers, cache, physicsSystem,
                 shown, locals, dirs>>

(* WorkingDirScope.Done(), then FixAppSystemGroup: each of the two entries is
   replaced when it is found, and the call succeeds only if both were. *)
FixAppSystems ==
  /\ pc = "fix"
  /\ workdir' = RestoredDir
  /\ scopedDir' = NoDir
  /\ groupModule' = IF groupModule = origHandle THEN scopedModule ELSE groupModule
  /\ groupSystem' = IF groupSystem = origSystem THEN physicsSystem ELSE groupSystem
  /\ pc' = IF BothFixed THEN "destroy" ELSE "unwind"
  /\ UNCHANGED <<names, modules, outerSystem, pointers, cache, globals, shown,
                 locals>>

DestroyAllVCollides ==
  /\ pc = "destroy"
  /\ vcollide' = [m \in Models |-> IF m \in Walked THEN NoEngine ELSE vcollide[m]]
  /\ pc' = "retire"
  /\ UNCHANGED <<names, modules, registry, pointers, dict, globals, shown,
                 locals, dirs>>

(* Shutdown and Disconnect of the original system, Sys_UnloadModule of the
   original handle. *)
RetireOriginal ==
  /\ pc = "retire"
  /\ system' = [system EXCEPT ![origSystem] = "raw"]
  /\ refs' = [refs EXCEPT ![origHandle] = @ - 1]
  /\ moduleHandle' = NoEngine
  /\ pc' = "reassign"
  /\ UNCHANGED <<names, registry, pointers, cache, globals, physEngine,
                 locals, dirs>>

ReassignPointers ==
  /\ pc = "reassign"
  /\ holder' = [h \in Holders |-> IF h \in RefHolders THEN queried ELSE holder[h]]
  /\ serverFactory' = PluginFactory
  /\ pc' = "reload"
  /\ UNCHANGED <<names, modules, registry, cache, globals, shown, locals, dirs>>

(* UnserializeVCollide allocates through the model cache's own pointer. *)
LoadAllVCollides ==
  /\ pc = "reload"
  /\ vcollide' = [m \in Models |-> IF m \in Walked
                                    THEN holder["datacacheCollision"]
                                    ELSE vcollide[m]]
  /\ pc' = IF Dedicated THEN "server" ELSE "client"
  /\ UNCHANGED <<names, modules, registry, pointers, dict, globals, shown,
                 locals, dirs>>

InitClient ==
  /\ pc = "client"
  /\ holder' = [holder EXCEPT !["client"] = physicsSystem]
  /\ pc' = "server"
  /\ UNCHANGED <<names, modules, registry, serverFactory, cache, globals,
                 shown, locals, dirs>>

(* CPhysicsHook::Init of the server queries the factory it was given. *)
InitServer ==
  /\ pc = "server"
  /\ holder' = [holder EXCEPT !["server"] = ServerAnswer]
  /\ pc' = "publish"
  /\ UNCHANGED <<names, modules, registry, serverFactory, cache, globals,
                 shown, locals, dirs>>

(* PhysModule.Init, PhysicsHandleScope.Done(), the names; return true. *)
Publish ==
  /\ pc = "publish"
  /\ moduleHandle' = scopedModule
  /\ scopedModule' = NoEngine
  /\ origHandle' = NoEngine
  /\ origSystem' = NoEngine
  /\ engineName' = swapName
  /\ physEngine' = swapName
  /\ pc' = "idle"
  /\ UNCHANGED <<swapName, modules, registry, pointers, cache, globals, dirs>>

(* return false: the destructor of ScopedSysModule_t unloads the new module,
   then the one of ScopedWorkingDir_t restores the directory. *)
Unwind ==
  /\ pc = "unwind"
  /\ refs' = ReleasedRefs
  /\ system' = [e \in Engines |-> IF refs'[e] = 0 THEN "raw" ELSE system[e]]
  /\ workdir' = RestoredDir
  /\ scopedDir' = NoDir
  /\ scopedModule' = NoEngine
  /\ origHandle' = NoEngine
  /\ origSystem' = NoEngine
  /\ pc' = "idle"
  /\ UNCHANGED <<names, registry, pointers, cache, globals, shown>>

SwapStep ==
  \/ FetchOriginal \/ FetchFails \/ FetchCrashes
  \/ LoadModule \/ GetFactory \/ ConnectSystem \/ InitSystem \/ QueryInterfaces
  \/ FixAppSystems \/ DestroyAllVCollides \/ RetireOriginal \/ ReassignPointers
  \/ LoadAllVCollides \/ InitClient \/ InitServer \/ Publish
  \/ Unwind

-------------------------------------------------------------------------------
(* The game between two swaps. *)
CacheModel(m) ==
  /\ pc = "idle"
  /\ m \notin dict
  /\ dict' = dict \cup {m}
  /\ UNCHANGED <<names, modules, registry, pointers, vcollide, globals, shown,
                 locals, dirs, pc>>

UseModel(m) ==
  /\ pc = "idle"
  /\ m \in dict
  /\ vcollide[m] = NoEngine
  /\ vcollide' = [vcollide EXCEPT ![m] = holder["datacacheCollision"]]
  /\ UNCHANGED <<names, modules, registry, pointers, dict, globals, shown,
                 locals, dirs, pc>>

EvictModel(m) ==
  /\ pc = "idle"
  /\ m \in dict
  /\ dict' = dict \ {m}
  /\ vcollide' = [vcollide EXCEPT ![m] = NoEngine]
  /\ UNCHANGED <<names, modules, registry, pointers, globals, shown, locals,
                 dirs, pc>>

GameStep == \E m \in Models : CacheModel(m) \/ UseModel(m) \/ EvictModel(m)

SwapNext ==
  \/ \E e \in Engines : RequestSwap(e)
  \/ SwapStep
  \/ GameStep

SwapSpec == SwapInit /\ [][SwapNext]_swapVars

-------------------------------------------------------------------------------
(* Type invariant. *)
SwapTypeOK ==
  /\ NamesTypeOK
  /\ refs \in [Engines -> Nat]
  /\ system \in [Engines -> {"raw", "connected", "running"}]
  /\ groupModule \in OptionalEngine
  /\ groupSystem \in OptionalEngine
  /\ outerSystem \in {HAVOK, NoEngine}
  /\ holder \in [Holders -> Engines]
  /\ serverFactory \in {HAVOK, PluginFactory}
  /\ dict \subseteq Models
  /\ vcollide \in [Models -> OptionalEngine]
  /\ workdir \in Dirs
  /\ physicsSystem \in OptionalEngine
  /\ queried \in OptionalEngine
  /\ moduleHandle \in OptionalEngine
  /\ physEngine \in OptionalEngine
  /\ pc \in PC
  /\ origHandle \in OptionalEngine
  /\ origSystem \in OptionalEngine
  /\ scopedModule \in OptionalEngine
  /\ scopedDir \in Dirs \cup {NoDir}

(* No step of a swap calls into an engine that is not there: Connect, Init and
   QueryInterface reach a mapped module, the collision data is destroyed and
   loaded by an initialised engine, the engine that is shut down is the one the
   handle to unload belongs to and the one that was running, and the client and
   the server are re-initialised from the new engine only. *)
CallsLive ==
  /\ pc \in {"connect", "init", "query"} =>
       physicsSystem = scopedModule /\ refs[physicsSystem] > 0
  /\ pc \in {"destroy", "reload"} => Live(holder["datacacheCollision"])
  /\ pc = "retire" =>
       origSystem = origHandle /\ origSystem = engineName /\ Live(origSystem)
  /\ pc \in {"client", "server"} =>
       physicsSystem = swapName /\ Live(physicsSystem)

(* Every piece of collision data belongs to a model in the cache, was allocated
   by an engine that is still up, and would be freed through a pointer to that
   same engine (comment at 263: "must flush vcollides first before unloading
   vphysics").  Between the release of the old engine and the reassignment of
   the pointers there must be none. *)
VCollidesOwned ==
  \A m \in Models : vcollide[m] # NoEngine =>
    /\ m \in dict
    /\ vcollide[m] = holder["datacacheCollision"]
    /\ Live(vcollide[m])

(* Whenever the game runs, every cached interface pointer leads to the engine
   the plugin names, which is up and whose handle the module table holds. *)
OneEngineInUse ==
  pc = "idle" =>
    /\ \A h \in Holders : holder[h] = engineName
    /\ Live(engineName)
    /\ moduleHandle = engineName

(* However the last swap ended, the process holds exactly one reference to one
   engine module, and no other engine is left connected. *)
ReferencesBalanced ==
  pc = "idle" => \A e \in Engines :
    /\ refs[e] = (IF e = engineName THEN 1 ELSE 0)
    /\ e # engineName => system[e] = "raw"

(* A group that held both entries of Havok always holds both entries of the
   running engine, and asking it never ends the process.  A group that lacked
   one lets no engine but Havok run: FixAppSystemGroup reports the missing entry
   before anything of Havok has been torn down. *)
RegistryCurrent ==
  /\ pc \in {"idle", "crashed"} =>
       \/ groupModule = engineName /\ groupSystem = engineName
       \/ engineName = HAVOK /\ (groupModule # HAVOK \/ groupSystem # HAVOK)
  /\ pc = "crashed" => groupSystem # engineName
  /\ CompleteGroup => pc # "crashed"

(* The working directory of the process is the game's own whenever the game
   runs, and from the point of no return on (249-250). *)
WorkdirRestored ==
  pc \in {"idle", "destroy", "retire", "reassign", "reload", "client",
          "server", "publish"} => workdir = GameDir /\ scopedDir = NoDir

(* The comment at 249 says that only the errors after it leave no way back.
   Then, whenever the game runs and the server's factory is the plugin's,
   PhysicsQueryInterface must have a live system to ask. *)
FactoryAnswers ==
  pc = "idle" /\ serverFactory = PluginFactory =>
    physicsSystem # NoEngine /\ Live(physicsSystem)

-------------------------------------------------------------------------------
(* Where a swap has got to: the new module is held by PhysicsHandleScope; its
   system has been made, brought up, asked for its interfaces; the old engine
   is still the one in use, or has been unloaded. *)
Unloaded   == {"reassign", "reload", "client", "server", "publish"}
Committed  == {"destroy", "retire"} \cup Unloaded
QueriedAt  == {"fix"} \cup Committed
UpAt       == {"query"} \cup QueriedAt
MadeAt     == {"connect", "init"} \cup UpAt
LoadedAt   == {"factory"} \cup MadeAt
OutsideAt  == {"idle", "fetch", "crashed"}

LocalsInv ==
  /\ pc # "idle" => swapName # engineName
  /\ pc \in ({"load"} \cup LoadedAt) \ Unloaded =>
       origHandle = engineName /\ origSystem = engineName
  /\ pc \in LoadedAt => scopedModule = swapName
  /\ pc \in OutsideAt \cup {"load"} => scopedModule = NoEngine
  /\ pc = "unwind" => scopedModule \in {NoEngine, swapName}
  /\ pc \in MadeAt => physicsSystem = swapName
  /\ pc \in QueriedAt => queried = swapName

(* The running engine and the one being brought up have one reference each. *)
ModulesInv ==
  /\ \A e \in Engines :
       refs[e] = IF e = scopedModule \/ (e = engineName /\ pc \notin Unloaded)
                   THEN 1 ELSE 0
  /\ \A e \in Engines : refs[e] = 0 => system[e] = "raw"
  /\ pc \notin Unloaded => system[engineName] = "running" /\ moduleHandle = engineName
  /\ pc \in UpAt => system[swapName] = "running"

RegistryInv ==
  /\ pc \notin Committed =>
       \/ groupModule = engineName /\ groupSystem = engineName
       \/ engineName = HAVOK /\ (groupModule # HAVOK \/ groupSystem # HAVOK)
            /\ ~CompleteGroup
  /\ pc = "crashed" => groupSystem # engineName
  /\ pc \in Committed => groupModule = swapName /\ groupSystem = swapName

HoldersInv ==
  \A h \in Holders :
    holder[h] = IF \/ pc = "publish"
                   \/ pc \in {"reload", "client", "server"} /\ h \in RefHolders
                   \/ pc = "server" /\ h = "client"
                  THEN swapName ELSE engineName

FactoryInv ==
  pc \in Unloaded \ {"reassign"} => serverFactory = PluginFactory

CacheInv ==
  \A m \in Models : vcollide[m] # NoEngine =>
    /\ m \in dict
    /\ pc \notin {"retire", "reassign", "reload"}
    /\ vcollide[m] = holder["datacacheCollision"]

DirsInv ==
  \/ workdir = GameDir /\ scopedDir = NoDir /\ pc \notin LoadedAt \ Committed
  \/ scopedDir = GameDir /\ pc \in {"unwind"} \cup (LoadedAt \ Committed)

(* What every step of a swap keeps, and what the properties above follow from. *)
SwapInv ==
  /\ SwapTypeOK
  /\ LocalsInv
  /\ ModulesInv
  /\ RegistryInv
  /\ HoldersInv
  /\ FactoryInv
  /\ CacheInv
  /\ DirsInv

===============================================================================
