------------------------------ MODULE PhysSwapper ------------------------------
(***************************************************************************)
(* The plugin in a server: loading and unloading it (LoadPhysSwapper and   *)
(* UnloadPhysSwapper), the call in CGameServer::SpawnServer that it        *)
(* patches, the map loads that reach the patched call, phys_override and   *)
(* the swaps of PhysicsSwap.                                               *)
(*                                                                         *)
(* Everything runs on the server's main thread.  A host (the engine's      *)
(* plugin list or SourceMod) maps the library, calls its load function and *)
(* unmaps it again after a failed load or an unload.  The library is       *)
(* mapped once, whoever maps it: its statics are shared by all hosts that  *)
(* hold it and are fresh only after the last of them let go.               *)
(***************************************************************************)
EXTENDS PhysicsSwap, EngineChoice

CONSTANT Hosts \* those who load the library

VARIABLES
  plugin,     \* plugin[h]: how far host h has loaded the library
  site,       \* the patched call instruction and the byte after it
  saved,      \* g_SpawnServerTrampoline and g_SpawnServerTrampolinePad
  patchAddr,  \* g_SpawnServerPatchAddr is set
  registered, \* the convars and the command are known to the console
  mapFile     \* the file of the map that was loaded last

choice == <<overrideName, reply>>
patch  == <<site, saved, patchAddr>>
pluginVars == <<plugin, patch, registered>>
vars == <<swapVars, choice, pluginVars, mapFile>>

LoadStages == {"interfaces", "modules", "symbols", "patch", "register"}

PluginStates == {"out", "active", "failed", "unloaded"} \cup LoadStages

GameCall == [call |-> "COM_TimestampedLog", pad |-> "rest of the call"]
Hook == [call |-> "COM_TimestampedLog_Wrapper", pad |-> "nop"]
NothingSaved == [call |-> "zero", pad |-> "nop"]

Active == \E h \in Hosts : plugin[h] = "active"

(* No host is loading or unloading. *)
Settled(hosts) == \A h \in hosts : plugin[h] \in {"out", "active"}
Alone(h) == \A o \in Hosts \ {h} : plugin[o] = "out"

(* The main thread is back in the game. *)
GameRuns == pc = "idle" /\ Settled(Hosts)

Moves(h, from, to) ==
  /\ plugin[h] = from
  /\ plugin' = [plugin EXCEPT ![h] = to]

-------------------------------------------------------------------------------
PluginInit ==
  /\ NamesInit
  /\ ProcessInit
  /\ LocalsInit
  /\ ChoiceInit
  /\ physicsSystem = NoEngine
  /\ queried = NoEngine
  /\ moduleHandle = NoEngine
  /\ physEngine = NoEngine
  /\ plugin = [h \in Hosts |-> "out"]
  /\ site = GameCall
  /\ saved = NothingSaved
  /\ patchAddr = FALSE
  /\ registered = FALSE
  /\ mapFile = NoFile

(* The statics of a freshly mapped library. *)
FreshStatics ==
  /\ engineName' = DefaultEngine
  /\ swapName' = DefaultEngine
  /\ overrideName' = NoEngine
  /\ reply' = NoReply
  /\ physicsSystem' = NoEngine
  /\ queried' = NoEngine
  /\ moduleHandle' = NoEngine
  /\ physEngine' = NoEngine
  /\ saved' = NothingSaved
  /\ patchAddr' = FALSE

HostLoads(h) ==
  /\ GameRuns
  /\ Moves(h, "out", "interfaces")
  /\ UNCHANGED <<swapVars, choice, patch, registered>>

FindInterfaces(h) ==
  /\ Moves(h, "interfaces", "modules")
  /\ UNCHANGED <<swapVars, choice, patch, registered>>

(* The lookup of vphysics goes by the name of Havok's file.  As a fault: a
   module that is not found is passed over. *)
AnyVphysics == TRUE
VphysicsMapped == refs[HAVOK] > 0

FindModules(h) ==
  /\ Moves(h, "modules", "symbols")
  /\ VphysicsMapped
  /\ moduleHandle' = HAVOK
  /\ UNCHANGED <<names, modules, registry, pointers, cache, globals, physEngine,
                 locals, dirs, pc, choice, patch, registered>>

(* The engine API, the admin check and everything in the game data. *)
FindSymbols(h) ==
  /\ Moves(h, "symbols", "patch")
  /\ UNCHANGED <<swapVars, choice, patch, registered>>

PatchSpawnServer(h) ==
  /\ Moves(h, "patch", "register")
  /\ patchAddr' = TRUE
  /\ saved' = site
  /\ site' = Hook
  /\ UNCHANGED <<swapVars, choice, registered>>

RegisterConVars(h) ==
  /\ Moves(h, "register", "active")
  /\ registered' = TRUE
  /\ physEngine' = DefaultEngine
  /\ UNCHANGED <<names, modules, registry, pointers, cache, globals,
                 moduleHandle, locals, dirs, pc, choice, patch>>

LoadFails(h) ==
  /\ \E stage \in LoadStages \ {"register"} : Moves(h, stage, "failed")
  /\ UNCHANGED <<swapVars, choice, patch, registered>>

(* Both memory writes that undo the patch.  As a fault: only the first. *)
UnpatchedCall == [site EXCEPT !.call = saved.call]
UnpatchedSite == saved

(* A host may also ask a library that failed to load to unload. *)
UnloadPhysSwapper(h) ==
  /\ pc = "idle"
  /\ Settled(Hosts \ {h})
  /\ \E state \in {"active", "failed"} : Moves(h, state, "unloaded")
  /\ registered' = FALSE
  /\ site' = IF patchAddr THEN UnpatchedSite ELSE site
  /\ UNCHANGED <<swapVars, choice, saved, patchAddr>>

HostUnmaps(h) ==
  /\ \E state \in {"failed", "unloaded"} : Moves(h, state, "out")
  /\ IF Alone(h) THEN FreshStatics
     ELSE UNCHANGED <<names, choice, globals, shown, saved, patchAddr>>
  /\ UNCHANGED <<modules, registry, pointers, cache, locals, dirs, pc, site,
                 registered>>

PluginStep(h) ==
  /\ \/ HostLoads(h) \/ FindInterfaces(h) \/ FindModules(h) \/ FindSymbols(h)
     \/ PatchSpawnServer(h) \/ RegisterConVars(h) \/ LoadFails(h)
     \/ UnloadPhysSwapper(h) \/ HostUnmaps(h)
  /\ UNCHANGED mapFile

-------------------------------------------------------------------------------
(* COM_TimestampedLog_Wrapper, or the log function that the call had before. *)
CallWrapper(f) ==
  \/ \E e \in Engines : NeedsSwapTo(f, e) /\ RequestSwap(e)
  \/ /\ \A e \in Engines : ~NeedsSwapTo(f, e)
     /\ UNCHANGED swapVars

(* What a call into a library that no host holds comes to, and a write outside the
   buffer for the map's file. *)
ProcessEnds ==
  /\ pc' = "crashed"
  /\ UNCHANGED <<names, modules, registry, pointers, cache, globals, shown,
                 locals, dirs>>

MapLoad(f) ==
  /\ GameRuns
  /\ mapFile' = f
  /\ IF site # Hook THEN UNCHANGED swapVars
     ELSE IF Active /\ ~EndStrays(f) THEN CallWrapper(f)
     ELSE ProcessEnds
  /\ UNCHANGED <<choice, pluginVars>>

Command(name) ==
  /\ GameRuns
  /\ registered
  /\ PhysOverride(name)
  /\ UNCHANGED <<modules, registry, pointers, cache, globals, shown, locals,
                 dirs, pc, pluginVars, mapFile>>

(* The convar has no flag that keeps the console from setting it. *)
SetPhysEngine(e) ==
  /\ GameRuns
  /\ registered
  /\ physEngine' = e
  /\ UNCHANGED <<names, modules, registry, pointers, cache, globals,
                 moduleHandle, locals, dirs, pc, choice, pluginVars, mapFile>>

Swap == SwapStep /\ UNCHANGED <<choice, pluginVars, mapFile>>

UseCache == GameRuns /\ GameStep /\ UNCHANGED <<choice, pluginVars, mapFile>>

Next ==
  \/ \E h \in Hosts : PluginStep(h)
  \/ \E f \in Files \cup {NoFile} : MapLoad(f)
  \/ \E name \in Words : Command(name)
  \/ \E e \in Engines : SetPhysEngine(e)
  \/ Swap
  \/ UseCache

Spec == PluginInit /\ [][Next]_vars

(* The main thread finishes what it has begun, and maps follow each other. *)
FairSpec ==
  /\ Spec
  /\ WF_vars(Swap)
  /\ WF_vars(\E f \in Files \cup {NoFile} : MapLoad(f))

-------------------------------------------------------------------------------
(* Type invariant. *)
PluginTypeOK ==
  /\ SwapTypeOK
  /\ ChoiceTypeOK
  /\ plugin \in [Hosts -> PluginStates]
  /\ site \in {GameCall, Hook}
  /\ saved \in {GameCall, Hook, NothingSaved}
  /\ patchAddr \in BOOLEAN
  /\ registered \in BOOLEAN
  /\ mapFile \in Files \cup {NoFile}

(* The process between two swaps, whoever has loaded the plugin: e is up, all
   pointers lead to it, and nothing of another engine is left. *)
AtRest(e) ==
  /\ \A h \in Holders : holder[h] = e
  /\ \A o \in Engines : refs[o] = (IF o = e THEN 1 ELSE 0)
  /\ \A o \in Engines : system[o] = "running" <=> o = e
  /\ \A o \in Engines : system[o] = "raw" <=> o # e
  /\ \/ groupModule = e /\ groupSystem = e
     \/ e = HAVOK /\ (groupModule # HAVOK \/ groupSystem # HAVOK) /\ ~CompleteGroup
  /\ CacheInv
  /\ workdir = GameDir /\ scopedDir = NoDir
  /\ scopedModule = NoEngine

(* The hosts take turns with each other and with the game. *)
TurnsInv ==
  /\ \A g, h \in Hosts : ~Settled({g}) /\ ~Settled({h}) => g = h
  /\ pc # "idle" => Settled(Hosts)
  /\ ~Active => pc \in {"idle", "crashed"}

(* What the library knows of the process: all of it while it is loaded, and only
   then is there a command that changes what it knows; nothing when it has just
   been mapped; and a load that has found vphysics by Havok's name has found the
   engine that runs. *)
StaticsInv ==
  /\ registered => Active
  /\ Active => SwapInv
  /\ ~Active => AtRest(holder["server"])
  /\ Active \/ (\E h \in Hosts : plugin[h] \in {"failed", "unloaded"})
       \/ (engineName = DefaultEngine /\ overrideName = NoEngine)
  /\ \A h \in Hosts : plugin[h] \in {"symbols", "patch", "register"} =>
       holder["server"] = HAVOK /\ moduleHandle = HAVOK

(* What every step keeps, whatever the number of hosts. *)
PluginInv ==
  /\ PluginTypeOK
  /\ patchAddr => saved # NothingSaved
  /\ TurnsInv
  /\ StaticsInv

(* With one host: how far it has got decides what it has left in the game. *)
OneHostOnly == \E h : Hosts = {h}

(* The call, the saved bytes and the convars of the only host, at each stage. *)
FootprintInv ==
  \A h \in Hosts :
    /\ site = (IF plugin[h] \in {"register", "active"} THEN Hook ELSE GameCall)
    /\ plugin[h] \in {"register", "active"} => patchAddr
    /\ patchAddr => plugin[h] \in {"register", "active", "unloaded"}
    /\ saved = (IF patchAddr THEN GameCall ELSE NothingSaved)
    /\ registered <=> plugin[h] = "active"

(* With one host: whenever the game runs, the call in SpawnServer and the
   convars tell whether the plugin is there; no map load calls into a library
   that is gone, and nothing but whole instructions is left behind, whatever
   loads failed before. *)
FootprintExact ==
  GameRuns =>
    /\ site = (IF Active THEN Hook ELSE GameCall)
    /\ registered <=> Active

(* Also across unloads, failed loads and reloads, all of the game uses one
   engine, the only one that is mapped, and a loaded plugin knows which. *)
OneEngineServed ==
  pc = "idle" => \E e \in Engines :
    /\ \A h \in Holders : holder[h] = e
    /\ \A o \in Engines : refs[o] = (IF o = e THEN 1 ELSE 0)
    /\ Live(e)
    /\ Active => engineName = e /\ moduleHandle = e

(* The warning at 822: once the plugin is gone while another engine than the
   default runs, nothing reverts it, and the plugin does not load again. *)
StuckUntilRestart ==
  [][~Active /\ holder["server"] # DefaultEngine =>
       ~Active' /\ UNCHANGED holder]_vars

(* An override for an engine that can be brought up takes effect, whatever the
   map files ask for, unless it is replaced or the plugin is unloaded. *)
OverrideTakesEffect ==
  \A e \in Engines : ({e} \X Stages) \cap CanFail = {} =>
    (Active /\ overrideName = e
       ~> engineName = e \/ overrideName # e \/ ~Active)

(* README: "Inside the file should be a single line of text stating which physics
   engine to use": the engine that file f states, whatever the code makes of it. *)
StatedBy(f) == IF f # NoFile /\ f.word \in Engines THEN f.word ELSE NoEngine

(* The files that the code understands in the README's sense: see EndedLineHeeded. *)
LinesNotEnded == \A f \in Files : f.word \in Engines => ~f.lineEnd

(* The plugin keeps the promise of EngineService, where the engine that a file
   states is what the README says. *)
Service == INSTANCE EngineService WITH
  Default <- DefaultEngine,
  None <- NoEngine,
  map <- mapFile,
  Files <- Files \cup {NoFile},
  Stated <- [f \in Files \cup {NoFile} |-> StatedBy(f)],
  attached <- Active,
  active <- IF Active THEN engineName ELSE holder["server"],
  override <- IF Active THEN overrideName ELSE NoEngine,
  target <- IF pc = "idle" THEN NoEngine ELSE swapName

ImplementsService == Service!ServiceSpec

(* README: "if it returns null the plugin is not loaded".  Then, as long as a
   host holds the plugin, the convars are there, whatever another host does. *)
NullMeansNotLoaded == GameRuns /\ ~registered => ~Active

(* README: "If the file exists, the physics engine will be swapped to the one
   stated".  Then, without an override, a map load begins a swap to the engine that
   the file states, unless it runs. *)
EndedLineHeeded ==
  [][\A f \in Files :
       MapLoad(f) /\ Active /\ overrideName = NoEngine /\ StatedBy(f) # NoEngine =>
         IF StatedBy(f) = engineName THEN pc' = "idle"
         ELSE pc' = "fetch" /\ swapName' = StatedBy(f)]_vars

(* README: an override "can be reverted back to Havok afterwards".  Then, once
   phys_override havok was the last command, no override starts a swap away from
   Havok. *)
OverrideReverts ==
  [][pc = "idle" /\ pc' = "fetch" /\ overrideName # NoEngine
       /\ reply.name = HAVOK => swapName' = HAVOK]_vars
===============================================================================
