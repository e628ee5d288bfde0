-------------------------- MODULE PhysSwapper_proofs --------------------------
(***************************************************************************)
(* The composition, for any number of hosts, engines, models and files:    *)
(* PluginInv is inductive, and what follows from it.  For a single host:   *)
(* what the plugin leaves behind in the game, and that it keeps the        *)
(* promise of EngineService.                                               *)
(***************************************************************************)
EXTENDS PhysSwapper, PhysicsSwap_proofs

-------------------------------------------------------------------------------
(* Of no file that is read does the terminator lie outside the buffer (536-540). *)
LEMMA EndNeverStrays == \A f \in Files \cup {NoFile} : ~EndStrays(f)
BY ChoiceAssumption DEF EndStrays, Fits, MaxSize

(* Between the invariant of a swap and the process at rest.  First: the server
   has one of the interface pointers. *)
LEMMA ServerHolds == SwapTypeOK => holder["server"] \in Engines
BY HolderFacts DEF SwapTypeOK

(* After a swap the process is at rest on the engine the plugin names. *)
LEMMA SwapLeavesRest ==
  ASSUME SwapInv, pc = "idle"
  PROVE  /\ holder["server"] = engineName
         /\ AtRest(holder["server"])
         /\ moduleHandle = engineName
<1> USE DEF SwapInv
<1>1. \A h \in Holders : holder[h] = engineName
  BY DEF HoldersInv
<1>2. holder["server"] = engineName
  BY <1>1, HolderFacts
<1>3. scopedModule = NoEngine
  BY DEF LocalsInv, OutsideAt
<1>4. /\ \A o \in Engines : refs[o] = (IF o = engineName THEN 1 ELSE 0)
      /\ \A o \in Engines : o # engineName => system[o] = "raw"
      /\ system[engineName] = "running"
      /\ moduleHandle = engineName
  BY <1>3, EnginesAssumption DEF ModulesInv, Unloaded
<1>5. \/ groupModule = engineName /\ groupSystem = engineName
      \/ engineName = HAVOK /\ (groupModule # HAVOK \/ groupSystem # HAVOK)
           /\ ~CompleteGroup
  BY DEF RegistryInv, Committed, Unloaded
<1>6. workdir = GameDir /\ scopedDir = NoDir
  BY DEF DirsInv, LoadedAt, MadeAt, UpAt, QueriedAt, Committed, Unloaded
<1> QED
  BY <1>1, <1>2, <1>3, <1>4, <1>5, <1>6 DEF AtRest

(* A process at rest on the engine the plugin names is one that a swap may begin
   from. *)
LEMMA RestAllowsSwap ==
  SwapTypeOK /\ pc = "idle" /\ AtRest(engineName) /\ moduleHandle = engineName
    => SwapInv
<1> SUFFICES ASSUME SwapTypeOK, pc = "idle", AtRest(engineName),
                    moduleHandle = engineName
             PROVE  SwapInv
  OBVIOUS
<1> USE EnginesAssumption DEF AtRest, SwapTypeOK, NamesTypeOK, OutsideAt, LoadedAt,
        MadeAt, UpAt, QueriedAt, Committed, Unloaded
<1>1. LocalsInv /\ FactoryInv /\ DirsInv
  BY DEF LocalsInv, FactoryInv, DirsInv
<1>2. ModulesInv
  BY DEF ModulesInv
<1>3. RegistryInv /\ HoldersInv
  BY DEF RegistryInv, HoldersInv
<1> QED
  BY <1>1, <1>2, <1>3 DEF SwapInv

(* Only the engine that runs is mapped: a lookup by Havok's name finds Havok
   running or nothing. *)
LEMMA MappedIsRunning ==
  ASSUME NEW e \in Engines, AtRest(e), VphysicsMapped
  PROVE  e = HAVOK
BY EnginesAssumption DEF AtRest, VphysicsMapped

(* Rest is a matter of the process alone, whatever the library's statics. *)
LEMMA RestKept ==
  ASSUME AtRest(holder["server"]),
         UNCHANGED <<modules, registry, pointers, cache, scopedModule, dirs>>,
         pc' \in {"idle", "crashed"}
  PROVE  AtRest(holder["server"])'
BY DEF AtRest, CacheInv, modules, registry, pointers, cache, dirs

(* The game's own steps keep the process at rest. *)
LEMMA GameKeepsRest ==
  ASSUME SwapTypeOK, AtRest(holder["server"]), GameStep
  PROVE  SwapTypeOK' /\ AtRest(holder["server"])'
<1> USE EnginesAssumption DEF SwapTypeOK, NamesTypeOK, OptionalEngine, AtRest,
        CacheInv, names, modules, registry, pointers, cache, globals, shown,
        locals, dirs
<1>1. holder["datacacheCollision"] \in Engines
  BY HolderFacts
<1>2. PICK m \in Models : CacheModel(m) \/ UseModel(m) \/ EvictModel(m)
  BY DEF GameStep
<1>3. CASE CacheModel(m)
  BY <1>3 DEF CacheModel
<1>4. CASE UseModel(m)
  BY <1>1, <1>4 DEF UseModel
<1>5. CASE EvictModel(m)
  BY <1>5 DEF EvictModel
<1> QED
  BY <1>2, <1>3, <1>4, <1>5

(* A swap does not read the convar's value. *)
LEMMA ConVarIsFree ==
  ASSUME SwapInv, physEngine' \in OptionalEngine,
         UNCHANGED <<names, modules, registry, pointers, cache, globals,
                     moduleHandle, locals, dirs, pc>>
  PROVE  SwapInv'
<1> USE DEF names, modules, registry, pointers, cache, globals, locals, dirs
<1>1. SwapTypeOK' /\ LocalsInv'
  BY DEF SwapInv, SwapTypeOK, NamesTypeOK, LocalsInv
<1>2. ModulesInv' /\ RegistryInv' /\ HoldersInv'
  BY DEF SwapInv, ModulesInv, RegistryInv, HoldersInv
<1>3. FactoryInv' /\ CacheInv' /\ DirsInv'
  BY DEF SwapInv, FactoryInv, CacheInv, DirsInv
<1> QED
  BY <1>1, <1>2, <1>3 DEF SwapInv

-------------------------------------------------------------------------------
(* The invariant holds of the process the first host finds. *)
LEMMA PluginInvInit == PluginInit => PluginInv
<1> SUFFICES ASSUME PluginInit PROVE PluginInv
  OBVIOUS
<1> USE SwapAssumption, ChoiceAssumption, EnginesAssumption
    DEF PluginInit, ProcessInit, LocalsInit, NamesInit, ChoiceInit,
        DefaultEngine, OptionalEngine
<1>1. PluginTypeOK
  <2>1. SwapTypeOK
    BY DEF SwapTypeOK, NamesTypeOK, PC, Dirs, GameDir, NoDir
  <2>2. ChoiceTypeOK
    BY DEF ChoiceTypeOK, Replies, NoReply
  <2> QED
    BY <2>1, <2>2 DEF PluginTypeOK, PluginStates
<1>2. ~Active /\ Settled(Hosts) /\ \A h \in Hosts : plugin[h] = "out"
  BY DEF Active, Settled
<1>3. TurnsInv
  BY <1>2 DEF TurnsInv, Settled
<1>4. AtRest(holder["server"])
  BY HolderFacts DEF AtRest, CacheInv
<1>5. holder["server"] = HAVOK
  BY HolderFacts
<1>6. StaticsInv
  BY <1>2, <1>4 DEF StaticsInv
<1> QED
  BY <1>1, <1>3, <1>6 DEF PluginInv

(* A host that is loading or unloading has the main thread for itself. *)
LEMMA HostHasTurn ==
  ASSUME PluginInv, NEW h \in Hosts, PluginStep(h)
  PROVE  /\ pc = "idle" /\ pc' = "idle"
         /\ Settled(Hosts \ {h})
         /\ plugin' \in [Hosts -> PluginStates]
         /\ \A g \in Hosts \ {h} : plugin'[g] = plugin[g]
         /\ TurnsInv'
<1> USE DEF PluginInv, PluginTypeOK, SwapTypeOK
<1>1. pc' = pc
  BY DEF PluginStep, HostLoads, FindInterfaces, FindModules, FindSymbols,
         PatchSpawnServer, RegisterConVars, LoadFails, UnloadPhysSwapper,
         HostUnmaps, swapVars, locals
<1>2. \E from, to \in PluginStates : Moves(h, from, to)
  BY DEF PluginStep, HostLoads, FindInterfaces, FindModules, FindSymbols,
         PatchSpawnServer, RegisterConVars, LoadFails, UnloadPhysSwapper,
         HostUnmaps, PluginStates, LoadStages
<1>3. /\ plugin' \in [Hosts -> PluginStates]
      /\ \A g \in Hosts \ {h} : plugin'[g] = plugin[g]
  BY <1>2 DEF Moves
<1>4. pc = "idle" /\ Settled(Hosts \ {h})
  <2>1. CASE HostLoads(h) \/ UnloadPhysSwapper(h)
    BY <2>1 DEF HostLoads, UnloadPhysSwapper, GameRuns, Settled
  <2>2. CASE ~(HostLoads(h) \/ UnloadPhysSwapper(h))
    <3>1. plugin[h] \notin {"out", "active"}
      BY <2>2 DEF PluginStep, FindInterfaces, FindModules, FindSymbols,
         PatchSpawnServer, RegisterConVars, LoadFails, HostUnmaps, Moves, LoadStages
    <3>2. \A g \in Hosts \ {h} : plugin[g] \in {"out", "active"}
      BY <3>1 DEF TurnsInv, Settled
    <3> QED
      BY <3>1, <3>2 DEF TurnsInv, Settled
  <2> QED
    BY <2>1, <2>2
<1>5. TurnsInv'
  BY <1>1, <1>3, <1>4 DEF TurnsInv, Settled
<1> QED
  BY <1>1, <1>3, <1>4, <1>5

(* What is saved from the game's code tells that something was saved. *)
LEMMA CallsDiffer ==
  /\ GameCall # NothingSaved
  /\ Hook # NothingSaved
  /\ Hook # GameCall
<1>1. GameCall.call = "COM_TimestampedLog" /\ NothingSaved.call = "zero"
      /\ Hook.call = "COM_TimestampedLog_Wrapper"
  BY DEF GameCall, NothingSaved, Hook
<1> QED
  BY <1>1

(* The steps of a load, of an unload and of a refused load. *)
LEMMA HostKeepsInv ==
  ASSUME PluginInv, NEW h \in Hosts, PluginStep(h)
  PROVE  PluginInv'
<1> USE EnginesAssumption, SwapAssumption DEF PluginInv
<1>1. /\ pc = "idle" /\ pc' = "idle"
      /\ plugin' \in [Hosts -> PluginStates]
      /\ \A g \in Hosts \ {h} : plugin'[g] = plugin[g] /\ plugin[g] \in {"out", "active"}
      /\ TurnsInv'
  BY HostHasTurn DEF Settled
<1>2. mapFile' \in Files \cup {NoFile}
  BY DEF PluginStep, PluginTypeOK
<1>3. CASE HostLoads(h) \/ FindInterfaces(h) \/ FindSymbols(h) \/ LoadFails(h)
  <2> UNCHANGED <<swapVars, choice, patch, registered>>
    BY <1>3 DEF HostLoads, FindInterfaces, FindSymbols, LoadFails
  <2> /\ plugin[h] \notin {"active", "failed", "unloaded"}
      /\ plugin'[h] \notin {"active", "register"}
      /\ plugin[h] = "out" => plugin'[h] = "interfaces"
      /\ plugin'[h] \in {"symbols", "patch"} => plugin[h] = "symbols"
    BY <1>3 DEF HostLoads, FindInterfaces, FindSymbols, LoadFails, Moves,
                LoadStages, PluginTypeOK
  <2>1. PluginTypeOK' /\ (patchAddr' => saved' # NothingSaved)
    BY <1>1, <1>2
    DEF PluginTypeOK, SwapTypeOK, NamesTypeOK, ChoiceTypeOK, swapVars, names,
        modules, registry, pointers, cache, globals, shown, locals, dirs,
        choice, patch
  <2>2. Active' <=> Active
    BY <1>1 DEF Active
  <2>3. Active => SwapInv'
    BY SwapInvStep DEF StaticsInv
  <2>4. ~Active => AtRest(holder["server"])'
    BY <1>1, RestKept DEF StaticsInv, swapVars, locals
  <2>5. StaticsInv'
    BY <1>1, <2>2, <2>3, <2>4
    DEF StaticsInv, swapVars, names, pointers, shown, choice
  <2> QED
    BY <1>1, <2>1, <2>5
<1>4. CASE FindModules(h)
  <2>1. PluginTypeOK' /\ (patchAddr' => saved' # NothingSaved)
    BY <1>1, <1>2, <1>4
    DEF FindModules, PluginTypeOK, SwapTypeOK, NamesTypeOK, ChoiceTypeOK,
        OptionalEngine, names, modules, registry, pointers, cache, globals,
        locals, dirs, choice, patch
  <2>2. Active' <=> Active
    BY <1>1, <1>4 DEF FindModules, Active, Moves, PluginTypeOK
  <2>3. AtRest(holder["server"]) /\ (Active => engineName = holder["server"])
    BY <1>1, SwapLeavesRest DEF StaticsInv
  <2>4. holder["server"] = HAVOK
    BY <1>4, <2>3, MappedIsRunning, ServerHolds DEF FindModules, PluginTypeOK
  <2>5. AtRest(holder["server"])'
    BY <1>1, <1>4, <2>3, RestKept DEF FindModules, locals
  <2>6. Active => SwapInv'
    <3> SUFFICES ASSUME Active PROVE SwapInv'
      OBVIOUS
    <3>1. engineName' = HAVOK /\ moduleHandle' = HAVOK /\ holder'["server"] = HAVOK
      BY <1>4, <2>3, <2>4 DEF FindModules, names, pointers
    <3>2. SwapTypeOK' /\ AtRest(engineName)'
      BY <2>1, <2>5, <3>1 DEF PluginTypeOK, AtRest
    <3>3. (SwapTypeOK /\ pc = "idle" /\ AtRest(engineName) /\ moduleHandle = engineName)'
            => SwapInv'
      BY RestAllowsSwap, PTL
    <3> QED
      BY <1>1, <3>1, <3>2, <3>3
  <2>7. StaticsInv'
    BY <1>1, <1>4, <2>2, <2>4, <2>5, <2>6
    DEF FindModules, StaticsInv, Moves, PluginTypeOK, names, pointers, choice
  <2> QED
    BY <1>1, <2>1, <2>7
<1>5. CASE PatchSpawnServer(h)
  <2>1. PluginTypeOK' /\ (patchAddr' => saved' # NothingSaved)
    BY <1>1, <1>2, <1>5, CallsDiffer
    DEF PatchSpawnServer, PluginTypeOK, SwapTypeOK, NamesTypeOK, ChoiceTypeOK,
        swapVars, names, modules, registry, pointers, cache, globals, shown,
        locals, dirs, choice
  <2>2. Active' <=> Active
    BY <1>1, <1>5 DEF PatchSpawnServer, Active, Moves, PluginTypeOK
  <2>3. (Active => SwapInv') /\ (~Active => AtRest(holder["server"])')
    BY <1>1, <1>5, SwapInvStep, RestKept
    DEF PatchSpawnServer, StaticsInv, swapVars, locals
  <2>4. StaticsInv'
    BY <1>1, <1>5, <2>2, <2>3
    DEF PatchSpawnServer, StaticsInv, Moves, PluginTypeOK, swapVars, names,
        pointers, shown, choice
  <2> QED
    BY <1>1, <2>1, <2>4
<1>6. CASE RegisterConVars(h)
  <2>1. PluginTypeOK' /\ (patchAddr' => saved' # NothingSaved)
    BY <1>1, <1>2, <1>6
    DEF RegisterConVars, PluginTypeOK, SwapTypeOK, NamesTypeOK, ChoiceTypeOK,
        OptionalEngine, DefaultEngine, names, modules, registry, pointers,
        cache, globals, locals, dirs, choice, patch
  <2>2. Active'
    BY <1>1, <1>6 DEF RegisterConVars, Active, Moves, PluginTypeOK
  <2>3. AtRest(holder["server"]) /\ (Active => engineName = holder["server"])
    BY <1>1, SwapLeavesRest DEF StaticsInv
  <2>4. AtRest(holder["server"])'
    BY <1>1, <1>6, <2>3, RestKept DEF RegisterConVars, locals
  <2>5. /\ engineName' = HAVOK /\ moduleHandle' = HAVOK
        /\ holder'["server"] = HAVOK
    <3>1. holder["server"] = HAVOK /\ moduleHandle = HAVOK /\ plugin[h] = "register"
      BY <1>6 DEF RegisterConVars, StaticsInv, Moves
    <3>2. engineName = HAVOK
      BY <1>1, <2>3, <3>1 DEF StaticsInv, DefaultEngine
    <3> QED
      BY <1>6, <3>1, <3>2 DEF RegisterConVars, names, pointers
  <2>6. SwapInv'
    <3>1. SwapTypeOK' /\ AtRest(engineName)'
      BY <2>1, <2>4, <2>5 DEF PluginTypeOK, AtRest
    <3>2. (SwapTypeOK /\ pc = "idle" /\ AtRest(engineName) /\ moduleHandle = engineName)'
            => SwapInv'
      BY RestAllowsSwap, PTL
    <3> QED
      BY <1>1, <2>5, <3>1, <3>2
  <2>7. StaticsInv'
    BY <1>1, <1>6, <2>2, <2>5, <2>6
    DEF RegisterConVars, StaticsInv, Moves, PluginTypeOK
  <2> QED
    BY <1>1, <2>1, <2>7
<1>7. CASE UnloadPhysSwapper(h)
  <2>1. PluginTypeOK' /\ (patchAddr' => saved' # NothingSaved)
    BY <1>1, <1>2, <1>7
    DEF UnloadPhysSwapper, UnpatchedSite, PluginTypeOK, SwapTypeOK, NamesTypeOK,
        ChoiceTypeOK, swapVars, names, modules, registry, pointers, cache,
        globals, shown, locals, dirs, choice
  <2>2. plugin'[h] = "unloaded" /\ (Active' => Active)
    BY <1>1, <1>7 DEF UnloadPhysSwapper, Active, Moves, PluginTypeOK
  <2>3. AtRest(holder["server"])
    BY <1>1, SwapLeavesRest DEF StaticsInv
  <2>4. AtRest(holder["server"])'
    BY <1>1, <1>7, <2>3, RestKept DEF UnloadPhysSwapper, swapVars, locals
  <2>5. Active => SwapInv'
    BY <1>7, SwapInvStep DEF UnloadPhysSwapper, StaticsInv
  <2>6. registered' = FALSE
    BY <1>7 DEF UnloadPhysSwapper
  <2>7. StaticsInv'
    BY <1>1, <2>2, <2>4, <2>5, <2>6 DEF StaticsInv
  <2> QED
    BY <1>1, <2>1, <2>7
<1>8. CASE HostUnmaps(h)
  <2>1. plugin'[h] = "out" /\ (~Active' => Alone(h))
    BY <1>1, <1>8 DEF HostUnmaps, Moves, PluginTypeOK, Active, Alone
  <2>2. Active' <=> Active
    BY <1>1, <1>8 DEF HostUnmaps, Moves, PluginTypeOK, Active
  <2>3. AtRest(holder["server"])'
    BY <1>1, <1>8, SwapLeavesRest, RestKept DEF HostUnmaps, StaticsInv, locals
  <2>4. CASE Alone(h)
    <3> FreshStatics
      BY <1>8, <2>4 DEF HostUnmaps
    <3> UNCHANGED <<modules, registry, pointers, cache, locals, dirs, pc, site,
                    registered>>
      BY <1>8 DEF HostUnmaps
    <3>1. ChoiceTypeOK' /\ SwapTypeOK'
      BY DEF FreshStatics, PluginTypeOK, SwapTypeOK, NamesTypeOK, ChoiceTypeOK,
         OptionalEngine, DefaultEngine, Replies, NoReply, modules, registry,
         pointers, cache, locals, dirs
    <3>2. PluginTypeOK' /\ (patchAddr' => saved' # NothingSaved)
      BY <1>1, <1>2, <3>1 DEF FreshStatics, PluginTypeOK
    <3>3. ~Active' /\ \A g \in Hosts : plugin'[g] = "out"
      BY <1>1, <2>1, <2>4 DEF Active, Alone
    <3>4. StaticsInv'
      BY <2>2, <2>3, <3>3 DEF FreshStatics, StaticsInv
    <3> QED
      BY <1>1, <3>2, <3>4
  <2>5. CASE ~Alone(h)
    <3> UNCHANGED swapVars
      BY <1>8, <2>5 DEF HostUnmaps, swapVars
    <3>1. PluginTypeOK' /\ (patchAddr' => saved' # NothingSaved)
      BY <1>1, <1>2, <1>8, <2>5
      DEF HostUnmaps, PluginTypeOK, SwapTypeOK, NamesTypeOK, ChoiceTypeOK, choice,
          swapVars, names, modules, registry, pointers, cache, globals, shown,
          locals, dirs
    <3>2. Active /\ Active' /\ SwapInv'
      BY <2>1, <2>2, <2>5, SwapInvStep DEF StaticsInv
    <3>3. StaticsInv'
      BY <1>1, <2>1, <3>2 DEF StaticsInv, swapVars, pointers, shown
    <3> QED
      BY <1>1, <3>1, <3>3
  <2> QED
    BY <2>4, <2>5
<1> QED
  BY <1>3, <1>4, <1>5, <1>6, <1>7, <1>8 DEF PluginStep

(* The steps of the game and of a swap. *)
LEMMA GameKeepsInv ==
  ASSUME PluginInv, [Next]_vars, ~\E h \in Hosts : PluginStep(h)
  PROVE  PluginInv'
<1> USE EnginesAssumption, ChoiceAssumption DEF PluginInv
<1>1. UNCHANGED pluginVars
  BY DEF Next, vars, MapLoad, Command, SetPhysEngine, Swap, UseCache
<1>2. UNCHANGED <<plugin, site, saved, patchAddr, registered>> /\ (Active' <=> Active)
  BY <1>1 DEF pluginVars, patch, Active
<1>3. ASSUME SwapTypeOK', ChoiceTypeOK', mapFile' \in Files \cup {NoFile},
             Active => SwapInv',
             ~Active => AtRest(holder["server"])' /\ pc' \in {"idle", "crashed"},
             pc' # "idle" => Settled(Hosts),
             ~Settled(Hosts) => holder'["server"] = holder["server"]
                                  /\ moduleHandle' = moduleHandle,
             ~Active => UNCHANGED <<engineName, overrideName>>
      PROVE  PluginInv'
  <2>1. PluginTypeOK' /\ (patchAddr' => saved' # NothingSaved)
    BY <1>2, <1>3 DEF PluginTypeOK
  <2>2. TurnsInv'
    BY <1>2, <1>3 DEF TurnsInv, Settled
  <2>3. StaticsInv'
    BY <1>2, <1>3 DEF StaticsInv, Settled
  <2> QED
    BY <2>1, <2>2, <2>3
<1>4. SwapTypeOK /\ ChoiceTypeOK /\ mapFile \in Files \cup {NoFile}
  BY DEF PluginTypeOK
<1>5. ASSUME NEW f \in Files \cup {NoFile}, MapLoad(f) PROVE PluginInv'
  <2>1. /\ pc = "idle" /\ Settled(Hosts)
        /\ mapFile' = f /\ UNCHANGED <<overrideName, reply>>
    BY <1>5 DEF MapLoad, GameRuns, choice
  <2>2. ChoiceTypeOK'
    BY <1>4, <2>1 DEF ChoiceTypeOK
  <2>3. CASE UNCHANGED swapVars
    <3>1. SwapTypeOK'
      BY <1>4, <2>3
      DEF SwapTypeOK, NamesTypeOK, swapVars, names, modules, registry, pointers,
          cache, globals, shown, locals, dirs
    <3>2. Active => SwapInv'
      BY <2>3, SwapInvStep DEF StaticsInv
    <3>3. ~Active => AtRest(holder["server"])'
      BY <2>1, <2>3, RestKept DEF StaticsInv, swapVars, locals
    <3>4. pc' = "idle" /\ engineName' = engineName
      BY <2>1, <2>3 DEF swapVars, names
    <3> QED
      BY <1>3, <2>1, <2>2, <3>1, <3>2, <3>3, <3>4
  <2>4. CASE Active /\ \E e \in Engines : RequestSwap(e)
    <3>1. SwapInv'
      BY <2>4, SwapInvStep DEF StaticsInv, SwapNext
    <3>2. SwapTypeOK'
      BY <3>1 DEF SwapInv
    <3> QED
      BY <1>3, <2>1, <2>2, <2>4, <3>1, <3>2
  <2>5. CASE ~Active /\ ProcessEnds
    <3>1. SwapTypeOK'
      BY <1>4, <2>5
      DEF ProcessEnds, SwapTypeOK, NamesTypeOK, PC, names, modules, registry,
          pointers, cache, globals, shown, locals, dirs
    <3>2. AtRest(holder["server"])'
      BY <2>5, RestKept DEF ProcessEnds, StaticsInv, locals
    <3>3. pc' = "crashed" /\ engineName' = engineName
      BY <2>5 DEF ProcessEnds, names
    <3> QED
      BY <1>3, <2>1, <2>2, <2>5, <3>1, <3>2, <3>3
  <2> QED
    BY <1>5, <2>3, <2>4, <2>5, EndNeverStrays DEF MapLoad, CallWrapper
<1>6. ASSUME NEW name \in Words, Command(name) PROVE PluginInv'
  <2>1. UNCHANGED <<swapVars, mapFile>> /\ GameRuns /\ Active
    BY <1>6 DEF Command, PhysOverride, StaticsInv, swapVars, names
  <2>2. ChoiceTypeOK'
    BY <1>4, <1>6 DEF Command, PhysOverride, NameActive, SetOverride, RejectName,
       ChoiceTypeOK, Replies, OptionalEngine, Words
  <2>3. SwapInv'
    BY <2>1, SwapInvStep DEF StaticsInv
  <2>4. SwapTypeOK' /\ pc' = "idle"
    BY <2>1, <2>3 DEF SwapInv, GameRuns, swapVars
  <2> QED
    BY <1>3, <1>4, <2>1, <2>2, <2>3, <2>4 DEF GameRuns
<1>7. ASSUME NEW e \in Engines, SetPhysEngine(e) PROVE PluginInv'
  <2>1. GameRuns /\ Active /\ UNCHANGED <<overrideName, reply, mapFile, pc>>
    BY <1>7 DEF SetPhysEngine, StaticsInv, choice
  <2>2. SwapInv'
    BY <1>7, <2>1, ConVarIsFree DEF SetPhysEngine, StaticsInv, OptionalEngine
  <2>3. SwapTypeOK' /\ ChoiceTypeOK' /\ pc' = "idle"
    BY <1>4, <2>1, <2>2 DEF SwapInv, ChoiceTypeOK, GameRuns
  <2> QED
    BY <1>3, <1>4, <2>1, <2>2, <2>3 DEF GameRuns
<1>8. CASE Swap
  <2>1. pc # "idle" /\ pc # "crashed"
    BY <1>8 DEF Swap, SwapStep, FetchOriginal, FetchFails, FetchCrashes, LoadModule,
       GetFactory, ConnectSystem, InitSystem, QueryInterfaces, FixAppSystems,
       DestroyAllVCollides, RetireOriginal, ReassignPointers, LoadAllVCollides,
       InitClient, InitServer, Publish, Unwind
  <2>2. Active /\ Settled(Hosts) /\ UNCHANGED <<overrideName, reply, mapFile>>
    BY <1>8, <2>1 DEF TurnsInv, Swap, choice
  <2>3. SwapInv'
    BY <1>8, <2>2, SwapInvStep DEF Swap, StaticsInv, SwapNext
  <2>4. SwapTypeOK' /\ ChoiceTypeOK'
    BY <1>4, <2>2, <2>3 DEF SwapInv, ChoiceTypeOK
  <2> QED
    BY <1>3, <1>4, <2>2, <2>3, <2>4
<1>9. CASE UseCache
  <2>1. GameRuns /\ UNCHANGED <<overrideName, reply, mapFile, engineName, pc>>
    BY <1>9 DEF UseCache, GameStep, CacheModel, UseModel, EvictModel, choice, names
  <2>2. Active => SwapInv'
    BY <1>9, SwapInvStep DEF UseCache, StaticsInv, SwapNext
  <2>3. ~Active => AtRest(holder["server"])'
    BY <1>4, <1>9, GameKeepsRest DEF UseCache, StaticsInv
  <2>4. SwapTypeOK'
    BY <1>4, <1>9, <2>2, GameKeepsRest DEF UseCache, StaticsInv, SwapInv
  <2>5. ChoiceTypeOK' /\ pc' = "idle"
    BY <1>4, <2>1 DEF ChoiceTypeOK, GameRuns
  <2> QED
    BY <1>3, <1>4, <2>1, <2>2, <2>3, <2>4, <2>5 DEF GameRuns
<1>10. CASE UNCHANGED vars
  <2>1. UNCHANGED <<swapVars, overrideName, reply, mapFile>>
    BY <1>10 DEF vars, choice
  <2>2. SwapTypeOK' /\ ChoiceTypeOK'
    BY <1>4, <2>1
    DEF SwapTypeOK, NamesTypeOK, ChoiceTypeOK, swapVars, names, modules, registry,
        pointers, cache, globals, shown, locals, dirs
  <2>3. Active => SwapInv'
    BY <2>1, SwapInvStep DEF StaticsInv
  <2>4. ~Active => AtRest(holder["server"])' /\ pc' \in {"idle", "crashed"}
    BY <2>1, RestKept DEF StaticsInv, TurnsInv, swapVars, locals
  <2>5. (pc' # "idle" => Settled(Hosts)) /\ UNCHANGED <<engineName, moduleHandle, holder>>
    BY <2>1 DEF TurnsInv, swapVars, names, shown, pointers
  <2> QED
    BY <1>3, <1>4, <2>1, <2>2, <2>3, <2>4, <2>5
<1> QED
  BY <1>5, <1>6, <1>7, <1>8, <1>9, <1>10 DEF Next

(* The inductive invariant holds in every behaviour of the composition, whatever
   the number of hosts, with a complete group or not. *)
THEOREM PluginInvariant == Spec => []PluginInv
<1>1. PluginInit => PluginInv
  BY PluginInvInit
<1>2. PluginInv /\ [Next]_vars => PluginInv'
  BY HostKeepsInv, GameKeepsInv
<1> QED
  BY <1>1, <1>2, PTL DEF Spec

(* Type correctness of the whole. *)
THEOREM PluginTypeCorrect == Spec => []PluginTypeOK
<1>1. PluginInv => PluginTypeOK
  BY DEF PluginInv
<1> QED
  BY <1>1, PluginInvariant, PTL

(* Across loads, refused loads, unloads and swaps all of the game uses one
   engine, the only one that is mapped, and a loaded plugin knows which. *)
THEOREM PluginOneEngineServed == Spec => []OneEngineServed
<1>1. PluginInv => OneEngineServed
  <2> SUFFICES ASSUME PluginInv, pc = "idle"
               PROVE  \E e \in Engines :
                        /\ \A h \in Holders : holder[h] = e
                        /\ \A o \in Engines : refs[o] = (IF o = e THEN 1 ELSE 0)
                        /\ Live(e)
                        /\ Active => engineName = e /\ moduleHandle = e
    BY DEF OneEngineServed
  <2>1. holder["server"] \in Engines
    BY ServerHolds DEF PluginInv, PluginTypeOK
  <2>2. /\ AtRest(holder["server"])
        /\ Active => engineName = holder["server"] /\ moduleHandle = holder["server"]
    BY SwapLeavesRest DEF PluginInv, StaticsInv
  <2>3. Live(holder["server"])
    BY <2>1, <2>2 DEF AtRest, Live
  <2> WITNESS holder["server"] \in Engines
  <2> QED
    BY <2>2, <2>3 DEF AtRest
<1> QED
  BY <1>1, PluginInvariant, PTL

(* Among loads, unloads and swaps in any order, no step of a swap calls into an
   engine that is not there. *)
THEOREM PluginCallsLive == Spec => []CallsLive
<1>1. PluginInv => CallsLive
  <2>1. pc \in {"idle", "crashed"} => CallsLive
    BY DEF CallsLive
  <2>2. PluginInv /\ pc \notin {"idle", "crashed"} => SwapInv
    BY DEF PluginInv, TurnsInv, StaticsInv
  <2> QED
    BY <2>1, <2>2, InvCallsLive
<1> QED
  BY <1>1, PluginInvariant, PTL

(* The collision data that models got before the plugin came, while it was there
   and after it left can all be freed. *)
THEOREM PluginVCollidesOwned == Spec => []VCollidesOwned
<1>1. PluginInv => VCollidesOwned
  <2>1. PluginInv /\ ~Active => VCollidesOwned
    BY HolderFacts, ServerHolds
    DEF PluginInv, PluginTypeOK, StaticsInv, AtRest, CacheInv, VCollidesOwned, Live
  <2>2. PluginInv /\ Active => SwapInv
    BY DEF PluginInv, StaticsInv
  <2> QED
    BY <2>1, <2>2, InvVCollidesOwned
<1> QED
  BY <1>1, PluginInvariant, PTL

(* Once the plugin is gone while another engine than the default runs, no step
   brings either back (822). *)
THEOREM PluginStuckUntilRestart == Spec => StuckUntilRestart
<1>1. PluginInv /\ [Next]_vars =>
        (~Active /\ holder["server"] # DefaultEngine => ~Active' /\ UNCHANGED holder)
  <2> SUFFICES ASSUME PluginInv, [Next]_vars, ~Active,
                      holder["server"] # DefaultEngine
               PROVE  ~Active' /\ UNCHANGED holder
    OBVIOUS
  <2>1. pc \in {"idle", "crashed"} /\ ~registered
    BY DEF PluginInv, TurnsInv, StaticsInv
  <2>2. ASSUME NEW h \in Hosts, PluginStep(h) PROVE ~Active' /\ UNCHANGED holder
    <3>1. plugin[h] # "register"
      BY DEF PluginInv, StaticsInv, DefaultEngine
    <3>2. plugin'[h] # "active" /\ UNCHANGED holder
      BY <2>2, <3>1
      DEF PluginStep, HostLoads, FindInterfaces, FindModules, FindSymbols,
          PatchSpawnServer, RegisterConVars, LoadFails, UnloadPhysSwapper,
          HostUnmaps, Moves, PluginInv, PluginTypeOK, swapVars, pointers
    <3>3. \A g \in Hosts \ {h} : plugin'[g] = plugin[g]
      BY <2>2, HostHasTurn
    <3> QED
      BY <3>2, <3>3 DEF Active
  <2>3. ASSUME NEW f \in Files \cup {NoFile}, MapLoad(f)
        PROVE  ~Active' /\ UNCHANGED holder
    BY <2>3 DEF MapLoad, ProcessEnds, pluginVars, Active, swapVars, pointers
  <2>4. ASSUME NEW name \in Words, Command(name) PROVE FALSE
    BY <2>1, <2>4 DEF Command
  <2>5. ASSUME NEW e \in Engines, SetPhysEngine(e) PROVE FALSE
    BY <2>1, <2>5 DEF SetPhysEngine
  <2>6. CASE Swap
    BY <2>1, <2>6 DEF Swap, SwapStep, FetchOriginal, FetchFails, FetchCrashes,
       LoadModule, GetFactory, ConnectSystem, InitSystem, QueryInterfaces,
       FixAppSystems, DestroyAllVCollides, RetireOriginal, ReassignPointers,
       LoadAllVCollides, InitClient, InitServer, Publish, Unwind
  <2>7. CASE UseCache
    BY <2>7 DEF UseCache, GameStep, CacheModel, UseModel, EvictModel, pluginVars,
       Active, pointers
  <2>8. CASE UNCHANGED vars
    BY <2>8 DEF vars, pluginVars, Active, swapVars, pointers
  <2> QED
    BY <2>2, <2>3, <2>4, <2>5, <2>6, <2>7, <2>8 DEF Next
<1> QED
  BY <1>1, PluginInvariant, PTL DEF Spec, StuckUntilRestart

-------------------------------------------------------------------------------
(* A single host.  It has left nothing before it came. *)
LEMMA FootprintInit == PluginInit => FootprintInv
BY DEF PluginInit, FootprintInv

(* What the host does to the game's code it undoes. *)
LEMMA FootprintStep ==
  ASSUME OneHostOnly, PluginInv, FootprintInv, [Next]_vars
  PROVE  FootprintInv'
<1> PICK h : Hosts = {h}
  BY DEF OneHostOnly
<1> h \in Hosts /\ plugin \in [Hosts -> PluginStates] /\ h \in {h}
  BY DEF PluginInv, PluginTypeOK
<1>1. CASE PluginStep(h)
  <2> USE DEF FootprintInv, Moves
  <2>1. CASE HostLoads(h) \/ FindInterfaces(h) \/ FindModules(h) \/ FindSymbols(h)
    BY <2>1 DEF HostLoads, FindInterfaces, FindModules, FindSymbols, patch
  <2>2. CASE PatchSpawnServer(h)
    BY <2>2 DEF PatchSpawnServer
  <2>3. CASE RegisterConVars(h)
    BY <2>3 DEF RegisterConVars, patch
  <2>4. CASE LoadFails(h)
    BY <2>4 DEF LoadFails, LoadStages, patch
  <2>5. CASE UnloadPhysSwapper(h)
    BY <2>5 DEF UnloadPhysSwapper, UnpatchedSite
  <2>6. CASE HostUnmaps(h)
    <3>1. Alone(h)
      BY DEF Alone
    <3> QED
      BY <2>6, <3>1 DEF HostUnmaps, FreshStatics
  <2> QED
    BY <1>1, <2>1, <2>2, <2>3, <2>4, <2>5, <2>6 DEF PluginStep
<1>2. CASE ~PluginStep(h)
  <2>1. UNCHANGED pluginVars
    BY <1>2 DEF Next, vars, MapLoad, Command, SetPhysEngine, Swap, UseCache
  <2> QED
    BY <2>1 DEF FootprintInv, pluginVars, patch
<1> QED
  BY <1>1, <1>2

(* With one host the invariant on what it leaves in the game always holds. *)
THEOREM FootprintInvariant ==
  ASSUME OneHostOnly
  PROVE  Spec => []FootprintInv
<1>1. PluginInit => FootprintInv
  BY FootprintInit
<1>2. PluginInv /\ FootprintInv /\ [Next]_vars => FootprintInv'
  BY FootprintStep
<1> QED
  BY <1>1, <1>2, PluginInvariant, PTL DEF Spec

(* With one host: whenever the game runs, the call and the convars tell whether
   the plugin is there, whatever loads failed before. *)
THEOREM PluginFootprintExact ==
  ASSUME OneHostOnly
  PROVE  Spec => []FootprintExact
<1>1. FootprintInv => FootprintExact
  BY OneHostOnly DEF OneHostOnly, FootprintInv, FootprintExact, GameRuns, Settled, Active
<1> QED
  BY <1>1, FootprintInvariant, PTL

-------------------------------------------------------------------------------
(* The refinement of EngineService, its initial states first. *)
LEMMA ServiceInitHolds == PluginInit => Service!ServiceInit
<1> SUFFICES ASSUME PluginInit PROVE Service!ServiceInit
  OBVIOUS
<1>1. ~Active
  BY DEF PluginInit, Active
<1>2. holder["server"] = HAVOK /\ pc = "idle" /\ mapFile = NoFile
  BY HolderFacts DEF PluginInit, ProcessInit, LocalsInit
<1> QED
  BY <1>1, <1>2 DEF Service!ServiceInit, DefaultEngine

(* The engine a map asks for, as the code and as the service see it: an engine's name
   is short enough to be read, and with no line end behind it, it is understood. *)
LEMMA WantedIsService ==
  ASSUME LinesNotEnded, PluginInv, Active, NEW f \in Files \cup {NoFile}
  PROVE  Wanted(f) \in Engines /\ Wanted(f) = Service!WantedFor(f)
<1>1. CfgEngine(f) = StatedBy(f) /\ StatedBy(f) \in OptionalEngine
  <2>1. f # NoFile /\ f.word \in Engines => Fits(f) /\ ~f.lineEnd
    BY ChoiceAssumption DEF LinesNotEnded, Fits
  <2> QED
    BY <2>1 DEF CfgEngine, StatedBy, OptionalEngine
<1>2. overrideName \in OptionalEngine
  BY DEF PluginInv, PluginTypeOK, ChoiceTypeOK
<1> QED
  BY <1>1, <1>2, EnginesAssumption
  DEF Wanted, Service!WantedFor, OptionalEngine, DefaultEngine

(* What the service does not see. *)
LEMMA ServiceStutters ==
  ASSUME Active' <=> Active, mapFile' = mapFile,
         Active => UNCHANGED <<engineName, overrideName>>,
         ~Active => holder'["server"] = holder["server"],
         pc = "idle" <=> pc' = "idle",
         pc # "idle" => swapName' = swapName
  PROVE  UNCHANGED Service!serviceVars
BY DEF Service!serviceVars

(* A step of the host attaches or detaches the plugin, or the service does not
   see it. *)
LEMMA HostServes ==
  ASSUME OneHostOnly, PluginInv, NEW h \in Hosts, PluginStep(h)
  PROVE  [Service!ServiceNext]_(Service!serviceVars)
<1>1. /\ pc = "idle" /\ pc' = "idle" /\ mapFile' = mapFile
      /\ plugin \in [Hosts -> PluginStates]
  BY HostHasTurn DEF PluginStep, PluginInv, PluginTypeOK
<1>2. (Active <=> plugin[h] = "active") /\ (Active' <=> plugin'[h] = "active")
  BY DEF OneHostOnly, Active
<1>3. CASE RegisterConVars(h)
  <2>1. ~Active /\ Active'
    BY <1>1, <1>2, <1>3 DEF RegisterConVars, Moves
  <2>2. plugin[h] = "register" /\ \A g \in Hosts : g = h
    BY <1>3 DEF RegisterConVars, Moves, OneHostOnly
  <2>3. /\ holder["server"] = DefaultEngine
        /\ engineName = DefaultEngine /\ overrideName = NoEngine
    BY <2>1, <2>2 DEF PluginInv, StaticsInv, DefaultEngine
  <2>4. UNCHANGED <<engineName, overrideName>>
    BY <1>3 DEF RegisterConVars, names, choice
  <2>5. Service!Attach
    BY <1>1, <2>1, <2>3, <2>4 DEF Service!Attach
  <2> QED
    BY <2>5 DEF Service!ServiceNext
<1>4. CASE UnloadPhysSwapper(h) /\ Active
  <2>1. ~Active' /\ UNCHANGED holder
    BY <1>1, <1>2, <1>4 DEF UnloadPhysSwapper, Moves, swapVars, pointers
  <2>2. holder["server"] = engineName
    BY <1>1, <1>4, SwapLeavesRest DEF PluginInv, StaticsInv
  <2>3. Service!Detach
    BY <1>1, <1>4, <2>1, <2>2 DEF Service!Detach
  <2> QED
    BY <2>3 DEF Service!ServiceNext
<1>5. CASE ~RegisterConVars(h) /\ ~(UnloadPhysSwapper(h) /\ Active)
  <2>1. /\ Active' <=> Active
        /\ Active => UNCHANGED <<engineName, overrideName>>
        /\ UNCHANGED holder
    BY <1>1, <1>2, <1>5
    DEF PluginStep, HostLoads, FindInterfaces, FindModules, FindSymbols,
        PatchSpawnServer, LoadFails, UnloadPhysSwapper, HostUnmaps, Moves,
        LoadStages, swapVars, names, pointers, choice
  <2> QED
    BY <1>1, <2>1, ServiceStutters
<1> QED
  BY <1>3, <1>4, <1>5

(* Exactly the map loads that want another engine begin a change. *)
LEMMA MapLoadServes ==
  ASSUME OneHostOnly, LinesNotEnded, PluginInv, FootprintInv,
         NEW f \in Files \cup {NoFile}, MapLoad(f)
  PROVE  [Service!ServiceNext]_(Service!serviceVars)
<1>1. /\ pc = "idle" /\ mapFile' = f /\ Settled(Hosts)
      /\ UNCHANGED <<overrideName, plugin>>
  BY DEF MapLoad, GameRuns, choice, pluginVars
<1>2. Active' <=> Active
  BY <1>1 DEF Active
<1>3. site = Hook <=> Active
  BY <1>1, CallsDiffer DEF OneHostOnly, FootprintInv, Active, Settled
<1>4. CASE Active
  <2>1. Wanted(f) \in Engines /\ Wanted(f) = Service!WantedFor(f)
    BY <1>4, WantedIsService
  <2>2. CallWrapper(f)
    BY <1>3, <1>4, EndNeverStrays DEF MapLoad
  <2>3. UNCHANGED engineName
    BY <2>2 DEF CallWrapper, RequestSwap, swapVars, names
  <2>4. IF Wanted(f) # engineName THEN pc' # "idle" /\ swapName' = Wanted(f)
                                  ELSE pc' = "idle"
    BY <1>1, <2>1, <2>2 DEF CallWrapper, NeedsSwapTo, RequestSwap, swapVars
  <2>5. Service!LoadMap(f)
    BY <1>1, <1>2, <1>4, <2>1, <2>3, <2>4 DEF Service!LoadMap
  <2> QED
    BY <2>5 DEF Service!ServiceNext
<1>5. CASE ~Active
  <2>1. UNCHANGED swapVars
    BY <1>3, <1>5 DEF MapLoad
  <2>2. UNCHANGED holder /\ pc' = "idle"
    BY <1>1, <2>1 DEF swapVars, pointers
  <2>3. Service!LoadMap(f)
    BY <1>1, <1>2, <1>5, <2>2 DEF Service!LoadMap
  <2> QED
    BY <2>3 DEF Service!ServiceNext
<1> QED
  BY <1>4, <1>5

(* A swap ends with the engine it was to change to or with the one before, and is
   not seen until then. *)
LEMMA SwapServes ==
  ASSUME PluginInv, Swap
  PROVE  [Service!ServiceNext]_(Service!serviceVars)
<1>1. pc \notin {"idle", "crashed"}
  BY DEF Swap, SwapStep, FetchOriginal, FetchFails, FetchCrashes, LoadModule,
     GetFactory, ConnectSystem, InitSystem, QueryInterfaces, FixAppSystems,
     DestroyAllVCollides, RetireOriginal, ReassignPointers, LoadAllVCollides,
     InitClient, InitServer, Publish, Unwind
<1>2. Active /\ UNCHANGED <<mapFile, overrideName>> /\ (Active' <=> Active)
  BY <1>1 DEF PluginInv, TurnsInv, Swap, choice, pluginVars, Active
<1>3. swapName \in Engines /\ UNCHANGED swapName
  BY DEF PluginInv, PluginTypeOK, SwapTypeOK, NamesTypeOK, Swap, SwapStep, names,
     FetchOriginal, FetchFails, FetchCrashes, LoadModule, GetFactory, ConnectSystem,
     InitSystem, QueryInterfaces, FixAppSystems, DestroyAllVCollides,
     RetireOriginal, ReassignPointers, LoadAllVCollides, InitClient, InitServer,
     Publish, Unwind
<1>4. CASE FetchFails \/ Publish \/ Unwind
  <2>1. pc' = "idle" /\ engineName' \in {engineName, swapName}
    BY <1>4 DEF FetchFails, Publish, Unwind, names
  <2>2. Service!EndChange
    BY <1>1, <1>2, <1>3, <2>1, EnginesAssumption DEF Service!EndChange
  <2> QED
    BY <2>2 DEF Service!ServiceNext
<1>5. CASE ~(FetchFails \/ Publish \/ Unwind)
  <2>1. pc' # "idle" /\ UNCHANGED engineName
    BY <1>5 DEF Swap, SwapStep, names, FetchOriginal, FetchCrashes, LoadModule,
       GetFactory, ConnectSystem, InitSystem, QueryInterfaces, FixAppSystems,
       DestroyAllVCollides, RetireOriginal, ReassignPointers, LoadAllVCollides,
       InitClient, InitServer, Checked, BringUp
  <2> QED
    BY <1>1, <1>2, <1>3, <2>1, ServiceStutters
<1> QED
  BY <1>4, <1>5

(* Every step of the composition is one of the service, or is not seen. *)
LEMMA ServiceStep ==
  ASSUME OneHostOnly, LinesNotEnded, PluginInv, FootprintInv, [Next]_vars
  PROVE  [Service!ServiceNext]_(Service!serviceVars)
<1>1. ASSUME NEW name \in Words, Command(name)
      PROVE  [Service!ServiceNext]_(Service!serviceVars)
  <2>1. /\ pc = "idle" /\ Active /\ (Active' <=> Active)
        /\ UNCHANGED <<pc, engineName, mapFile, plugin>>
    BY <1>1 DEF Command, GameRuns, PhysOverride, PluginInv, StaticsInv, pluginVars,
       Active
  <2>2. CASE overrideName' = overrideName
    BY <2>1, <2>2, ServiceStutters
  <2>3. CASE overrideName' # overrideName
    <3>1. name \in Engines /\ name # engineName /\ overrideName' = name
      BY <1>1, <2>3 DEF Command, PhysOverride, NameActive, SetOverride, RejectName
    <3>2. Service!Override(name)
      BY <2>1, <3>1 DEF Service!Override
    <3> QED
      BY <3>1, <3>2 DEF Service!ServiceNext
  <2> QED
    BY <2>2, <2>3
<1>2. ASSUME NEW e \in Engines, SetPhysEngine(e)
      PROVE  [Service!ServiceNext]_(Service!serviceVars)
  <2>1. /\ UNCHANGED <<pc, engineName, swapName, holder, overrideName, mapFile>>
        /\ Active' <=> Active
    BY <1>2 DEF SetPhysEngine, names, pointers, choice, pluginVars, Active
  <2> QED
    BY <2>1, ServiceStutters
<1>3. CASE UseCache
  <2>1. /\ UNCHANGED <<pc, engineName, swapName, holder, overrideName, mapFile>>
        /\ Active' <=> Active
    BY <1>3 DEF UseCache, GameStep, CacheModel, UseModel, EvictModel, names,
       pointers, choice, pluginVars, Active
  <2> QED
    BY <2>1, ServiceStutters
<1>4. CASE UNCHANGED vars
  <2>1. /\ UNCHANGED <<pc, engineName, swapName, holder, overrideName, mapFile>>
        /\ Active' <=> Active
    BY <1>4 DEF vars, swapVars, names, pointers, choice, pluginVars, Active
  <2> QED
    BY <2>1, ServiceStutters
<1> QED
  BY <1>1, <1>2, <1>3, <1>4, HostServes, MapLoadServes, SwapServes DEF Next

(* With one host and files whose line is not ended, whatever fails and with a
   complete group or not, the plugin changes the engine as EngineService promises: on a
   map load, to the engine wanted for it, as the README says, or not at all.  That a
   change ends is left to the model checker. *)
THEOREM PluginImplementsService ==
  ASSUME OneHostOnly, LinesNotEnded
  PROVE  Spec => Service!ServiceSafety
<1>1. PluginInit => Service!ServiceInit
  BY ServiceInitHolds
<1>2. PluginInv /\ FootprintInv /\ [Next]_vars
        => [Service!ServiceNext]_(Service!serviceVars)
  BY ServiceStep
<1> QED
  BY <1>1, <1>2, PluginInvariant, FootprintInvariant, PTL
  DEF Spec, Service!ServiceSafety

===============================================================================
