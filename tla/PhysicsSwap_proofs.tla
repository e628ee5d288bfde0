-------------------------- MODULE PhysicsSwap_proofs --------------------------
(***************************************************************************)
(* SwapInv is inductive, for any number of engines and of models, any      *)
(* failures, a complete group or not; the properties of PhysicsSwap follow *)
(* from it.                                                                *)
(***************************************************************************)
EXTENDS PhysicsSwap, TLAPS

(* SwapInv holds of the process as the plugin finds it. *)
LEMMA SwapInvInit == SwapInit => SwapInv
<1> SUFFICES ASSUME SwapInit PROVE SwapInv
  OBVIOUS
<1> USE SwapAssumption, EnginesAssumption
    DEF SwapInit, ProcessInit, LocalsInit, NamesInit, DefaultEngine,
        OptionalEngine, OutsideAt, LoadedAt, MadeAt, UpAt, QueriedAt, Committed,
        Unloaded
<1>1. SwapTypeOK
  BY DEF SwapTypeOK, NamesTypeOK, PC, Dirs, GameDir, NoDir
<1>2. LocalsInv /\ ModulesInv
  BY DEF LocalsInv, ModulesInv
<1>3. RegistryInv
  BY DEF RegistryInv
<1>4. HoldersInv /\ FactoryInv /\ CacheInv /\ DirsInv
  BY DEF HoldersInv, FactoryInv, CacheInv, DirsInv
<1> QED
  BY <1>1, <1>2, <1>3, <1>4 DEF SwapInv

(* The interfaces a DataRef replaces include the one of the model cache, and
   neither the client nor the server is among them. *)
LEMMA HolderFacts ==
  /\ RefHolders \subseteq Holders
  /\ "datacacheCollision" \in RefHolders
  /\ "server" \in Holders \ RefHolders
  /\ "client" \notin RefHolders
  /\ "client" \in Holders => ~Dedicated
  /\ \A h \in Holders : h \in RefHolders \cup {"server", "client"}
BY SwapAssumption DEF Holders, RefHolders

(* Before the point of no return the only engine that can be called is the one
   in use, so the system that the group answers with is the system of the module
   in the table. *)
LEMMA OriginalIsRunning ==
  ASSUME SwapInv, pc = "fetch", EngineInterface # NoEngine, Live(EngineInterface)
  PROVE  EngineInterface = engineName
<1>1. EngineInterface \in Engines
  BY EnginesAssumption DEF SwapInv, SwapTypeOK, EngineInterface, OptionalEngine
<1>2. scopedModule = NoEngine
  BY DEF SwapInv, LocalsInv, OutsideAt
<1>3. \A e \in Engines : e # engineName => refs[e] = 0
  BY <1>2, EnginesAssumption DEF SwapInv, ModulesInv
<1> QED
  BY <1>1, <1>3 DEF Live

(* FixAppSystemGroup replaces both entries, or it is a group that was incomplete
   from the start and stays so. *)
LEMMA FixDecides ==
  ASSUME SwapInv, FixAppSystems
  PROVE  \/ /\ groupModule = engineName /\ groupSystem = engineName
            /\ groupModule' = swapName /\ groupSystem' = swapName
            /\ pc' = "destroy"
         \/ /\ engineName = HAVOK /\ ~CompleteGroup
            /\ groupModule' # HAVOK \/ groupSystem' # HAVOK
            /\ pc' = "unwind"
<1>1. /\ origHandle = engineName /\ origSystem = engineName
      /\ scopedModule = swapName /\ physicsSystem = swapName
      /\ swapName # engineName
  BY DEF FixAppSystems, SwapInv, LocalsInv, LoadedAt, MadeAt, UpAt, QueriedAt,
         Committed, Unloaded
<1>2. \/ groupModule = engineName /\ groupSystem = engineName
      \/ engineName = HAVOK /\ ~CompleteGroup
           /\ (groupModule # HAVOK \/ groupSystem # HAVOK)
  BY DEF FixAppSystems, SwapInv, RegistryInv, Committed, Unloaded
<1> QED
  BY <1>1, <1>2 DEF FixAppSystems, BothFixed

(* When the old engine is unloaded no model has collision data; the new one is
   the only one left. *)
LEMMA RetireLeavesNew ==
  ASSUME SwapInv, RetireOriginal
  PROVE  /\ refs' = [refs EXCEPT ![engineName] = 0]
         /\ system' = [system EXCEPT ![engineName] = "raw"]
         /\ \A m \in Models : vcollide'[m] = NoEngine
         /\ scopedModule' = swapName /\ swapName # engineName
<1>1. pc = "retire" /\ origHandle = engineName /\ origSystem = engineName
        /\ scopedModule = swapName /\ swapName # engineName
  BY DEF RetireOriginal, SwapInv, LocalsInv, LoadedAt, MadeAt, UpAt, QueriedAt,
         Committed, Unloaded
<1>2. refs[engineName] = 1
  BY <1>1 DEF SwapInv, SwapTypeOK, NamesTypeOK, ModulesInv, Unloaded
<1>3. \A m \in Models : vcollide[m] = NoEngine
  BY <1>1 DEF SwapInv, CacheInv
<1> QED
  BY <1>1, <1>2, <1>3 DEF RetireOriginal, locals, cache

(* Every step keeps SwapInv. *)
LEMMA SwapInvStep == SwapInv /\ [SwapNext]_swapVars => SwapInv'
<1> SUFFICES ASSUME SwapInv, [SwapNext]_swapVars PROVE SwapInv'
  OBVIOUS
<1> USE SwapAssumption, EnginesAssumption
    DEF SwapInv, SwapTypeOK, NamesTypeOK, LocalsInv, ModulesInv, RegistryInv,
        HoldersInv, FactoryInv, CacheInv, DirsInv, OptionalEngine,
        names, modules, registry, pointers, cache, globals, shown, locals, dirs,
        OutsideAt, LoadedAt, MadeAt, UpAt, QueriedAt, Committed, Unloaded,
        PC, Dirs, GameDir, NoDir
<1>1. CASE \E e \in Engines : RequestSwap(e)
  BY <1>1 DEF RequestSwap
<1>2. CASE FetchOriginal
  <2>1. EngineInterface = engineName
    BY <1>2, OriginalIsRunning DEF FetchOriginal
  <2> QED
    BY <1>2, <2>1 DEF FetchOriginal
<1>3. CASE FetchFails
  BY <1>3 DEF FetchFails
<1>4. CASE FetchCrashes
  <2>1. groupSystem # engineName
    BY <1>4 DEF FetchCrashes, EngineInterface, Live
  <2> QED
    BY <1>4, <2>1 DEF FetchCrashes
<1>5. CASE LoadModule
  BY <1>5 DEF LoadModule
<1>6. CASE GetFactory
  <2>1. physicsSystem' \in {swapName, NoEngine}
    BY <1>6 DEF GetFactory, Answers
  <2> QED
    BY <1>6, <2>1 DEF GetFactory, Checked
<1>7. CASE ConnectSystem
  BY <1>7 DEF ConnectSystem, BringUp
<1>8. CASE InitSystem
  BY <1>8 DEF InitSystem, BringUp
<1>9. CASE QueryInterfaces
  <2>1. queried' \in {swapName, NoEngine}
    BY <1>9 DEF QueryInterfaces, Answers
  <2> QED
    BY <1>9, <2>1 DEF QueryInterfaces, Checked
<1>10. CASE FixAppSystems
  <2>1. RegistryInv' /\ pc' \in {"destroy", "unwind"}
    BY <1>10, FixDecides DEF FixAppSystems
  <2>2. DirsInv'
    BY <1>10, <2>1 DEF FixAppSystems, RestoredDir
  <2> QED
    BY <1>10, <2>1, <2>2 DEF FixAppSystems
<1>11. CASE DestroyAllVCollides
  <2>1. CacheInv'
    BY <1>11 DEF DestroyAllVCollides, Walked
  <2> QED
    BY <1>11, <2>1 DEF DestroyAllVCollides, Walked
<1>12. CASE RetireOriginal
  <2>1. ModulesInv' /\ CacheInv'
    BY <1>12, RetireLeavesNew DEF RetireOriginal
  <2>2. SwapTypeOK'
    BY <1>12, RetireLeavesNew DEF RetireOriginal
  <2> QED
    BY <1>12, <2>1, <2>2 DEF RetireOriginal
<1>13. CASE ReassignPointers
  <2>1. /\ \A h \in Holders :
             holder'[h] = IF h \in RefHolders THEN swapName ELSE engineName
        /\ holder' \in [Holders -> Engines]
    BY <1>13, HolderFacts DEF ReassignPointers
  <2>2. CacheInv' /\ HoldersInv' /\ FactoryInv'
    BY <1>13, <2>1 DEF ReassignPointers
  <2> QED
    BY <1>13, <2>1, <2>2 DEF ReassignPointers
<1>14. CASE LoadAllVCollides
  <2>1. holder["datacacheCollision"] = swapName
    BY <1>14, HolderFacts DEF LoadAllVCollides
  <2>2. SwapTypeOK' /\ CacheInv'
    BY <1>14, <2>1 DEF LoadAllVCollides, Walked
  <2>3. HoldersInv'
    BY <1>14, HolderFacts DEF LoadAllVCollides
  <2> QED
    BY <1>14, <2>2, <2>3 DEF LoadAllVCollides
<1>15. CASE InitClient
  <2>1. /\ \A h \in Holders : holder'[h] =
             IF h \in RefHolders \/ h = "client" THEN swapName ELSE engineName
        /\ holder' \in [Holders -> Engines]
    <3>1. holder' = [holder EXCEPT !["client"] = swapName]
      BY <1>15 DEF InitClient
    <3>2. \A h \in Holders :
            holder[h] = IF h \in RefHolders THEN swapName ELSE engineName
      BY <1>15 DEF InitClient
    <3>3. holder' \in [Holders -> Engines]
      BY <3>1
    <3>4. ASSUME NEW h \in Holders
          PROVE  holder'[h] = IF h = "client" THEN swapName ELSE holder[h]
      BY <3>1
    <3> QED
      BY <3>2, <3>3, <3>4
  <2>2. HoldersInv'
    BY <1>15, <2>1 DEF InitClient
  <2>3. CacheInv'
    BY <1>15, <2>1, HolderFacts DEF InitClient
  <2>4. SwapTypeOK'
    BY <1>15, <2>1 DEF InitClient
  <2> QED
    BY <1>15, <2>2, <2>3, <2>4 DEF InitClient
<1>16. CASE InitServer
  <2>1. ServerAnswer = swapName
    BY <1>16 DEF InitServer, ServerAnswer
  <2>2. /\ \A h \in Holders : holder'[h] = swapName
        /\ holder' \in [Holders -> Engines]
    BY <1>16, <2>1, HolderFacts DEF InitServer
  <2>3. HoldersInv' /\ SwapTypeOK'
    BY <1>16, <2>2 DEF InitServer
  <2>4. CacheInv'
    BY <1>16, <2>2, HolderFacts DEF InitServer
  <2> QED
    BY <1>16, <2>3, <2>4 DEF InitServer
<1>17. CASE Publish
  <2>1. ModulesInv'
    BY <1>17 DEF Publish
  <2>2. HoldersInv' /\ CacheInv'
    BY <1>17 DEF Publish
  <2> QED
    BY <1>17, <2>1, <2>2 DEF Publish
<1>18. CASE Unwind
  <2>1. SwapTypeOK' /\ ModulesInv'
    BY <1>18 DEF Unwind, ReleasedRefs, RestoredDir
  <2> QED
    BY <1>18, <2>1 DEF Unwind, RestoredDir
<1>19. CASE GameStep
  <2>1. CacheInv' /\ SwapTypeOK'
    BY <1>19, HolderFacts DEF GameStep, CacheModel, UseModel, EvictModel
  <2> QED
    BY <1>19, <2>1 DEF GameStep, CacheModel, UseModel, EvictModel
<1>20. CASE UNCHANGED swapVars
  BY <1>20 DEF swapVars
<1> QED
  BY <1>1, <1>2, <1>3, <1>4, <1>5, <1>6, <1>7, <1>8, <1>9, <1>10, <1>11, <1>12,
     <1>13, <1>14, <1>15, <1>16, <1>17, <1>18, <1>19, <1>20
  DEF SwapNext, SwapStep

(* The inductive invariant holds in every behaviour of PhysicsSwap. *)
THEOREM SwapInvariant == SwapSpec => []SwapInv
<1>1. SwapInit => SwapInv
  BY SwapInvInit
<1>2. SwapInv /\ [SwapNext]_swapVars => SwapInv'
  BY SwapInvStep
<1> QED
  BY <1>1, <1>2, PTL DEF SwapSpec

(* Type correctness: reference counts never go below zero and no holder is ever
   left with a null interface. *)
THEOREM SwapTypeCorrect == SwapSpec => []SwapTypeOK
<1>1. SwapInv => SwapTypeOK
  BY DEF SwapInv
<1> QED
  BY <1>1, SwapInvariant, PTL

(* What the invariant says of the statements that call into an engine. *)
LEMMA InvCallsLive == SwapInv => CallsLive
<1> SUFFICES ASSUME SwapInv PROVE CallsLive
  OBVIOUS
<1> USE SwapAssumption, EnginesAssumption
    DEF SwapInv, SwapTypeOK, NamesTypeOK, LocalsInv, ModulesInv, Live,
        LoadedAt, MadeAt, UpAt, QueriedAt, Committed, Unloaded
<1>1. pc \in {"connect", "init", "query"} =>
        physicsSystem = scopedModule /\ refs[physicsSystem] > 0
  OBVIOUS
<1>2. pc = "destroy" => Live(holder["datacacheCollision"])
  BY HolderFacts DEF HoldersInv
<1>3. pc = "reload" => Live(holder["datacacheCollision"])
  BY HolderFacts DEF HoldersInv
<1>4. pc = "retire" =>
        origSystem = origHandle /\ origSystem = engineName /\ Live(origSystem)
  OBVIOUS
<1>5. pc \in {"client", "server"} =>
        physicsSystem = swapName /\ Live(physicsSystem)
  OBVIOUS
<1> QED
  BY <1>1, <1>2, <1>3, <1>4, <1>5 DEF CallsLive

(* No step of a swap calls into an engine that is not there. *)
THEOREM SwapCallsLive == SwapSpec => []CallsLive
BY InvCallsLive, SwapInvariant, PTL

(* What the invariant says of the owner of collision data. *)
LEMMA InvVCollidesOwned == SwapInv => VCollidesOwned
<1> SUFFICES ASSUME SwapInv, NEW m \in Models, vcollide[m] # NoEngine
             PROVE  /\ m \in dict
                    /\ vcollide[m] = holder["datacacheCollision"]
                    /\ Live(vcollide[m])
  BY DEF VCollidesOwned
<1>1. /\ m \in dict
      /\ vcollide[m] = holder["datacacheCollision"]
      /\ pc \notin {"retire", "reassign", "reload"}
  BY DEF SwapInv, CacheInv
<1>2. CASE pc \in {"client", "server", "publish"}
  <2>1. vcollide[m] = swapName
    BY <1>1, <1>2, HolderFacts DEF SwapInv, HoldersInv
  <2> QED
    BY <1>1, <1>2, <2>1
    DEF SwapInv, SwapTypeOK, NamesTypeOK, LocalsInv, ModulesInv, Live,
        LoadedAt, MadeAt, UpAt, QueriedAt, Committed, Unloaded
<1>3. CASE pc \notin {"client", "server", "publish"}
  <2>1. vcollide[m] = engineName
    BY <1>1, <1>3, HolderFacts DEF SwapInv, HoldersInv
  <2> QED
    BY <1>1, <1>3, <2>1
    DEF SwapInv, SwapTypeOK, NamesTypeOK, ModulesInv, Live, Unloaded
<1> QED
  BY <1>2, <1>3

(* Collision data always belongs to an engine that is up and that the pointer it
   will be freed through leads to. *)
THEOREM SwapVCollidesOwned == SwapSpec => []VCollidesOwned
BY InvVCollidesOwned, SwapInvariant, PTL

(* Whenever the game runs, every pointer leads to the engine the plugin names. *)
THEOREM SwapOneEngineInUse == SwapSpec => []OneEngineInUse
<1>1. SwapInv => OneEngineInUse
  BY DEF SwapInv, SwapTypeOK, NamesTypeOK, ModulesInv, HoldersInv, Unloaded, Live,
         OneEngineInUse
<1> QED
  BY <1>1, SwapInvariant, PTL

(* However swaps end, one reference to one engine is left. *)
THEOREM SwapReferencesBalanced == SwapSpec => []ReferencesBalanced
<1>1. SwapInv => ReferencesBalanced
  BY EnginesAssumption
  DEF SwapInv, LocalsInv, ModulesInv, OutsideAt, Unloaded, ReferencesBalanced
<1> QED
  BY <1>1, SwapInvariant, PTL

(* The group follows the engine in use, unless it was incomplete from the start,
   and then Havok stays in use. *)
THEOREM SwapRegistryCurrent == SwapSpec => []RegistryCurrent
<1>1. SwapInv => RegistryCurrent
  BY DEF SwapInv, RegistryInv, Committed, Unloaded, RegistryCurrent
<1> QED
  BY <1>1, SwapInvariant, PTL

(* The game always gets its working directory back. *)
THEOREM SwapWorkdirRestored == SwapSpec => []WorkdirRestored
<1>1. SwapInv => WorkdirRestored
  BY DEF SwapInv, DirsInv, LoadedAt, MadeAt, UpAt, QueriedAt, Committed, Unloaded,
         GameDir, NoDir, WorkdirRestored
<1> QED
  BY <1>1, SwapInvariant, PTL

===============================================================================
