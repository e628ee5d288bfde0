---------------------------- MODULE PhysicsEngines ----------------------------
(***************************************************************************)
(* What the parts of the plugin share: the table of physics engines        *)
(* (g_PhysicsEngines), the two globals that name the running engine and    *)
(* the engine to swap to, and the values that mean "none of them".         *)
(***************************************************************************)

CONSTANTS
  Engines,    \* PhysicsEngineName without PHYSICS_NAME_MAX
  HAVOK,      \* the engine the game starts with
  NoEngine    \* a null handle or interface, and PHYSICS_NAME_MAX

ASSUME EnginesAssumption ==
  /\ HAVOK \in Engines
  /\ NoEngine \notin Engines

VARIABLES
  engineName,  \* g_PhysicsEngineName: the engine the plugin believes is running
  swapName     \* g_PhysicsEngineSwapName: the target of the swap in progress

DefaultEngine == HAVOK

OptionalEngine == Engines \cup {NoEngine}

NamesInit ==
  /\ engineName = DefaultEngine
  /\ swapName = DefaultEngine

NamesTypeOK ==
  /\ engineName \in Engines
  /\ swapName \in Engines

===============================================================================
