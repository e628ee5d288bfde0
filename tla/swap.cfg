SPECIFICATION SwapSpec
CONSTANTS
  HAVOK = HAVOK
  JOLT = JOLT
  BULLET = BULLET
  m1 = m1
  m2 = m2
  NoEngine = NoEngine
  PluginFactory = PluginFactory
  Engines <- MCEngines
  Models <- MCModels
  CanFail <- AnyFailure
  Dedicated = FALSE
  CompleteGroup = FALSE
\* The process may die while it asks a half-fixed group for an interface.
CHECK_DEADLOCK FALSE
INVARIANTS
  SwapTypeOK
  CallsLive
  VCollidesOwned
  OneEngineInUse
  ReferencesBalanced
  RegistryCurrent
  WorkdirRestored
  SwapInv
