SPECIFICATION SwapSpec
CONSTANTS
  HAVOK = HAVOK
  JOLT = JOLT
  BULLET = BULLET
  m1 = m1
  m2 = m2
  NoEngine = NoEngine
  PluginFactory = PluginFactory
  Engines <- MCEngines
  Models <- MCModels
  CanFail <- AnyFailure
  Dedicated = FALSE
  CompleteGroup = TRUE
INVARIANTS
  FactoryAnswers
