SPECIFICATION Spec
CONSTANTS
  HAVOK = HAVOK
  JOLT = JOLT
  BULLET = BULLET
  m1 = m1
  EnginePlugins = EnginePlugins
  SourceMod = SourceMod
  NoEngine = NoEngine
  PluginFactory = PluginFactory
  UnknownName = UnknownName
  NoFile = NoFile
  Engines <- MCEngines
  Models <- MCModels
  Hosts <- OneHost
  Files <- MCFiles
  CanFail <- BulletFails
  Dedicated = TRUE
  CompleteGroup = TRUE
PROPERTIES
  OverrideReverts
