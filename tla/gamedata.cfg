SPECIFICATION GameDataSpec
CONSTANTS
  client = client
  engine = engine
  datacache = datacache
  Outside = Outside
  Nowhere = Nowhere
  Undefined = Undefined
  NoLibrary = NoLibrary
  NoFile = NoFile
  Client = client
  Modules <- MCModules
  Names <- MCNames
  FuncRefs <- MCFuncRefs
  DataRefs <- MCDataRefs
  Files <- MCFiles
INVARIANT GameDataTypeOK
INVARIANT SuccessIsUsable
INVARIANT CleanFileAccepted
INVARIANT GameDataInv
