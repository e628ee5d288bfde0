SPECIFICATION CodeSpec
CONSTANTS
  Space = 48
  PageSize = 4
  Unmapped = Unmapped
  Wildcard = Wildcard
  AdminScan = 4
  CommandAt = 4
  Wrapper = 1
  Log = 2
  Ops <- MCOps
  Window <- MCWindow
  Skip <- MCSkip
  Engine <- MCEngine
  Programs <- MCPrograms
  Physics <- MCPhysics
INVARIANTS CodeTypeOK SearchIsExact SearchStaysMapped AdminDecoded HookReached CodeIntact CodeInv
