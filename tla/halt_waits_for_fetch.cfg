SPECIFICATION Spec
CONSTANTS
  WordSize = 64
  Reg <- MCReg
  TextLimit = 39
  RodataLimit = 43
  DramSize = 62
  Programs <- MCPrograms
  Images <- MCImages
  CodeWord <- MCCodeWord
  FetchLatency <- MCFetchLatency
  DataLatency <- MCDataLatency
  Switches = {0, 1}
  Strategies = {"NOT_TAKEN", "TAKEN", "OFFSET"}
  Suite = "afterhalt"
INVARIANT FirstHaltKeepsRegisters
