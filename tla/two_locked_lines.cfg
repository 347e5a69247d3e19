SPECIFICATION Spec
CONSTANTS
  Configs <- MCConfigs
  TextAddrs = {0, 4}
  LoadAddrs = {8, 12}
  StoreAddrs = {12, 16}
  Levels = {2}
  DataWays = 1
  LowerWays = 4
  WritePolicies <- WritingBack
  WriteMissPolicies <- AllAllocate
  Replacements = {"FIFO"}
PROPERTIES LockedIsKept
