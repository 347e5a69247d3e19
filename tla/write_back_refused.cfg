SPECIFICATION Spec
CONSTANTS
  Configs <- MCConfigs
  TextAddrs = {0}
  LoadAddrs = {8}
  StoreAddrs = {12}
  Levels = {2}
  DataWays = 1
  LowerWays = 2
  WritePolicies <- WritingBack
  WriteMissPolicies <- AllAllocate
  Replacements = {"FIFO"}
INVARIANTS NoStoreLost
