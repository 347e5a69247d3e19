SPECIFICATION Spec
CONSTANTS
  Configs <- MCConfigs
  TextAddrs = {0, 1}
  LoadAddrs = {1, 8}
  StoreAddrs = {8}
  Levels = {2}
  DataWays = 2
  LowerWays = 2
  WritePolicies <- AnyPolicy
  WriteMissPolicies <- AnyMissPolicy
  Replacements = {"FIFO"}
INVARIANTS OneLinePerBlock LocksReleased
