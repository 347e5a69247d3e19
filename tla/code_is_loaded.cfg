SPECIFICATION Spec
CONSTANTS
  Configs <- MCConfigs
  TextAddrs = {0}
  LoadAddrs = {0, 8}
  StoreAddrs = {8}
  Levels = {2}
  DataWays = 1
  LowerWays = 2
  WritePolicies <- DefaultPolicy
  WriteMissPolicies <- DefaultMissPolicy
  Replacements = {"FIFO"}
INVARIANTS NeverExits
