SPECIFICATION FairSpec
CONSTANTS
  Configs <- MCConfigs
  TextAddrs = {0}
  LoadAddrs = {8}
  StoreAddrs = {8}
  Levels = {2}
  DataWays = 1
  LowerWays = 1
  WritePolicies <- DefaultPolicy
  WriteMissPolicies <- DefaultMissPolicy
  Replacements = {"FIFO"}
PROPERTIES DataCompletes
