SPECIFICATION FairSpec
CONSTANTS
  Configs <- MCPolicies
  TextAddrs = {0, 1}
  LoadAddrs = {12, 16}
  StoreAddrs = {8}
  Levels <- AnyLevels
  DataWays = 1
  LowerWays = 2
  WritePolicies <- AnyPolicy
  WriteMissPolicies <- NoLowerAllocation
  Replacements = {"FIFO", "LRU"}
INVARIANTS TypeOK OneLinePerBlock LocksReleased NoStoreLost NeverExits RequestsAddUp
PROPERTIES LockedIsKept DataCompletes
