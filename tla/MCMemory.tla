------------------------------ MODULE MCMemory ------------------------------
(***************************************************************************)
(* Small hierarchies: first-level blocks of one address, lower-level       *)
(* blocks of two, two sets per cache.  Addresses 0, 4, 8, ... fall into    *)
(* the first set of every cache; an address and the next one share a block *)
(* below the first level.                                                  *)
(***************************************************************************)
EXTENDS MemorySystem

CONSTANTS
  TextAddrs, LoadAddrs, StoreAddrs,   \* the addresses of the program
  Levels,   \* CACHE_LEVELS
  DataWays,      \* associativity of the first data cache
  LowerWays,     \* associativity of the second and third levels
  WritePolicies, WriteMissPolicies, Replacements   \* values to consider

Cache(ways, block, latency, policy, miss, replacement) ==
  [sets |-> 2, ways |-> ways, block |-> block, read_latency |-> latency,
   write_latency |-> latency, write_policy |-> policy, write_miss_policy |-> miss,
   replacement_policy |-> replacement]

Config(levels, dataways, p, m, replacement, text, loads, stores) ==
  [CACHE_LEVELS |-> levels, DRAM_READ_LATENCY |-> 1, DRAM_WRITE_LATENCY |-> 1,
   l1_i |-> Cache(1, 1, 1, "through", "allocate", replacement),
   l1_d |-> Cache(dataways, 1, 1, p[1], m[1], replacement),
   l2   |-> Cache(LowerWays, 2, 1, p[2], m[2], replacement),
   l3   |-> Cache(LowerWays, 2, 1, p[2], m[2], replacement),
   text |-> text, loads |-> loads, stores |-> stores]

(* One choice is enough for the policies of caches that are not there; and *)
(* three levels are only combined with one replacement policy, for time.   *)
Distinct(cfg) ==
  /\ cfg.CACHE_LEVELS < 1 =>
       cfg.l1_d.write_policy = "through" /\ cfg.l1_d.write_miss_policy = "allocate"
       /\ cfg.l1_d.replacement_policy = "FIFO"
  /\ cfg.CACHE_LEVELS < 2 => cfg.l2.write_policy = "back" /\ cfg.l2.write_miss_policy = "bypass"
  /\ cfg.CACHE_LEVELS = 3 => cfg.l1_d.replacement_policy = "LRU"

MCConfigs ==
  {cfg \in {Config(levels, DataWays, p, m, replacement, TextAddrs, LoadAddrs, StoreAddrs) :
              levels \in Levels, p \in WritePolicies, m \in WriteMissPolicies,
              replacement \in Replacements} : Distinct(cfg)}

(* Fetches that compete with each other and with the data for the ways. *)
Competing ==
  {Config(levels, 1, <<"back", "back">>, <<"allocate", "bypass">>, "LRU", {0, 4}, {8}, {12}) :
     levels \in {2, 3}}

MCPolicies == MCConfigs \cup Competing

(* <<first level, lower levels>> *)
AnyPolicy == {"through", "back"} \X {"through", "back"}

AnyMissPolicy == {"allocate", "bypass"} \X {"allocate", "bypass"}

NoLowerAllocation == {"allocate", "bypass"} \X {"bypass"}

DefaultPolicy == {<<"through", "back">>}

WritingBack == {<<"back", "back">>}

DefaultMissPolicy == {<<"allocate", "bypass">>}

AnyLevels == -1 .. 3

AllAllocate == {<<"allocate", "allocate">>}
=============================================================================
