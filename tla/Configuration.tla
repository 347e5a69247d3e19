--------------------------- MODULE Configuration ---------------------------
(***************************************************************************)
(* configure.c and json_loader.c: the default configuration, and what a    *)
(* configuration file overrides.  config[section][name] is a variable of   *)
(* the program; "global" stands for the variables outside the cache_level  *)
(* structures.                                                             *)
(***************************************************************************)
EXTENDS JsonParser

CONSTANT Name   \* the characters of each name load_config_json looks for

VARIABLES config, total_number_of_instructions

config_vars == <<config, total_number_of_instructions>>

Unsigned == {"text_segment_limit", "rodata_segment_limit"}

Globals == Unsigned \cup
  {"CACHE_LEVELS", "L1_SPLIT", "DRAM_READ_LATENCY", "DRAM_WRITE_LATENCY", "DRAM_SIZE",
   "FORWARDING_SWITCH", "BRANCH_PREDICTION_STRATEGY"}

CacheFields ==
  {"cache_size", "block_size", "associativity", "read_latency", "write_latency",
   "write_miss_policy", "replacement_policy", "write_policy"}

Levels == {"l1_d", "l1_i", "l2", "l3"}

Sections == {"global"} \cup Levels

Cache(level, size, block, ways, latency, allocate, writeBack) ==
  [level |-> level, cache_size |-> 1024 * size, block_size |-> block, associativity |-> ways,
   read_latency |-> latency, write_latency |-> latency, write_miss_policy |-> allocate,
   replacement_policy |-> 0, write_policy |-> writeBack]

Defaults ==
  [global |-> [CACHE_LEVELS |-> 3, L1_SPLIT |-> 1,
               DRAM_READ_LATENCY |-> 200, DRAM_WRITE_LATENCY |-> 200,
               DRAM_SIZE |-> 1024 * 1024 * 1024,
               FORWARDING_SWITCH |-> 1, BRANCH_PREDICTION_STRATEGY |-> 0,
               text_segment_limit |-> 131071, rodata_segment_limit |-> 262143],
   l1_d |-> Cache(1, 2, 16, 2, 1, 1, 0),
   l1_i |-> Cache(1, 2, 16, 2, 1, 1, 0),
   l2 |-> Cache(2, 8, 32, 4, 10, 0, 1),
   l3 |-> Cache(3, 16, 64, 8, 30, 0, 1)]

(* Arithmetic on uint32_t. *)
Wrapped(n) == n % (2 * (IntMax + 1))

Instructions(limit) == Wrapped(limit + 1) \div 4

(* cJSON_GetObjectItemCaseSensitive(): the first child with the name; the  *)
(* walk ends at a child without one.                                       *)
get_object_item(object, name) ==
  LET walk[a \in Nat] ==
        IF a = NULL THEN NULL
        ELSE IF heap[a].string = NULL THEN NULL
        ELSE IF strings[heap[a].string] = Name[name] THEN a
        ELSE walk[heap[a].next]
  IN  IF object = NULL THEN NULL ELSE walk[heap[object].child]

cJSON_IsNumber(item) == item # NULL /\ heap[item].type = "Number"

READ_INT(object, name, old) ==
  LET tmp == get_object_item(object, name)
  IN  IF cJSON_IsNumber(tmp) THEN heap[tmp].value ELSE old

(* The slip: a structure the file has replaces the defaults as a whole.    *)
read_cache_config_FromZero(object, c) ==
  IF object = NULL THEN c
  ELSE [name \in DOMAIN c |->
          IF name \in CacheFields THEN READ_INT(object, name, 0) ELSE c[name]]

read_cache_config(object, c) ==
  IF object = NULL THEN c
  ELSE [name \in DOMAIN c |->
          IF name \in CacheFields THEN READ_INT(object, name, c[name]) ELSE c[name]]

read_globals(c) ==
  [name \in Globals |->
     IF name \in Unsigned THEN Wrapped(READ_INT(root, name, c[name]))
     ELSE READ_INT(root, name, c[name])]

(* The end of load_config_json(): supplied values override; the levels are *)
(* fixed; the number of instructions follows the segment; the tree goes.   *)
Override ==
  /\ config' = [s \in Sections |->
                  IF s = "global" THEN read_globals(config[s])
                  ELSE read_cache_config(get_object_item(root, s), config[s])]
  /\ total_number_of_instructions' = Instructions(config'["global"].text_segment_limit)
  /\ cJSON_Delete(heap, strings, root)
  /\ root' = NULL
=============================================================================
