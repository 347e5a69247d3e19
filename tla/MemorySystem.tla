--------------------------- MODULE MemorySystem ---------------------------
(***************************************************************************)
(* The instruction port and the data port of memory.c on the caches, used  *)
(* the way simulate() uses them.                                           *)
(*                                                                         *)
(* In every cycle MA comes first: it starts an access, goes on with the    *)
(* one it waits for, or has none, and then may flush and cancel the fetch. *)
(* While MA waits, the cycle ends there: the fetch stands still.  Then EX  *)
(* and ID may stall, which ends the cycle, or redirect the fetch, and last *)
(* IF starts a fetch or goes on with one.  Which addresses are accessed,   *)
(* and when a stage stalls, is left open: that is the program's business.  *)
(***************************************************************************)
EXTENDS CacheHierarchy, MemoryPort

CONSTANTS
  Configs   \* the configurations of the caches to consider, each with the
            \* addresses that are fetched from, loaded from and stored to

VARIABLES
  config,      \* the geometry, policies and latencies
  caches,      \* the contents of each cache: set index -> way -> line
  phase,       \* what simulate() does next: "MA", "ID" (EX and ID) or "IF"
  status,      \* "running", or "exited" after one of the fatal checks
  mfc_i, mar_i,
  mfc, access, \* the access MA makes: mar, and which function it calls
  counter,     \* the static counters of the three functions
  unsaved,     \* the addresses whose last store has not reached the DRAM
  counted      \* what the access MA makes, or has just made, has counted

vars == <<config, caches, phase, status, mfc_i, mar_i, mfc, access, counter, unsaved, counted>>

Addresses(cfg) == cfg.text \cup cfg.loads \cup cfg.stores

Addr == Addresses(config)

Accesses == [port : {"r"}, addr : config.loads] \cup [port : {"w"}, addr : config.stores]

Latencies(cfg) ==
  {cfg.DRAM_READ_LATENCY, cfg.DRAM_WRITE_LATENCY} \cup
  {cfg[c].read_latency : c \in Caches} \cup {cfg[c].write_latency : c \in Caches}

(* Index bits are computed with log2 and shifts, which leaves a cache with *)
(* a single set without a defined index, and are those of a division when  *)
(* sets and blocks are powers of two.  Any other policy is an exit(1).     *)
ASSUME GeometryAssumption ==
  \A cfg \in Configs :
    /\ cfg.CACHE_LEVELS \in -1 .. 3
    /\ \A c \in Caches :
         /\ cfg[c].sets \in Nat \ {0, 1} /\ cfg[c].ways \in Nat \ {0} /\ cfg[c].block \in Nat \ {0}
         /\ cfg[c].replacement_policy \in {"FIFO", "LRU"}
         /\ cfg[c].write_policy \in {"through", "back"}
    /\ \A n \in Latencies(cfg) : n \in Nat /\ n > 0

ASSUME AddressAssumption ==
  \A cfg \in Configs :
    Addresses(cfg) # {} /\ Max(Addresses(cfg)) \in Nat /\ Addresses(cfg) \subseteq 0 .. Max(Addresses(cfg))

----------------------------------------------------------------------------
Empty(cfg) ==
  [c \in Caches |-> [i \in 0 .. cfg[c].sets - 1 |-> [w \in 1 .. cfg[c].ways |-> EmptyLine]]]

Init ==
  /\ config \in Configs
  /\ caches = Empty(config)
  /\ phase = "MA" /\ status = "running"
  /\ mfc_i = "COMPLETED" /\ mar_i = 0
  /\ mfc = "COMPLETED" /\ access = [port |-> "r", addr |-> 0]
  /\ counter = [i |-> -1, r |-> -1, w |-> -1]
  /\ unsaved = {} /\ counted = Nothing

(* Time only shows in the references of the lines. *)
Tick(h) == [c \in Caches |-> [i \in DOMAIN h[c] |-> Renumber(h[c][i])]]

----------------------------------------------------------------------------
(* The latency the caches answer to a new access. *)

set_read_i_counter(addr) ==
  IF config.CACHE_LEVELS = -1 THEN Answer(caches, 1, {})
  ELSE IF config.CACHE_LEVELS = 0 THEN Answer(caches, config.DRAM_READ_LATENCY, {})
  ELSE l1_read(config, caches, "l1_i", addr)

set_read_counter(addr) ==
  IF config.CACHE_LEVELS = -1 THEN Answer(caches, 1, {})
  ELSE IF config.CACHE_LEVELS = 0 THEN Answer(caches, config.DRAM_READ_LATENCY, {})
  ELSE l1_read(config, caches, "l1_d", addr)

set_write_counter(addr) ==
  IF config.CACHE_LEVELS = -1 THEN Answer(caches, 1, {addr})
  ELSE IF config.CACHE_LEVELS = 0 THEN Answer(caches, config.DRAM_WRITE_LATENCY, {addr})
  ELSE l1_write(config, caches, "l1_d", {addr})

(* One call of a port, read_memory_i, read_memory or write_memory: the      *)
(* caches are asked, with answer r, when the counter is not running.       *)
Outcome(port, addr, r, attempt) ==
  [result |-> IF r.fatal THEN "fatal" ELSE attempt.result,
   h |-> r.h, counted |-> r.counted,
   counter |-> [counter EXCEPT ![port] = attempt.counter],
   unsaved |-> (unsaved \cup (IF port = "w" /\ counter[port] < 0 /\ r.stalls # -1
                               THEN {addr} ELSE {})) \ r.saved]

Attempted(port, addr, r) == Outcome(port, addr, r, Attempt(counter[port], r.stalls))

Call(port, addr, asked) ==
  Attempted(port, addr, IF counter[port] < 0 THEN asked ELSE Answer(caches, 1, {}))

(* A slip: a cancelled fetch that leaves its block locked. *)
CancelFetch_LeavesLocks ==
  /\ mfc_i' = "COMPLETED"
  /\ counter' = [counter EXCEPT !.i = -1]
  /\ UNCHANGED <<mar_i, caches>>

CancelFetch ==
  /\ mfc_i' = "COMPLETED"
  /\ counter' = [counter EXCEPT !.i = -1]
  /\ caches' = complete_read_i(config, caches, mar_i)
  /\ UNCHANGED mar_i

Runs(p) == status = "running" /\ phase = p /\ UNCHANGED config

----------------------------------------------------------------------------
(* MA *)

(* The access MA makes next: the one it waits for, or any. *)
NextAccesses == IF mfc = "COMPLETED" THEN Accesses ELSE {access}

DataCall(a) ==
  Call(a.port, a.addr, IF a.port = "r" THEN set_read_counter(a.addr) ELSE set_write_counter(a.addr))

Accessed(a, call) ==
  /\ counter' = call.counter /\ unsaved' = call.unsaved
  /\ access' = a /\ counted' = Plus(counted, call.counted)

DataDone(a, call) ==
  /\ call.result = "done"
  /\ caches' = IF a.port = "r" THEN complete_read(config, call.h, a.addr)
                             ELSE complete_write(config, call.h, a.addr)
  /\ mfc' = "COMPLETED"
  /\ phase' = "ID"

DataPending(call) ==
  /\ call.result = "pending"
  /\ caches' = Tick(call.h)
  /\ mfc' = "NOT_COMPLETED"
  /\ phase' = "MA"

Transfer ==
  /\ Runs("MA")
  /\ \E a \in NextAccesses : \E call \in {DataCall(a)} :
       /\ DataDone(a, call) \/ DataPending(call)
       /\ Accessed(a, call)
  /\ UNCHANGED <<status, mfc_i, mar_i>>

NoAccess ==
  /\ Runs("MA") /\ mfc = "COMPLETED"
  /\ phase' = "ID"
  /\ UNCHANGED <<caches, status, mfc_i, mar_i, mfc, access, counter, unsaved, counted>>

(* A jump or a mispredicted branch in MA. *)
Flush ==
  /\ Runs("MA") /\ mfc = "COMPLETED"
  /\ CancelFetch
  /\ phase' = "ID"
  /\ UNCHANGED <<status, mfc, access, unsaved, counted>>

----------------------------------------------------------------------------
(* EX and ID.  What the access of MA has counted is forgotten here. *)

Proceed ==
  /\ Runs("ID") /\ counted' = Nothing
  /\ phase' = "IF"
  /\ UNCHANGED <<caches, status, mfc_i, mar_i, mfc, access, counter, unsaved>>

Stall ==
  /\ Runs("ID") /\ counted' = Nothing
  /\ phase' = "MA"
  /\ caches' = Tick(caches)
  /\ UNCHANGED <<status, mfc_i, mar_i, mfc, access, counter, unsaved>>

(* A branch predicted taken. *)
Redirect ==
  /\ Runs("ID") /\ counted' = Nothing
  /\ CancelFetch
  /\ phase' = "IF"
  /\ UNCHANGED <<status, mfc, access, unsaved>>

----------------------------------------------------------------------------
(* IF *)

NextFetches == IF mfc_i = "COMPLETED" THEN config.text ELSE {mar_i}

FetchCall(addr) == Call("i", addr, set_read_i_counter(addr))

FetchDone(addr, call) ==
  /\ call.result = "done"
  /\ caches' = Tick(complete_read_i(config, call.h, addr))
  /\ mfc_i' = "COMPLETED"

FetchPending(call) ==
  /\ call.result = "pending"
  /\ caches' = Tick(call.h)
  /\ mfc_i' = "NOT_COMPLETED"

Fetch ==
  /\ Runs("IF")
  /\ \E addr \in NextFetches : \E call \in {FetchCall(addr)} :
       /\ FetchDone(addr, call) \/ FetchPending(call)
       /\ counter' = call.counter /\ unsaved' = call.unsaved
       /\ mar_i' = addr
  /\ phase' = "MA"
  /\ UNCHANGED <<status, mfc, access, counted>>

(* A check of the caches called exit(1). *)
Exit ==
  /\ \/ Runs("MA") /\ \E a \in NextAccesses : DataCall(a).result = "fatal"
     \/ Runs("IF") /\ \E addr \in NextFetches : FetchCall(addr).result = "fatal"
  /\ status' = "exited"
  /\ UNCHANGED <<caches, phase, mfc_i, mar_i, mfc, access, counter, unsaved, counted>>

Stopped == status = "exited" /\ UNCHANGED vars

----------------------------------------------------------------------------
Next ==
  \/ Transfer \/ NoAccess \/ Flush
  \/ Proceed \/ Stall \/ Redirect
  \/ Fetch
  \/ Exit \/ Stopped

Spec == Init /\ [][Next]_vars

(* While MA waits, simulate() calls its function again in every cycle. *)
Retries == mfc = "NOT_COMPLETED" /\ Transfer

FairSpec == Spec /\ WF_vars(Retries)

----------------------------------------------------------------------------
(* Properties *)

TypeOK ==
  /\ config \in Configs
  /\ DOMAIN caches = Caches
  /\ \A c \in Caches :
       caches[c] \in [0 .. config[c].sets - 1 ->
                        [1 .. config[c].ways -> Line(0 .. Max(Addr), 0 .. Now(config, c))]]
  /\ phase \in {"MA", "ID", "IF"} /\ status \in {"running", "exited"}
  /\ mfc_i \in {"COMPLETED", "NOT_COMPLETED"} /\ mar_i \in Addr \cup {0}
  /\ mfc \in {"COMPLETED", "NOT_COMPLETED"} /\ access \in [port : {"r", "w"}, addr : Addr \cup {0}]
  /\ counter \in [i : {-2, -1} \cup Nat, r : {-2, -1} \cup Nat, w : {-2, -1} \cup Nat]
  /\ unsaved \subseteq config.stores
  /\ DOMAIN counted \subseteq Counters

(* The lines of the caches, as <<cache, set, way>>. *)
Places ==
  UNION {{c} \X (0 .. config[c].sets - 1) \X (1 .. config[c].ways) : c \in Caches}

LineAt(p) == caches[p[1]][p[2]][p[3]]

(* The addresses whose transfer through cache c has not completed. *)
InFlight(c) ==
  (IF c # "l1_d" /\ mfc_i = "NOT_COMPLETED" THEN {mar_i} ELSE {}) \cup
  (IF c # "l1_i" /\ mfc = "NOT_COMPLETED" THEN {access.addr} ELSE {})

(* Every flag is set on the first line with the block's tag, so no set may *)
(* hold a block twice: neither write-backs that arrive in the middle of    *)
(* another access nor write misses that read the block first add a second. *)
OneLinePerBlock ==
  \A c \in Caches : \A i \in DOMAIN caches[c] :
    LET lines == caches[c][i]
    IN  \A v, w \in Valid(lines) :
          v # w => lines[v].addr # lines[w].addr

(* A line is locked against eviction only while an access is transferring  *)
(* its block: completing an access, cancelling a fetch, and the lines a    *)
(* write-back or a write miss locks on the way, leave none behind.         *)
LocksReleased ==
  \A p \in Places : LineAt(p).valid = 1 /\ LineAt(p).done = 0
    => Block(LineAt(p).addr, config[p[1]]) \cap InFlight(p[1]) # {}

(* A line is not replaced while an access is transferring its block,       *)
(* although eviction passes over one locked line only and the two ports    *)
(* share the lower levels.                                                 *)
LockedIsKept ==
  [][\A p \in Places : LineAt(p).valid = 1 /\ LineAt(p).done = 0
       => LineAt(p).addr = caches'[p[1]][p[2]][p[3]].addr]_vars

(* What was stored has been charged to the DRAM, or some level still has   *)
(* its block dirty and will write it back: evictions, bypassed levels and  *)
(* write-backs that meet other accesses lose no store.                     *)
NoStoreLost ==
  \A a \in unsaved : \E p \in Places :
    /\ p[1] # "l1_i" /\ LineAt(p).valid = 1 /\ LineAt(p).dirty = 1
    /\ a \in Block(LineAt(p).addr, config[p[1]])

(* The counters of stats.h agree: an access is one read or one write of    *)
(* the first level, and a level is read and written as often as the one    *)
(* above it missed, passed a write on or wrote a block back.  The          *)
(* functions call each other, a write miss its own read and itself again,  *)
(* so what was counted on the way has to be taken back (write.c:119).      *)
Reads(c) == Amount(counted, <<c, "hit_r">>) + Amount(counted, <<c, "miss_r">>)

Writes(c) == Amount(counted, <<c, "hit_w">>) + Amount(counted, <<c, "miss_w">>)

Allocated(c) ==
  IF config[c].write_miss_policy = "allocate" THEN Amount(counted, <<c, "miss_w">>) ELSE 0

PassedOn(c) ==
  IF config[c].write_policy = "through" THEN Writes(c)
  ELSE Amount(counted, <<c, "miss_w">>) - Allocated(c)

RequestsAddUp ==
  phase = "ID" /\ counted # Nothing =>
    /\ \A k \in DOMAIN counted : counted[k] > 0
    /\ Reads("l1_d") = (IF access.port = "r" THEN 1 ELSE 0)
    /\ Writes("l1_d") = (IF access.port = "w" THEN 1 ELSE 0)
    /\ \A c \in {"l1_d", "l2"} : Below(config, c) # "dram" =>
         /\ Reads(Below(config, c)) = Amount(counted, <<c, "miss_r">>) + Allocated(c)
         /\ Writes(Below(config, c)) = Amount(counted, <<c, "writebacks">>) + PassedOn(c)

(* None of the checks of the caches ends the program: no access meets a    *)
(* block that another one is transferring, and no write that follows its   *)
(* own read misses.                                                        *)
NeverExits == status = "running"

(* A load or store that waits for the caches completes. *)
DataCompletes == mfc = "NOT_COMPLETED" ~> mfc = "COMPLETED"
=============================================================================
