-------------------------- MODULE CacheHierarchy --------------------------
(***************************************************************************)
(* The hierarchy of read.c, write.c and eviction.c: the split first level, *)
(* the shared second and third levels and the DRAM.                        *)
(*                                                                         *)
(* The functions of a level are those of the others with another cache and *)
(* another level below.  An access maps the contents of all the caches to  *)
(*   [h |-> the new contents, stalls |-> its latency,                      *)
(*    fatal |-> whether an exit(1) was reached,                            *)
(*    saved |-> the addresses whose stored data went on to the DRAM,       *)
(*    counted |-> how much it adds to the counters of stats.h]             *)
(* with stalls = -1 for a structural hazard.  "saved" is not in the code,  *)
(* which moves no data: it says which DRAM_WRITE_LATENCY was charged for   *)
(* whose data.                                                             *)
(***************************************************************************)
EXTENDS CacheLevel

Caches == {"l1_i", "l1_d", "l2", "l3"}

(* Where an access starts: "dram" in a machine without caches. *)
First(config, c) == IF config.CACHE_LEVELS > 0 THEN c ELSE "dram"

(* The level a miss in cache c turns to. *)
Below(config, c) ==
  CASE c \in {"l1_i", "l1_d"} /\ config.CACHE_LEVELS > 1 -> "l2"
    [] c = "l2" /\ config.CACHE_LEVELS > 2 -> "l3"
    [] OTHER -> "dram"

Lines(config, h, c, addr) == h[c][Index(addr, config[c])]

Find(config, h, c, addr) == find_block(Lines(config, h, c, addr), addr, config[c])

Flag(config, h, c, addr, flag, value) ==
  [h EXCEPT ![c][Index(addr, config[c])] =
     SetFlag(Lines(config, h, c, addr), addr, config[c], flag, value)]

(* The stamp of the running cycle: above every renumbered reference. *)
Now(config, c) == config[c].ways

touch(config, h, c, addr) ==
  IF config[c].replacement_policy = "LRU"
  THEN Flag(config, h, c, addr, "reference", Now(config, c)) ELSE h

(* A hit is touched and is in use until the access completes. *)
Use(config, h, c, addr) == Flag(config, touch(config, h, c, addr), c, addr, "done", 0)

(* The caches an access that starts at c goes through. *)
Path(config, c) == {c, Below(config, c), Below(config, Below(config, c))} \cap Caches

(* A slip: the end of an access that unlocks its block in one level only. *)
Done_OneLevel(config, h, c, addr) ==
  IF c = "dram" THEN h ELSE Flag(config, h, c, addr, "done", 1)

(* complete_below *)
Done(config, h, c, addr) ==
  [d \in Caches |-> IF d \in Path(config, c) THEN Flag(config, h, d, addr, "done", 1)[d] ELSE h[d]]

complete_read_i(config, h, addr) == Done(config, h, First(config, "l1_i"), addr)

complete_read(config, h, addr) == Done(config, h, First(config, "l1_d"), addr)

complete_write(config, h, addr) == Done(config, h, First(config, "l1_d"), addr)

(* Amounts by counter, <<cache, what>>; the ones that are 0 are left out.  *)
Counters == Caches \X {"hit_r", "hit_w", "miss_r", "miss_w", "writebacks"}

Nothing == [k \in {} |-> 0]

Amount(f, k) == IF k \in DOMAIN f THEN f[k] ELSE 0

Plus(f, g) ==
  [k \in {k \in DOMAIN f \cup DOMAIN g : Amount(f, k) + Amount(g, k) # 0} |->
     Amount(f, k) + Amount(g, k)]

Answer(h, stalls, saved) ==
  [h |-> h, stalls |-> stalls, saved |-> saved, counted |-> Nothing, fatal |-> FALSE]

Fatal(h) == [Answer(h, -1, {}) EXCEPT !.fatal = TRUE]

Count(r, c, what, k) == [r EXCEPT !.counted = Plus(@, [x \in {<<c, what>>} |-> k])]

(* r, then what follows on its contents; a refusal of r ends the access.   *)
Then(r, next) ==
  IF r.stalls = -1 THEN r
  ELSE [next EXCEPT !.saved = @ \cup r.saved, !.counted = Plus(@, r.counted),
                    !.stalls = IF @ = -1 THEN -1 ELSE @ + r.stalls]

-----------------------------------------------------------------------------
(* The parts that the levels have in common, given what a level below has  *)
(* answered.                                                               *)

FromDram(config, h) == Answer(h, config.DRAM_READ_LATENCY, {})

ToDram(config, h, addrs) == Answer(h, config.DRAM_WRITE_LATENCY, addrs)

ReadHit(config, h, c, addr) ==
  Count(Answer(Use(config, h, c, addr), config[c].read_latency, {}), c, "hit_r", 1)

(* The block has come from below and has replaced another one. *)
ReadMiss(config, r, c) == Then(r, Count(Answer(r.h, config[c].read_latency, {}), c, "miss_r", 1))

ReadIn(config, h, c, addr, placed) ==
  LET outcome == Find(config, h, c, addr)
  IN  CASE outcome = "hit"  -> ReadHit(config, h, c, addr)
        [] outcome = "busy" -> Fatal(h)
        [] outcome = "full" -> Answer(h, -1, {})
        [] outcome = "free" -> ReadMiss(config, placed, c)

(* A slip: the write policies the other way round. *)
WritesBack_Through(lines, way, s) ==
  Valid(lines) = DOMAIN lines /\ s.write_policy = "through" /\ lines[way].dirty = 1

(* Whether evicting this way of a set of a cache s writes it back. *)
WritesBack(lines, way, s) ==
  Valid(lines) = DOMAIN lines /\ s.write_policy = "back" /\ lines[way].dirty = 1

(* The block that makes room for addr. *)
Evicted(config, h, c, addr) ==
  LET lines == Lines(config, h, c, addr) IN Block(lines[Victim(lines)].addr, config[c])

(* The level below has been written, w, and its access completes at once.  *)
(* The switch on s.level: the second level counts it only above a third.   *)
WriteBack(config, w, c, block) ==
  Count([w EXCEPT !.h = Done(config, @, Below(config, c), Min(block))], c, "writebacks",
        IF c = "l2" /\ Below(config, c) = "dram" THEN 0 ELSE 1)

(* The block is replaced even when the level below refuses the write-back. *)
Replace(config, h, c, addr, w, way) ==
  [(IF WritesBack(Lines(config, h, c, addr), way, config[c])
    THEN WriteBack(config, w, c, Evicted(config, h, c, addr)) ELSE Answer(h, 0, {}))
   EXCEPT !.h[c][Index(addr, config[c])] = Place(@, way, addr, config[c], Now(config, c))]

evict_fifo(config, h, c, addr, w) ==
  IF Find(config, h, c, addr) # "free" THEN Fatal(h)
  ELSE Replace(config, h, c, addr, w, Victim(Lines(config, h, c, addr)))

(* The same: only touch() tells the policies apart. *)
evict_lru(config, h, c, addr, w) == evict_fifo(config, h, c, addr, w)

evict(config, h, c, addr, w) ==
  CASE config[c].replacement_policy = "FIFO" -> evict_fifo(config, h, c, addr, w)
    [] config[c].replacement_policy = "LRU"  -> evict_lru(config, h, c, addr, w)

(* The writes are of the data of a set of addresses, the first of which is *)
(* the one the function is called with.  What a hit does before the block  *)
(* is used: the data goes on, as "passed" says, or stays.                  *)
Stored(config, h, c, addrs, passed) ==
  CASE config[c].write_policy = "through" -> passed
    [] config[c].write_policy = "back" -> Answer(Flag(config, h, c, Min(addrs), "dirty", 1), 0, {})

HitWritten(config, r, c, addr) ==
  Then(r, Count(Answer(Use(config, r.h, c, addr), config[c].write_latency, {}), c, "hit_w", 1))

WriteHit(config, h, c, addrs, passed) ==
  HitWritten(config, Stored(config, h, c, addrs, passed), c, Min(addrs))

(* A slip: the miss the read has counted stays. *)
Corrected_MissKept(r, c) == Count(Count(r, c, "hit_w", -1), c, "miss_w", 1)

(* The read's miss and the second write's hit are one write miss. *)
Corrected(r, c) == Count(Count(Count(r, c, "miss_r", -1), c, "hit_w", -1), c, "miss_w", 1)

(* The second write, w if it is a hit.  The block that was read is there:  *)
(* anything else, like a refusal, is the end of the program.               *)
Repeated(config, h, c, addrs, w) ==
  IF Find(config, h, c, Min(addrs)) # "hit" \/ w.stalls = -1 THEN Fatal(h) ELSE Corrected(w, c)

MissWritten(r, c) == IF r.stalls = -1 THEN r ELSE Count(r, c, "miss_w", 1)

WriteIn(config, h, c, addrs, passed, allocated) ==
  LET outcome == Find(config, h, c, Min(addrs))
      allocates == config[c].write_miss_policy = "allocate"
  IN  CASE outcome = "busy" -> Fatal(h)
        [] outcome = "hit" -> WriteHit(config, h, c, addrs, passed)
        [] outcome = "full" /\ allocates -> Answer(h, -1, {})
        [] outcome = "free" /\ allocates -> allocated
        [] outcome \in {"full", "free"} /\ ~allocates -> MissWritten(passed, c)

-----------------------------------------------------------------------------
(* The third level. *)

l3_evict(config, h, addr) ==
  evict(config, h, "l3", addr, ToDram(config, h, Evicted(config, h, "l3", addr)))

l3_placed(config, r, addr) == Then(r, l3_evict(config, r.h, addr))

l3_read(config, h, addr) ==
  ReadIn(config, h, "l3", addr, l3_placed(config, FromDram(config, h), addr))

l3_again(config, h, addrs) ==
  Repeated(config, h, "l3", addrs, WriteHit(config, h, "l3", addrs, ToDram(config, h, addrs)))

l3_allocated(config, r, addrs) ==
  Then(r, l3_again(config, Done(config, r.h, "l3", Min(addrs)), addrs))

l3_write(config, h, addrs) ==
  WriteIn(config, h, "l3", addrs, ToDram(config, h, addrs),
          l3_allocated(config, l3_read(config, h, Min(addrs)), addrs))

-----------------------------------------------------------------------------
(* The second level, above the third or the DRAM. *)

l2_fetch(config, h, addr) ==
  IF Below(config, "l2") = "l3" THEN l3_read(config, h, addr) ELSE FromDram(config, h)

l2_pass(config, h, addrs) ==
  IF Below(config, "l2") = "l3" THEN l3_write(config, h, addrs) ELSE ToDram(config, h, addrs)

l2_evict(config, h, addr) ==
  evict(config, h, "l2", addr, l2_pass(config, h, Evicted(config, h, "l2", addr)))

l2_placed(config, r, addr) == Then(r, l2_evict(config, r.h, addr))

l2_read(config, h, addr) ==
  ReadIn(config, h, "l2", addr, l2_placed(config, l2_fetch(config, h, addr), addr))

l2_again(config, h, addrs) ==
  Repeated(config, h, "l2", addrs, WriteHit(config, h, "l2", addrs, l2_pass(config, h, addrs)))

l2_allocated(config, r, addrs) ==
  Then(r, l2_again(config, Done(config, r.h, "l2", Min(addrs)), addrs))

l2_write(config, h, addrs) ==
  WriteIn(config, h, "l2", addrs, l2_pass(config, h, addrs),
          l2_allocated(config, l2_read(config, h, Min(addrs)), addrs))

-----------------------------------------------------------------------------
(* The first level: c is l1_i or l1_d. *)

l1_fetch(config, h, c, addr) ==
  IF Below(config, c) = "l2" THEN l2_read(config, h, addr) ELSE FromDram(config, h)

l1_pass(config, h, c, addrs) ==
  IF Below(config, c) = "l2" THEN l2_write(config, h, addrs) ELSE ToDram(config, h, addrs)

l1_evict(config, h, c, addr) ==
  evict(config, h, c, addr, l1_pass(config, h, c, Evicted(config, h, c, addr)))

l1_placed(config, r, c, addr) == Then(r, l1_evict(config, r.h, c, addr))

(* l1_i_read, l1_d_read *)
l1_read(config, h, c, addr) ==
  ReadIn(config, h, c, addr, l1_placed(config, l1_fetch(config, h, c, addr), c, addr))

l1_again(config, h, c, addrs) ==
  Repeated(config, h, c, addrs, WriteHit(config, h, c, addrs, l1_pass(config, h, c, addrs)))

l1_allocated(config, r, c, addrs) ==
  Then(r, l1_again(config, Done(config, r.h, c, Min(addrs)), c, addrs))

(* l1_d_write *)
l1_write(config, h, c, addrs) ==
  WriteIn(config, h, c, addrs, l1_pass(config, h, c, addrs),
          l1_allocated(config, l1_read(config, h, c, Min(addrs)), c, addrs))
=============================================================================
