---------------------------- MODULE CacheLevel ----------------------------
(***************************************************************************)
(* One cache: struct cache_level, and the functions on a set of it.        *)
(*                                                                         *)
(* A cache s is [sets, ways, block, ...]; an address is counted in units   *)
(* of the smallest block.  A set is a function from ways to lines; the     *)
(* code repeats a line once per word of the block and keeps the copies     *)
(* equal.  The data of a line is left out: the code never fills it in.     *)
(***************************************************************************)
EXTENDS Integers, FiniteSetsExt

Bit == {0, 1}

(* calloc's zeros: the line is invalid, but it has an address. *)
EmptyLine == [addr |-> 0, valid |-> 0, dirty |-> 0, done |-> 0, reference |-> 0]

Line(addrs, stamps) ==
  [addr : addrs, valid : Bit, dirty : Bit, done : Bit, reference : stamps]

Index(addr, s) == (addr \div s.block) % s.sets

(* Slips: a tag that keeps the offset, and a block that starts at its end. *)
get_tag_WithOffset(addr, s) == addr

BlockAddr_NextBlock(addr, s) == addr - (addr % s.block) + s.block

get_tag(addr, s) == addr \div (s.block * s.sets)

BlockAddr(addr, s) == addr - (addr % s.block)

(* The addresses of the block that holds addr. *)
Block(addr, s) == BlockAddr(addr, s) .. BlockAddr(addr, s) + s.block - 1

Valid(lines) == {w \in DOMAIN lines : lines[w].valid = 1}

Matching(lines, addr, s) == {w \in DOMAIN lines : get_tag(lines[w].addr, s) = get_tag(addr, s)}

(* "hit"; "busy", a hit on a block some access is still transferring,      *)
(* which ends the program; "free", a miss with room for the block; "full". *)
find_block(lines, addr, s) ==
  LET found == Matching(lines, addr, s) \cap Valid(lines)
  IN  CASE found # {} /\ lines[Min(found)].done = 1 -> "hit"
        [] found # {} /\ lines[Min(found)].done = 0 -> "busy"
        [] found = {} /\ \E w \in DOMAIN lines : lines[w].valid = 0 \/ lines[w].done = 1 -> "free"
        [] OTHER -> "full"

(* set_dirty, set_done, set_reference: the first line with the tag gets    *)
(* the flag, valid or not; without one nothing happens.                    *)
SetFlag(lines, addr, s, flag, value) ==
  LET found == Matching(lines, addr, s)
  IN  IF found = {} THEN lines ELSE [lines EXCEPT ![Min(found)][flag] = value]

(* The first of the ways with the lowest reference. *)
Lowest(lines, ways) ==
  CHOOSE w \in ways : \A v \in ways \ {w} :
    \/ lines[w].reference < lines[v].reference
    \/ lines[w].reference = lines[v].reference /\ w < v

(* A slip: a victim that may be in use. *)
Victim_IgnoresLocks(lines) ==
  IF Valid(lines) # DOMAIN lines THEN Min(DOMAIN lines \ Valid(lines))
  ELSE Lowest(lines, DOMAIN lines)

(* The way evict_fifo and evict_lru replace: an invalid one, else the one  *)
(* with the lowest reference; if that is in use, the next lowest.          *)
Victim(lines) ==
  LET ways == DOMAIN lines
      oldest == Lowest(lines, ways)
  IN  IF Valid(lines) # ways THEN Min(ways \ Valid(lines))
      ELSE IF lines[oldest].done = 1 THEN oldest
      ELSE Lowest(lines, ways \ {oldest})

(* copy_from_mem and the four setters after it. *)
Place(lines, w, addr, s, now) ==
  [lines EXCEPT ![w] = [addr |-> BlockAddr(addr, s), valid |-> 1, dirty |-> 0, done |-> 0,
                        reference |-> now]]

(* References are cycle numbers and are only compared within a set, so     *)
(* after every cycle they are replaced by their ranks: this keeps them     *)
(* below Ways, the stamp of the cycle that runs.                           *)
Renumber(lines) ==
  LET refs == {lines[w].reference : w \in DOMAIN lines}
  IN  [w \in DOMAIN lines |->
         [lines[w] EXCEPT !.reference = Cardinality({r \in refs : r < lines[w].reference})]]
=============================================================================
