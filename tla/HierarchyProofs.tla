-------------------------- MODULE HierarchyProofs --------------------------
(***************************************************************************)
(* Theorems about the caches and the two ports on them: module             *)
(* MemorySystem, for every configuration.                                  *)
(***************************************************************************)
EXTENDS MemorySystem, CacheProofs

IsGoodCache(s) ==
  /\ s.sets \in Nat \ {0} /\ s.ways \in Nat \ {0} /\ s.block \in Nat \ {0}
  /\ s.replacement_policy \in {"FIFO", "LRU"} /\ s.write_policy \in {"through", "back"}
  /\ s.read_latency \in Nat \ {0} /\ s.write_latency \in Nat \ {0}

(* A set of lines, the i-th of cache s, for addresses up to top: valid     *)
(* lines come first, hold different blocks, and blocks of this set.        *)
SetInv(lines, i, s, top) ==
  /\ lines \in [1 .. s.ways -> Line(0 .. top, 0 .. s.ways)]
  /\ \A v, w \in 1 .. s.ways : v < w /\ lines[w].valid = 1 => lines[v].valid = 1
  /\ OneLinePerTag(lines, s)
  /\ \A w \in Valid(lines) :
       BlockAddr(lines[w].addr, s) = lines[w].addr /\ Index(lines[w].addr, s) = i

(* The blocks of the lines that may not be evicted. *)
LockedBlocks(lines) == {lines[w].addr : w \in Locked(lines)}

-----------------------------------------------------------------------------
(* Addresses *)

LEMMA TagAndIndex ==
  ASSUME NEW s, IsCache(s), NEW addr \in Nat
  PROVE  addr \div s.block = s.sets * get_tag(addr, s) + Index(addr, s)
<1> DEFINE b == s.block
           m == s.sets
           u == (addr \div b) % m
           t == (addr \div b) \div m
           r == addr % b
<1>1. b \in Nat \ {0} /\ m \in Nat \ {0}
  BY DEF IsCache
<1>2. get_tag(addr, s) = addr \div (b * m) /\ Index(addr, s) = u
  BY DEF get_tag, Index
<1> HIDE DEF b, m
<1>3. r \in Nat /\ r < b /\ addr \div b \in Nat /\ addr = b * (addr \div b) + r
  BY <1>1
<1>4. u \in Nat /\ u < m /\ t \in Nat /\ addr \div b = m * t + u
  BY <1>1, <1>3
<1> HIDE DEF u, t, r
<1>5. addr = (b * m) * t + (b * u + r)
  BY <1>1, <1>3, <1>4
<1>6. b * m \in Nat \ {0} /\ b * u \in Nat
  BY <1>1, <1>4
<1>7. b * u + b <= b * m
  <2>1. u + 1 <= m
    BY <1>1, <1>4
  <2>2. b * (u + 1) <= b * m
    BY <1>1, <1>4, <2>1
  <2> QED
    BY <1>1, <1>4, <2>2
<1>8. b * u + r \in Nat /\ b * u + r < b * m
  BY <1>1, <1>3, <1>6, <1>7
<1> DEFINE d == b * m
           o == b * u + r
<1>9. d \in Nat \ {0} /\ o \in Nat /\ o < d /\ addr = d * t + o
  BY <1>5, <1>6, <1>8
<1> HIDE DEF d, o
<1>10. (d * t + o) \div d = t
  BY <1>4, <1>9, DivisionIsUnique
<1>11. addr \div d = t
  BY <1>9, <1>10
<1>12. addr \div (b * m) = t
  BY <1>11 DEF d
<1> QED
  BY <1>2, <1>4, <1>12 DEF b, m

LEMMA MultipleDivides ==
  ASSUME NEW d \in Nat \ {0}, NEW q \in Nat
  PROVE  (d * q) \div d = q /\ (d * q) % d = 0
OBVIOUS

LEMMA BlockAddrFacts ==
  ASSUME NEW s, IsCache(s), NEW addr \in Nat
  PROVE  /\ BlockAddr(addr, s) \in Nat /\ BlockAddr(addr, s) <= addr
         /\ BlockAddr(addr, s) = s.block * (addr \div s.block)
         /\ addr \in Block(addr, s)
         /\ addr \div s.block = BlockAddr(addr, s) \div s.block
         /\ BlockAddr(BlockAddr(addr, s), s) = BlockAddr(addr, s)
<1> DEFINE b == s.block
           q == addr \div b
           r == addr % b
<1>1. b \in Nat \ {0}
  BY DEF IsCache
<1> HIDE DEF b
<1>2. r \in Nat /\ r < b /\ q \in Nat /\ addr = b * q + r
  BY <1>1
<1>3. BlockAddr(addr, s) = addr - r
  BY DEF BlockAddr, b
<1> HIDE DEF q, r
<1>4. BlockAddr(addr, s) = b * q /\ b * q \in Nat
  BY <1>1, <1>2, <1>3
<1>5. (b * q) \div b = q /\ (b * q) % b = 0
  BY <1>1, <1>2, MultipleDivides
<1>6. BlockAddr(b * q, s) = b * q
  BY <1>4, <1>5 DEF BlockAddr, b
<1>7. addr \in Block(addr, s)
  BY <1>1, <1>2, <1>4, <1>3 DEF Block, b
<1> QED
  BY <1>2, <1>3, <1>4, <1>5, <1>6, <1>7 DEF q, b

(* Tag and index name a block. *)
LEMMA TagNamesTheBlock ==
  ASSUME NEW s, IsCache(s), NEW x \in Nat, NEW addr \in Nat, BlockAddr(x, s) = x,
         Index(x, s) = Index(addr, s), get_tag(x, s) = get_tag(addr, s)
  PROVE  x = BlockAddr(addr, s)
<1>1. x \div s.block = addr \div s.block
  BY TagAndIndex
<1> QED
  BY <1>1, BlockAddrFacts

LEMMA BlockKeepsTheIndex ==
  ASSUME NEW s, IsCache(s), NEW addr \in Nat
  PROVE  Index(BlockAddr(addr, s), s) = Index(addr, s)
BY BlockAddrFacts DEF Index

LEMMA IndexIsOfASet ==
  ASSUME NEW s, IsCache(s), NEW addr \in Nat
  PROVE  Index(addr, s) \in 0 .. s.sets - 1
<1>1. addr \div s.block \in Nat /\ s.sets \in Nat \ {0}
  BY DEF IsCache
<1> DEFINE q == addr \div s.block
           m == s.sets
<1> HIDE DEF q, m
<1>2. q % m \in 0 .. m - 1
  BY <1>1 DEF q, m
<1> QED
  BY <1>2 DEF Index, q, m

LEMMA FirstOfBlock ==
  ASSUME NEW s, IsCache(s), NEW addr \in Nat
  PROVE  Min(Block(addr, s)) = BlockAddr(addr, s)
<1>1. BlockAddr(addr, s) \in Nat /\ s.block \in Nat \ {0}
  BY BlockAddrFacts DEF IsCache
<1>2. Block(addr, s) \in SUBSET Nat /\ BlockAddr(addr, s) \in Block(addr, s)
      /\ \A y \in Block(addr, s) : BlockAddr(addr, s) <= y
  BY <1>1 DEF Block
<1> QED
  BY <1>2, MinIsUnique

-----------------------------------------------------------------------------
(* Setters *)

(* What may be written to a flag of a line of s. *)
Legal(flag, value, s) ==
  \/ flag \in {"dirty", "done"} /\ value \in Bit
  \/ flag = "reference" /\ value \in 0 .. s.ways

LEMMA SetTypes ==
  ASSUME NEW s, NEW i, NEW top \in Nat, NEW lines, SetInv(lines, i, s, top),
         NEW w \in 1 .. s.ways
  PROVE  /\ lines[w].addr \in 0 .. top /\ lines[w].valid \in Bit /\ lines[w].dirty \in Bit
         /\ lines[w].done \in Bit /\ lines[w].reference \in 0 .. s.ways
BY DEF SetInv, Line

LEMMA SetsAreSets ==
  ASSUME NEW s, IsGoodCache(s), NEW i, NEW top \in Nat, NEW lines, SetInv(lines, i, s, top)
  PROVE  lines \in SetsOf(s.ways) /\ DOMAIN lines = 1 .. s.ways
<1>1. s.ways \in Nat
  BY DEF IsGoodCache
<1>2. \A w \in 1 .. s.ways : lines[w] \in Line(Nat, Nat)
  BY <1>1 DEF SetInv, Line
<1> QED
  BY <1>2 DEF SetInv, SetsOf

(* The lines of new are those of lines, but for a flag of way m. *)
OneFlagChanges(lines, new, s, top, m, flag, value) ==
  /\ new \in [1 .. s.ways -> Line(0 .. top, 0 .. s.ways)]
  /\ \A w \in 1 .. s.ways :
       /\ new[w].addr = lines[w].addr /\ new[w].valid = lines[w].valid
       /\ w # m => new[w] = lines[w]
       /\ flag # "done" => new[w].done = lines[w].done
       /\ flag # "dirty" => new[w].dirty = lines[w].dirty
       /\ w = m /\ flag = "done" => new[w].done = value
       /\ w = m /\ flag = "dirty" => new[w].dirty = value

(* A setter changes one flag of the first line with the tag, or nothing. *)
LEMMA SetFlagChanges ==
  ASSUME NEW s, IsGoodCache(s), NEW i, NEW top \in Nat, NEW lines, SetInv(lines, i, s, top),
         NEW addr \in 0 .. top, NEW flag, NEW value, Legal(flag, value, s),
         Matching(lines, addr, s) # {}
  PROVE  \E m \in Matching(lines, addr, s) :
           /\ \A w \in Matching(lines, addr, s) : m <= w
           /\ OneFlagChanges(lines, SetFlag(lines, addr, s, flag, value), s, top, m, flag, value)
<1> DEFINE found == Matching(lines, addr, s)
           m == Min(found)
           new == SetFlag(lines, addr, s, flag, value)
           ways == 1 .. s.ways
           T == Line(0 .. top, 0 .. s.ways)
<1>1. DOMAIN lines = ways /\ \A w \in ways : lines[w] \in T
  BY DEF SetInv
<1>2. found \subseteq ways /\ found \in SUBSET Nat
  BY <1>1 DEF Matching
<1>3. m \in found /\ \A w \in found : m <= w
  BY <1>2, MinIsLeast
<1>4. new = [lines EXCEPT ![m][flag] = value]
  BY DEF SetFlag
<1> HIDE DEF m, found, new
<1>5. PICK a \in 0 .. top, v \in Bit, d \in Bit, o \in Bit, r \in 0 .. s.ways :
        lines[m] = [addr |-> a, valid |-> v, dirty |-> d, done |-> o, reference |-> r]
  BY <1>1, <1>2, <1>3 DEF Line
<1>6. /\ DOMAIN new = ways
      /\ \A w \in ways \ {m} : new[w] = lines[w]
      /\ new[m] = [lines[m] EXCEPT ![flag] = value]
  BY <1>1, <1>2, <1>3, <1>4
<1>7. new[m] = [addr |-> a, valid |-> v, dirty |-> IF flag = "dirty" THEN value ELSE d,
                done |-> IF flag = "done" THEN value ELSE o,
                reference |-> IF flag = "reference" THEN value ELSE r]
  <2>1. CASE flag = "dirty"
    BY <1>5, <1>6, <2>1
  <2>2. CASE flag = "done"
    BY <1>5, <1>6, <2>2
  <2>3. CASE flag = "reference"
    BY <1>5, <1>6, <2>3
  <2> QED
    BY <2>1, <2>2, <2>3 DEF Legal
<1>8. new[m] \in T
  BY <1>7 DEF Legal, Line
<1>9. new \in [ways -> T]
  <2>1. new = [w \in ways |-> new[w]]
    BY <1>1, <1>4
  <2> QED
    BY <1>1, <1>6, <1>8, <2>1
<1>10. OneFlagChanges(lines, new, s, top, m, flag, value)
  BY <1>5, <1>6, <1>7, <1>9 DEF OneFlagChanges
<1> QED
  BY <1>3, <1>10 DEF found, new

LEMMA SetFlagInv ==
  ASSUME NEW s, IsGoodCache(s), NEW i, NEW top \in Nat, NEW lines, SetInv(lines, i, s, top),
         NEW addr \in 0 .. top, NEW flag, NEW value, Legal(flag, value, s)
  PROVE  /\ SetInv(SetFlag(lines, addr, s, flag, value), i, s, top)
         /\ Valid(SetFlag(lines, addr, s, flag, value)) = Valid(lines)
         /\ \A w \in 1 .. s.ways : SetFlag(lines, addr, s, flag, value)[w].addr = lines[w].addr
<1> DEFINE new == SetFlag(lines, addr, s, flag, value)
<1>1. CASE Matching(lines, addr, s) = {}
  BY <1>1 DEF SetFlag
<1>2. CASE Matching(lines, addr, s) # {}
  <2>1. /\ new \in [1 .. s.ways -> Line(0 .. top, 0 .. s.ways)]
        /\ \A w \in 1 .. s.ways : new[w].addr = lines[w].addr /\ new[w].valid = lines[w].valid
    <3>1. PICK m : OneFlagChanges(lines, new, s, top, m, flag, value)
      BY <1>2, SetFlagChanges
    <3> HIDE DEF new
    <3> QED
      BY <3>1 DEF OneFlagChanges
  <2> HIDE DEF new
  <2>2. Valid(new) = Valid(lines)
    BY <2>1 DEF Valid, SetInv
  <2>3. Valid(lines) \subseteq 1 .. s.ways
    BY DEF Valid, SetInv
  <2> QED
    BY <2>1, <2>2, <2>3 DEF SetInv, OneLinePerTag, new
<1> QED
  BY <1>1, <1>2

(* Only set_done() with 0 locks a block, and only the one it is called for. *)
LEMMA SetFlagLocks ==
  ASSUME NEW s, IsGoodCache(s), NEW top \in Nat, NEW addr \in 0 .. top, NEW lines,
         SetInv(lines, Index(addr, s), s, top), NEW flag, NEW value, Legal(flag, value, s)
  PROVE  /\ LockedBlocks(SetFlag(lines, addr, s, flag, value))
              \subseteq LockedBlocks(lines) \cup {BlockAddr(addr, s)}
         /\ flag # "done" \/ value = 1 =>
              LockedBlocks(SetFlag(lines, addr, s, flag, value)) \subseteq LockedBlocks(lines)
<1> DEFINE new == SetFlag(lines, addr, s, flag, value)
<1>1. CASE Matching(lines, addr, s) = {}
  BY <1>1 DEF SetFlag
<1>2. CASE Matching(lines, addr, s) # {}
  <2>1. PICK m \in Matching(lines, addr, s) :
          OneFlagChanges(lines, new, s, top, m, flag, value)
    BY <1>2, SetFlagChanges
  <2> HIDE DEF new
  <2>2. Locked(lines) \subseteq 1 .. s.ways /\ Locked(new) \subseteq 1 .. s.ways
    BY <2>1 DEF Locked, Valid, SetInv, OneFlagChanges
  <2>3. \A w \in Locked(new) \ {m} : w \in Locked(lines)
    BY <2>1, <2>2 DEF Locked, Valid, SetInv, OneFlagChanges
  <2>4. m \in Locked(new) => lines[m].addr = BlockAddr(addr, s)
    <3> SUFFICES ASSUME m \in Locked(new) PROVE lines[m].addr = BlockAddr(addr, s)
      OBVIOUS
    <3>1. m \in Valid(lines) /\ m \in 1 .. s.ways
      BY <2>1, <2>2 DEF Locked, Valid, SetInv, OneFlagChanges
    <3>2. lines[m].addr \in Nat /\ addr \in Nat /\ IsCache(s)
      BY <3>1, SetTypes DEF IsGoodCache, IsCache
    <3>3. /\ BlockAddr(lines[m].addr, s) = lines[m].addr
          /\ Index(lines[m].addr, s) = Index(addr, s)
          /\ get_tag(lines[m].addr, s) = get_tag(addr, s)
      BY <3>1 DEF SetInv, Matching
    <3> QED
      BY <3>2, <3>3, TagNamesTheBlock
  <2>5. flag # "done" \/ value = 1 => (m \in Locked(new) => m \in Locked(lines))
    BY <2>1, <2>2 DEF Locked, Valid, SetInv, OneFlagChanges
  <2> QED
    BY <2>1, <2>2, <2>3, <2>4, <2>5 DEF LockedBlocks, OneFlagChanges, new
<1> QED
  BY <1>1, <1>2

(* set_done() with 1 unlocks the block. *)
LEMMA SetDoneUnlocks ==
  ASSUME NEW s, IsGoodCache(s), NEW i, NEW top \in Nat, NEW addr \in 0 .. top, NEW lines,
         SetInv(lines, i, s, top)
  PROVE  BlockAddr(addr, s) \notin LockedBlocks(SetFlag(lines, addr, s, "done", 1))
<1> DEFINE new == SetFlag(lines, addr, s, "done", 1)
<1> SUFFICES ASSUME NEW w \in Locked(new), new[w].addr = BlockAddr(addr, s) PROVE FALSE
  BY DEF LockedBlocks
<1>1. SetInv(new, i, s, top) /\ Valid(new) = Valid(lines)
      /\ \A v \in 1 .. s.ways : new[v].addr = lines[v].addr
  <2>1. Legal("done", 1, s)
    BY DEF Legal, Bit
  <2> QED
    BY <2>1, SetFlagInv
<1> HIDE DEF new
<1>2. w \in 1 .. s.ways /\ w \in Valid(lines) /\ new[w].done = 0
  BY <1>1 DEF Locked, Valid, SetInv
<1>3. w \in Matching(lines, addr, s)
  <2>1. IsCache(s) /\ addr \in Nat
    BY DEF IsGoodCache, IsCache
  <2> QED
    BY <1>1, <1>2, <2>1, BlockHasTheTag DEF Matching, Valid
<1>4. PICK m \in Matching(lines, addr, s) :
        /\ \A v \in Matching(lines, addr, s) : m <= v
        /\ OneFlagChanges(lines, new, s, top, m, "done", 1)
  <2>1. Legal("done", 1, s) /\ Matching(lines, addr, s) # {}
    BY <1>3 DEF Legal, Bit
  <2> QED
    BY <2>1, SetFlagChanges DEF new
<1>5. m \in 1 .. s.ways /\ m <= w /\ new[m].done = 1
  BY <1>3, <1>4 DEF Matching, SetInv, OneFlagChanges
<1>6. m \in Valid(lines)
  <2>1. CASE m = w
    BY <1>2, <2>1
  <2>2. CASE m < w
    BY <1>2, <1>5, <2>2 DEF SetInv, Valid
  <2> QED
    BY <1>2, <1>5, <2>1, <2>2
<1>7. m = w
  BY <1>2, <1>3, <1>4, <1>6 DEF SetInv, OneLinePerTag, Matching
<1> QED
  BY <1>2, <1>5, <1>7

(* A block that takes the victim's place behind a miss is locked. *)
LEMMA PlaceInv ==
  ASSUME NEW s, IsGoodCache(s), NEW top \in Nat, NEW addr \in 0 .. top, NEW lines,
         SetInv(lines, Index(addr, s), s, top), find_block(lines, addr, s) = "free"
  PROVE  /\ SetInv(Place(lines, Victim(lines), addr, s, s.ways), Index(addr, s), s, top)
         /\ LockedBlocks(Place(lines, Victim(lines), addr, s, s.ways))
              \subseteq LockedBlocks(lines) \cup {BlockAddr(addr, s)}
<1> DEFINE ways == 1 .. s.ways
           T == Line(0 .. top, 0 .. s.ways)
           victim == Victim(lines)
           new == Place(lines, victim, addr, s, s.ways)
           line == [addr |-> BlockAddr(addr, s), valid |-> 1, dirty |-> 0, done |-> 0,
                    reference |-> s.ways]
<1>1. lines \in SetsOf(s.ways) /\ s.ways \in Nat /\ IsCache(s) /\ addr \in Nat
  BY SetsAreSets DEF IsGoodCache, IsCache
<1>2. victim \in ways
  BY <1>1, VictimIsAWay
<1>3. OneLinePerTag(new, s)
  BY <1>1, EvictionKeepsOneLinePerTag DEF SetInv
<1>4. BlockAddr(addr, s) \in 0 .. top /\ BlockAddr(BlockAddr(addr, s), s) = BlockAddr(addr, s)
      /\ Index(BlockAddr(addr, s), s) = Index(addr, s)
  BY <1>1, BlockAddrFacts, BlockKeepsTheIndex
<1>5. Valid(lines) # ways => \A w \in ways : w < victim => lines[w].valid = 1
  <2> SUFFICES ASSUME Valid(lines) # ways, NEW w \in ways, w < victim, lines[w].valid # 1
               PROVE  FALSE
    OBVIOUS
  <2>1. DOMAIN lines = ways
    BY DEF SetInv
  <2>2. victim = Min(ways \ Valid(lines)) /\ w \in ways \ Valid(lines)
    BY <2>1 DEF Victim, Valid
  <2>3. ways \ Valid(lines) \in SUBSET Nat
    OBVIOUS
  <2>4. victim <= w
    BY <2>2, <2>3, MinIsLeast
  <2> QED
    BY <1>2, <2>4
<1> HIDE DEF victim
<1>6. line \in T
  BY <1>1, <1>4 DEF Line, Bit
<1>7. new = [lines EXCEPT ![victim] = line]
  BY DEF Place
<1> HIDE DEF line, new
<1>8. new \in [ways -> T] /\ new[victim] = line /\ \A w \in ways \ {victim} : new[w] = lines[w]
  BY <1>2, <1>6, <1>7 DEF SetInv
<1>9. /\ line.addr = BlockAddr(addr, s) /\ line.valid = 1
  BY DEF line
<1>10. \A v, w \in ways : v < w /\ new[w].valid = 1 => new[v].valid = 1
  <2> TAKE v, w \in ways
  <2>1. CASE w = victim /\ Valid(lines) # ways
    BY <1>5, <1>8, <1>9, <2>1
  <2>2. CASE Valid(lines) = ways
    BY <1>8, <1>9, <2>2 DEF Valid
  <2>3. CASE w # victim
    BY <1>8, <1>9, <2>3 DEF SetInv
  <2> QED
    BY <2>1, <2>2, <2>3
<1>11. \A w \in Valid(new) : BlockAddr(new[w].addr, s) = new[w].addr
                             /\ Index(new[w].addr, s) = Index(addr, s)
  BY <1>4, <1>8, <1>9 DEF Valid, SetInv
<1>12. LockedBlocks(new) \subseteq LockedBlocks(lines) \cup {BlockAddr(addr, s)}
  <2>1. \A w \in Locked(new) : w = victim \/ (w \in Locked(lines) /\ new[w] = lines[w])
    BY <1>8 DEF Locked, Valid, SetInv
  <2> QED
    BY <1>8, <1>9, <2>1 DEF LockedBlocks
<1> QED
  BY <1>3, <1>8, <1>10, <1>11, <1>12 DEF SetInv, new, victim

LEMMA RenumberInv ==
  ASSUME NEW s, IsGoodCache(s), NEW i, NEW top \in Nat, NEW lines, SetInv(lines, i, s, top)
  PROVE  /\ SetInv(Renumber(lines), i, s, top)
         /\ LockedBlocks(Renumber(lines)) = LockedBlocks(lines)
<1> DEFINE ways == 1 .. s.ways
           new == Renumber(lines)
<1>1. lines \in SetsOf(s.ways) /\ s.ways \in Nat
  BY SetsAreSets DEF IsGoodCache
<1>2. /\ new \in SetsOf(s.ways)
      /\ \A w \in ways : /\ new[w].addr = lines[w].addr /\ new[w].valid = lines[w].valid
                         /\ new[w].dirty = lines[w].dirty /\ new[w].done = lines[w].done
                         /\ new[w].reference < s.ways
  BY <1>1, RanksKeepTheOrder
<1> HIDE DEF new
<1>3. new \in [ways -> Line(0 .. top, 0 .. s.ways)]
  <2>1. \A w \in ways : lines[w].addr \in 0 .. top
    BY SetTypes
  <2>2. \A w \in ways : new[w] \in Line(0 .. top, 0 .. s.ways)
    BY <1>1, <1>2, <2>1 DEF SetsOf, Line
  <2> QED
    BY <1>2, <2>2 DEF SetsOf
<1>4. DOMAIN new = ways /\ DOMAIN lines = ways
  BY <1>1, <1>2 DEF SetsOf
<1>5. Valid(new) = Valid(lines) /\ Locked(new) = Locked(lines)
  BY <1>2, <1>4 DEF Valid, Locked
<1>6. Valid(lines) \subseteq ways
  BY <1>4 DEF Valid
<1>7. LockedBlocks(new) = LockedBlocks(lines)
  BY <1>2, <1>5, <1>6 DEF LockedBlocks, Locked
<1>8. OneLinePerTag(new, s)
  BY <1>2, <1>5, <1>6 DEF SetInv, OneLinePerTag
<1> QED
  BY <1>2, <1>3, <1>5, <1>6, <1>7, <1>8 DEF SetInv, new

LEMMA EmptySetInv ==
  ASSUME NEW s, IsGoodCache(s), NEW i, NEW top \in Nat
  PROVE  /\ SetInv([w \in 1 .. s.ways |-> EmptyLine], i, s, top)
         /\ LockedBlocks([w \in 1 .. s.ways |-> EmptyLine]) = {}
<1> DEFINE lines == [w \in 1 .. s.ways |-> EmptyLine]
<1>1. EmptyLine \in Line(0 .. top, 0 .. s.ways) /\ EmptyLine.valid = 0
  BY DEF EmptyLine, Line, Bit, IsGoodCache
<1> HIDE DEF EmptyLine
<1>2. Valid(lines) = {} /\ \A w \in 1 .. s.ways : lines[w].valid # 1
  BY <1>1 DEF Valid
<1>3. lines \in [1 .. s.ways -> Line(0 .. top, 0 .. s.ways)]
  BY <1>1
<1> HIDE DEF lines
<1> QED
  BY <1>2, <1>3 DEF SetInv, OneLinePerTag, LockedBlocks, Locked, lines

-----------------------------------------------------------------------------
(* The contents of the caches *)

Contents(cfg, h, top) ==
  /\ DOMAIN h = Caches
  /\ \A c \in Caches :
       /\ h[c] \in [0 .. cfg[c].sets - 1 -> [1 .. cfg[c].ways -> Line(0 .. top, 0 .. cfg[c].ways)]]
       /\ \A i \in 0 .. cfg[c].sets - 1 : SetInv(h[c][i], i, cfg[c], top)

(* The blocks that cache c may not evict. *)
InUse(h, c) == UNION {LockedBlocks(h[c][i]) : i \in DOMAIN h[c]}

IsMachine(cfg) ==
  /\ cfg.CACHE_LEVELS \in -1 .. 3
  /\ cfg.DRAM_READ_LATENCY \in Nat /\ cfg.DRAM_WRITE_LATENCY \in Nat
  /\ \A c \in Caches : IsGoodCache(cfg[c])

WithSet(h, c, i, lines) == [h EXCEPT ![c][i] = lines]

LEMMA SetChanges ==
  ASSUME NEW cfg, IsMachine(cfg), NEW top \in Nat, NEW h, Contents(cfg, h, top),
         NEW c \in Caches, NEW i \in 0 .. cfg[c].sets - 1, NEW lines, SetInv(lines, i, cfg[c], top)
  PROVE  /\ Contents(cfg, WithSet(h, c, i, lines), top)
         /\ \A d \in Caches \ {c} : WithSet(h, c, i, lines)[d] = h[d]
         /\ WithSet(h, c, i, lines)[c][i] = lines
         /\ \A j \in (0 .. cfg[c].sets - 1) \ {i} : WithSet(h, c, i, lines)[c][j] = h[c][j]
         /\ DOMAIN WithSet(h, c, i, lines)[c] = 0 .. cfg[c].sets - 1
         /\ DOMAIN h[c] = 0 .. cfg[c].sets - 1
<1> DEFINE g == WithSet(h, c, i, lines)
           sets == 0 .. cfg[c].sets - 1
           T == [1 .. cfg[c].ways -> Line(0 .. top, 0 .. cfg[c].ways)]
<1>1. DOMAIN h = Caches /\ h[c] \in [sets -> T] /\ \A j \in sets : SetInv(h[c][j], j, cfg[c], top)
  BY DEF Contents
<1>2. lines \in T
  BY DEF SetInv
<1> HIDE DEF T
<1>3. DOMAIN g = Caches /\ g[c] = [h[c] EXCEPT ![i] = lines] /\ \A d \in Caches \ {c} : g[d] = h[d]
  BY <1>1 DEF WithSet
<1> HIDE DEF g
<1>4. g[c] \in [sets -> T] /\ g[c][i] = lines /\ \A j \in sets \ {i} : g[c][j] = h[c][j]
  BY <1>1, <1>2, <1>3
<1>5. \A j \in sets : SetInv(g[c][j], j, cfg[c], top)
  BY <1>1, <1>4
<1>6. Contents(cfg, g, top)
  BY <1>3, <1>4, <1>5 DEF Contents, T
<1> QED
  BY <1>1, <1>3, <1>4, <1>6 DEF g

(* What an access for addr does: it leaves the caches outside S alone and  *)
(* locks no block but its own.                                             *)
Touches(cfg, h, g, S, addr, top) ==
  /\ Contents(cfg, g, top)
  /\ \A d \in Caches \ S : g[d] = h[d]
  /\ \A d \in Caches : InUse(g, d) \subseteq InUse(h, d) \cup {BlockAddr(addr, cfg[d])}

LEMMA SetTouched ==
  ASSUME NEW cfg, IsMachine(cfg), NEW top \in Nat, NEW h, Contents(cfg, h, top),
         NEW c \in Caches, NEW addr \in 0 .. top, NEW lines, NEW S, c \in S,
         SetInv(lines, Index(addr, cfg[c]), cfg[c], top),
         LockedBlocks(lines)
           \subseteq LockedBlocks(Lines(cfg, h, c, addr)) \cup {BlockAddr(addr, cfg[c])}
  PROVE  Touches(cfg, h, WithSet(h, c, Index(addr, cfg[c]), lines), S, addr, top)
<1> DEFINE i == Index(addr, cfg[c])
           g == WithSet(h, c, i, lines)
           sets == 0 .. cfg[c].sets - 1
<1>1. IsCache(cfg[c]) /\ addr \in Nat
  BY DEF IsMachine, IsGoodCache, IsCache
<1>2. i \in sets
  BY <1>1, IndexIsOfASet
<1>3. LockedBlocks(lines) \subseteq LockedBlocks(h[c][i]) \cup {BlockAddr(addr, cfg[c])}
  BY DEF Lines
<1> HIDE DEF i
<1>4. /\ Contents(cfg, g, top)
      /\ \A d \in Caches \ {c} : g[d] = h[d]
      /\ g[c][i] = lines /\ \A j \in sets \ {i} : g[c][j] = h[c][j]
      /\ DOMAIN g[c] = sets /\ DOMAIN h[c] = sets
  BY <1>2, SetChanges DEF i
<1> HIDE DEF g
<1>5. \A d \in Caches \ {c} : InUse(g, d) = InUse(h, d)
  BY <1>4 DEF InUse
<1>6. InUse(g, c) \subseteq InUse(h, c) \cup {BlockAddr(addr, cfg[c])}
  BY <1>2, <1>3, <1>4 DEF InUse
<1> QED
  BY <1>4, <1>5, <1>6 DEF Touches, g, i

LEMMA TouchesNothing ==
  ASSUME NEW cfg, NEW top, NEW h, Contents(cfg, h, top), NEW S, NEW addr
  PROVE  Touches(cfg, h, h, S, addr, top)
BY DEF Touches

LEMMA TouchesOnceMore ==
  ASSUME NEW cfg, NEW top, NEW h, NEW g, NEW f, NEW S, NEW addr,
         Touches(cfg, h, g, S, addr, top), Touches(cfg, g, f, S, addr, top)
  PROVE  Touches(cfg, h, f, S, addr, top)
<1>1. /\ Contents(cfg, f, top)
      /\ \A d \in Caches \ S : f[d] = h[d]
  BY DEF Touches
<1>2. \A d \in Caches : InUse(f, d) \subseteq InUse(h, d) \cup {BlockAddr(addr, cfg[d])}
  <2> TAKE d \in Caches
  <2>1. /\ InUse(g, d) \subseteq InUse(h, d) \cup {BlockAddr(addr, cfg[d])}
        /\ InUse(f, d) \subseteq InUse(g, d) \cup {BlockAddr(addr, cfg[d])}
    BY DEF Touches
  <2> QED
    BY <2>1
<1> QED
  BY <1>1, <1>2 DEF Touches

LEMMA TouchesMore ==
  ASSUME NEW cfg, NEW top, NEW h, NEW g, NEW S, NEW T, NEW addr,
         Touches(cfg, h, g, S, addr, top), S \subseteq T
  PROVE  Touches(cfg, h, g, T, addr, top)
BY DEF Touches

LEMMA LinesInv ==
  ASSUME NEW cfg, IsMachine(cfg), NEW top \in Nat, NEW h, Contents(cfg, h, top),
         NEW c \in Caches, NEW addr \in 0 .. top
  PROVE  /\ Index(addr, cfg[c]) \in 0 .. cfg[c].sets - 1
         /\ SetInv(Lines(cfg, h, c, addr), Index(addr, cfg[c]), cfg[c], top)
<1>1. IsCache(cfg[c]) /\ addr \in Nat
  BY DEF IsMachine, IsGoodCache, IsCache
<1>2. Index(addr, cfg[c]) \in 0 .. cfg[c].sets - 1
  BY <1>1, IndexIsOfASet
<1> QED
  BY <1>2 DEF Contents, Lines

LEMMA FlagTouches ==
  ASSUME NEW cfg, IsMachine(cfg), NEW top \in Nat, NEW h, Contents(cfg, h, top),
         NEW c \in Caches, NEW addr \in 0 .. top, NEW S, c \in S,
         NEW flag, NEW value, Legal(flag, value, cfg[c])
  PROVE  Touches(cfg, h, Flag(cfg, h, c, addr, flag, value), S, addr, top)
<1> DEFINE lines == Lines(cfg, h, c, addr)
           new == SetFlag(lines, addr, cfg[c], flag, value)
<1>1. IsGoodCache(cfg[c])
  BY DEF IsMachine
<1>2. SetInv(lines, Index(addr, cfg[c]), cfg[c], top)
  BY LinesInv
<1> HIDE DEF lines
<1>3. SetInv(new, Index(addr, cfg[c]), cfg[c], top)
  BY <1>1, <1>2, SetFlagInv
<1>4. LockedBlocks(new) \subseteq LockedBlocks(lines) \cup {BlockAddr(addr, cfg[c])}
  BY <1>1, <1>2, SetFlagLocks
<1>5. Flag(cfg, h, c, addr, flag, value) = WithSet(h, c, Index(addr, cfg[c]), new)
  BY DEF Flag, WithSet, lines
<1> HIDE DEF new
<1> QED
  BY <1>3, <1>4, <1>5, SetTouched DEF lines

LEMMA UseTouches ==
  ASSUME NEW cfg, IsMachine(cfg), NEW top \in Nat, NEW h, Contents(cfg, h, top),
         NEW c \in Caches, NEW addr \in 0 .. top, NEW S, c \in S
  PROVE  Touches(cfg, h, Use(cfg, h, c, addr), S, addr, top)
<1> DEFINE g == touch(cfg, h, c, addr)
<1>1. Touches(cfg, h, g, S, addr, top)
  <2>1. Now(cfg, c) \in 0 .. cfg[c].ways
    BY DEF Now, IsMachine, IsGoodCache
  <2>2. Legal("reference", Now(cfg, c), cfg[c])
    BY <2>1 DEF Legal
  <2> QED
    BY <2>2, FlagTouches, TouchesNothing DEF touch
<1>2. Legal("done", 0, cfg[c])
  BY DEF Legal, Bit
<1> HIDE DEF g
<1>3. Contents(cfg, g, top)
  BY <1>1 DEF Touches
<1>4. Touches(cfg, g, Flag(cfg, g, c, addr, "done", 0), S, addr, top)
  BY <1>2, <1>3, FlagTouches
<1> QED
  BY <1>1, <1>4, TouchesOnceMore DEF Use, g

(* What completing an access for addr does in the caches of S. *)
Frees(cfg, h, g, S, addr, top) ==
  /\ Contents(cfg, g, top)
  /\ \A d \in Caches \ S : g[d] = h[d]
  /\ \A d \in Caches : InUse(g, d) \subseteq InUse(h, d)
  /\ \A d \in S : BlockAddr(addr, cfg[d]) \notin InUse(g, d)

LEMMA FlagFrees ==
  ASSUME NEW cfg, IsMachine(cfg), NEW top \in Nat, NEW h, Contents(cfg, h, top),
         NEW c \in Caches, NEW addr \in 0 .. top
  PROVE  Frees(cfg, h, Flag(cfg, h, c, addr, "done", 1), {c}, addr, top)
<1> DEFINE i == Index(addr, cfg[c])
           s == cfg[c]
           sets == 0 .. s.sets - 1
           lines == Lines(cfg, h, c, addr)
           new == SetFlag(lines, addr, s, "done", 1)
           g == WithSet(h, c, i, new)
<1>1. IsGoodCache(s) /\ IsCache(s) /\ addr \in Nat
  BY DEF IsMachine, IsGoodCache, IsCache
<1>2. i \in sets /\ SetInv(lines, i, s, top) /\ Legal("done", 1, s) /\ lines = h[c][i]
  BY LinesInv DEF Legal, Bit, Lines
<1> HIDE DEF lines, s
<1>3. SetInv(new, i, s, top) /\ LockedBlocks(new) \subseteq LockedBlocks(lines)
  BY <1>1, <1>2, SetFlagInv, SetFlagLocks DEF s
<1>4. BlockAddr(addr, s) \notin LockedBlocks(new)
  BY <1>1, <1>2, SetDoneUnlocks
<1>5. Flag(cfg, h, c, addr, "done", 1) = g
  BY DEF Flag, WithSet, lines, s
<1>6. Index(BlockAddr(addr, s), s) = i
  BY <1>1, BlockKeepsTheIndex DEF s
<1> HIDE DEF new, i
<1>7. /\ Contents(cfg, g, top)
      /\ \A d \in Caches \ {c} : g[d] = h[d]
      /\ g[c][i] = new /\ \A j \in sets \ {i} : g[c][j] = h[c][j]
      /\ DOMAIN g[c] = sets /\ DOMAIN h[c] = sets
  BY <1>2, <1>3, SetChanges DEF s
<1> HIDE DEF g
<1>8. \A d \in Caches : InUse(g, d) \subseteq InUse(h, d)
  BY <1>2, <1>3, <1>7 DEF InUse
<1>9. BlockAddr(addr, s) \notin InUse(g, c)
  <2> SUFFICES ASSUME NEW j \in sets, BlockAddr(addr, s) \in LockedBlocks(g[c][j]) PROVE FALSE
    BY <1>7 DEF InUse
  <2>1. SetInv(g[c][j], j, s, top)
    BY <1>7 DEF Contents, s
  <2>2. Index(BlockAddr(addr, s), s) = j
    BY <2>1 DEF LockedBlocks, Locked, SetInv
  <2> QED
    BY <1>4, <1>6, <1>7, <2>2
<1> QED
  BY <1>5, <1>7, <1>8, <1>9 DEF Frees, s

LEMMA DoneFrees ==
  ASSUME NEW cfg, IsMachine(cfg), NEW top \in Nat, NEW h, Contents(cfg, h, top),
         NEW c, NEW addr \in 0 .. top
  PROVE  Frees(cfg, h, Done(cfg, h, c, addr), Path(cfg, c), addr, top)
<1> DEFINE g == Done(cfg, h, c, addr)
           f(d) == Flag(cfg, h, d, addr, "done", 1)
           P == Path(cfg, c)
<1>1. P \subseteq Caches
  BY DEF Path
<1>2. \A d \in Caches : g[d] = IF d \in P THEN f(d)[d] ELSE h[d]
  BY DEF Done
<1>3. DOMAIN g = Caches
  BY DEF Done
<1>4. \A d \in P : Frees(cfg, h, f(d), {d}, addr, top)
  BY <1>1, FlagFrees
<1> HIDE DEF g, f, P
<1>5. Contents(cfg, g, top)
  BY <1>2, <1>3, <1>4 DEF Contents, Frees
<1>6. \A d \in Caches : InUse(g, d) \subseteq InUse(h, d)
  BY <1>1, <1>2, <1>4 DEF InUse, Frees
<1>7. \A d \in P : BlockAddr(addr, cfg[d]) \notin InUse(g, d)
  BY <1>1, <1>2, <1>4 DEF InUse, Frees
<1> QED
  BY <1>2, <1>5, <1>6, <1>7 DEF Frees, g, P

LEMMA TickKeeps ==
  ASSUME NEW cfg, IsMachine(cfg), NEW top \in Nat, NEW h, Contents(cfg, h, top)
  PROVE  Contents(cfg, Tick(h), top) /\ \A d \in Caches : InUse(Tick(h), d) = InUse(h, d)
<1> DEFINE g == Tick(h)
           sets(c) == 0 .. cfg[c].sets - 1
<1>1. \A c \in Caches : \A i \in sets(c) :
        SetInv(Renumber(h[c][i]), i, cfg[c], top)
        /\ LockedBlocks(Renumber(h[c][i])) = LockedBlocks(h[c][i])
  <2> TAKE c \in Caches
  <2> TAKE i \in sets(c)
  <2>1. SetInv(h[c][i], i, cfg[c], top) /\ IsGoodCache(cfg[c])
    BY DEF Contents, IsMachine
  <2> QED
    BY <2>1, RenumberInv
<1>2. DOMAIN g = Caches /\ \A c \in Caches : g[c] = [i \in sets(c) |-> Renumber(h[c][i])]
  BY DEF Tick, Contents
<1> HIDE DEF g
<1>3. \A c \in Caches : DOMAIN g[c] = sets(c) /\ DOMAIN h[c] = sets(c)
                        /\ \A i \in sets(c) : g[c][i] = Renumber(h[c][i])
  BY <1>2 DEF Contents
<1>4. \A c \in Caches : \A i \in sets(c) :
        SetInv(g[c][i], i, cfg[c], top)
        /\ g[c][i] \in [1 .. cfg[c].ways -> Line(0 .. top, 0 .. cfg[c].ways)]
  BY <1>1, <1>3 DEF SetInv
<1>5. Contents(cfg, g, top)
  BY <1>2, <1>4 DEF Contents
<1>6. \A c \in Caches : InUse(g, c) = InUse(h, c)
  <2> TAKE c \in Caches
  <2>1. \A i \in sets(c) : LockedBlocks(g[c][i]) = LockedBlocks(h[c][i])
    BY <1>1, <1>3
  <2>2. DOMAIN g[c] = sets(c) /\ DOMAIN h[c] = sets(c)
    BY <1>3
  <2> HIDE DEF sets
  <2>3. InUse(g, c) \subseteq InUse(h, c) /\ InUse(h, c) \subseteq InUse(g, c)
    BY <2>1, <2>2 DEF InUse
  <2> QED
    BY <2>3
<1> QED
  BY <1>5, <1>6 DEF g

LEMMA EmptyContents ==
  ASSUME NEW cfg, IsMachine(cfg), NEW top \in Nat
  PROVE  Contents(cfg, Empty(cfg), top) /\ \A d \in Caches : InUse(Empty(cfg), d) = {}
<1> DEFINE g == Empty(cfg)
           empty(c) == [w \in 1 .. cfg[c].ways |-> EmptyLine]
           sets(c) == 0 .. cfg[c].sets - 1
<1>1. \A c \in Caches : \A i \in sets(c) :
        SetInv(empty(c), i, cfg[c], top) /\ LockedBlocks(empty(c)) = {}
  BY EmptySetInv DEF IsMachine
<1>2. DOMAIN g = Caches /\ \A c \in Caches : g[c] = [i \in sets(c) |-> empty(c)]
  BY DEF Empty
<1> HIDE DEF g, empty
<1>0. \A c \in Caches : DOMAIN g[c] = sets(c) /\ \A i \in sets(c) : g[c][i] = empty(c)
  BY <1>2
<1>3. \A c \in Caches : \A i \in sets(c) :
        SetInv(g[c][i], i, cfg[c], top)
        /\ g[c][i] \in [1 .. cfg[c].ways -> Line(0 .. top, 0 .. cfg[c].ways)]
  BY <1>0, <1>1 DEF SetInv
<1>4. Contents(cfg, g, top)
  BY <1>2, <1>3 DEF Contents
<1>5. \A c \in Caches : InUse(g, c) = {}
  BY <1>0, <1>1 DEF InUse
<1> QED
  BY <1>4, <1>5 DEF g

-----------------------------------------------------------------------------
(* Paths *)

(* The levels are below one another, the DRAM is below all of them. *)
LEMMA BelowFacts ==
  ASSUME NEW cfg
  PROVE  /\ Below(cfg, "dram") = "dram" /\ Below(cfg, "l3") = "dram"
         /\ Below(cfg, "l2") \in {"l3", "dram"}
         /\ \A c \in {"l1_i", "l1_d"} : Below(cfg, c) \in {"l2", "dram"}
<1>1. Below(cfg, "dram") = "dram" /\ Below(cfg, "l3") = "dram"
  BY DEF Below
<1>2. Below(cfg, "l2") \in {"l3", "dram"}
  BY DEF Below
<1>3. \A c \in {"l1_i", "l1_d"} : Below(cfg, c) \in {"l2", "dram"}
  BY DEF Below
<1> QED
  BY <1>1, <1>2, <1>3

LEMMA PathFacts ==
  ASSUME NEW cfg, NEW c \in Caches
  PROVE  /\ c \in Path(cfg, c) /\ Path(cfg, c) \subseteq Caches /\ Path(cfg, "dram") = {}
         /\ Path(cfg, Below(cfg, c)) = Path(cfg, c) \ {c}
<1>1. CASE c = "l3"
  BY <1>1, BelowFacts DEF Path, Caches
<1>2. CASE c = "l2"
  BY <1>2, BelowFacts DEF Path, Caches
<1>3. CASE c \in {"l1_i", "l1_d"}
  BY <1>3, BelowFacts DEF Path, Caches
<1> QED
  BY <1>1, <1>2, <1>3 DEF Caches

LEMMA FindOutcomes ==
  ASSUME NEW s, NEW i, NEW top \in Nat, NEW lines, SetInv(lines, i, s, top), NEW addr
  PROVE  find_block(lines, addr, s) \in {"hit", "busy", "free", "full"}
<1> DEFINE found == Matching(lines, addr, s) \cap Valid(lines)
<1>1. CASE found = {}
  BY <1>1 DEF find_block
<1>2. CASE found # {}
  <2>1. found \in SUBSET Nat /\ found \subseteq 1 .. s.ways
    BY DEF Valid, SetInv
  <2>2. Min(found) \in 1 .. s.ways
    BY <1>2, <2>1, MinIsLeast
  <2>3. lines[Min(found)].done \in {0, 1}
    BY <2>2, SetTypes DEF Bit
  <2> QED
    BY <1>2, <2>3 DEF find_block
<1> QED
  BY <1>1, <1>2

-----------------------------------------------------------------------------
(* Answers *)

IsAnswer(r) ==
  /\ r = [h |-> r.h, stalls |-> r.stalls, saved |-> r.saved, counted |-> r.counted,
          fatal |-> r.fatal]
  /\ r.stalls \in {-1} \cup Nat
  /\ DOMAIN r.counted \subseteq Counters

(* The answer to an access for addr through the caches of S. *)
Fine(cfg, h, r, S, addr, top) == IsAnswer(r) /\ Touches(cfg, h, r.h, S, addr, top)

LEMMA AnswerIsFine ==
  ASSUME NEW cfg, NEW top, NEW h, NEW g, NEW S, NEW addr, Touches(cfg, h, g, S, addr, top),
         NEW n \in {-1} \cup Nat, NEW saved
  PROVE  Fine(cfg, h, Answer(g, n, saved), S, addr, top)
<1>1. DOMAIN Nothing = {}
  BY DEF Nothing
<1> HIDE DEF Nothing
<1> QED
  BY <1>1 DEF Fine, IsAnswer, Answer

LEMMA FatalIsFine ==
  ASSUME NEW cfg, NEW top, NEW h, Contents(cfg, h, top), NEW S, NEW addr
  PROVE  Fine(cfg, h, Fatal(h), S, addr, top)
<1>1. Touches(cfg, h, h, S, addr, top)
  BY TouchesNothing
<1>2. DOMAIN Nothing = {}
  BY DEF Nothing
<1> HIDE DEF Nothing
<1> DEFINE r == Answer(h, -1, {})
<1>3. r = [h |-> h, stalls |-> -1, saved |-> {}, counted |-> Nothing, fatal |-> FALSE]
  BY DEF Answer
<1> HIDE DEF r
<1>4. Fatal(h) = [r EXCEPT !.fatal = TRUE]
  BY DEF Fatal, r
<1>5. Fatal(h) = [h |-> h, stalls |-> -1, saved |-> {}, counted |-> Nothing, fatal |-> TRUE]
  BY <1>3, <1>4
<1> HIDE DEF Fatal
<1> QED
  BY <1>1, <1>2, <1>5 DEF Fine, IsAnswer

LEMMA PlusCounters ==
  ASSUME NEW f, NEW g, DOMAIN f \subseteq Counters, DOMAIN g \subseteq Counters
  PROVE  DOMAIN Plus(f, g) \subseteq Counters
BY DEF Plus

LEMMA CountIsFine ==
  ASSUME NEW cfg, NEW top, NEW h, NEW r, NEW S, NEW addr, Fine(cfg, h, r, S, addr, top),
         NEW c, NEW what, <<c, what>> \in Counters, NEW k
  PROVE  /\ Fine(cfg, h, Count(r, c, what, k), S, addr, top)
         /\ Count(r, c, what, k).h = r.h /\ Count(r, c, what, k).stalls = r.stalls
<1> DEFINE one == [x \in {<<c, what>>} |-> k]
           sum == Plus(r.counted, one)
<1>1. DOMAIN one \subseteq Counters
  OBVIOUS
<1> HIDE DEF one
<1>2. DOMAIN sum \subseteq Counters
  BY <1>1, PlusCounters DEF Fine, IsAnswer
<1>3. Count(r, c, what, k) = [r EXCEPT !.counted = sum]
  BY DEF Count, one
<1> HIDE DEF sum
<1>4. Count(r, c, what, k) = [h |-> r.h, stalls |-> r.stalls, saved |-> r.saved, counted |-> sum,
                              fatal |-> r.fatal]
  BY <1>3 DEF Fine, IsAnswer
<1> QED
  BY <1>2, <1>4 DEF Fine, IsAnswer

LEMMA ThenIsFine ==
  ASSUME NEW cfg, NEW top, NEW h, NEW r, NEW next, NEW S, NEW addr,
         Fine(cfg, h, r, S, addr, top), Fine(cfg, r.h, next, S, addr, top)
  PROVE  Fine(cfg, h, Then(r, next), S, addr, top)
<1>1. CASE r.stalls = -1
  BY <1>1 DEF Then
<1>2. CASE r.stalls # -1
  <2> DEFINE stalls == IF next.stalls = -1 THEN -1 ELSE next.stalls + r.stalls
             saved == next.saved \cup r.saved
             sum == Plus(next.counted, r.counted)
  <2>1. stalls \in {-1} \cup Nat
    BY <1>2 DEF Fine, IsAnswer
  <2>2. DOMAIN sum \subseteq Counters
    BY PlusCounters DEF Fine, IsAnswer
  <2>3. Then(r, next) = [next EXCEPT !.saved = saved, !.counted = sum, !.stalls = stalls]
    BY <1>2 DEF Then
  <2>4. next = [h |-> next.h, stalls |-> next.stalls, saved |-> next.saved,
                counted |-> next.counted, fatal |-> next.fatal]
    BY DEF Fine, IsAnswer
  <2> HIDE DEF stalls, saved, sum
  <2>5. Then(r, next) = [h |-> next.h, stalls |-> stalls, saved |-> saved, counted |-> sum,
                         fatal |-> next.fatal]
    BY <2>3, <2>4
  <2>6. Touches(cfg, h, next.h, S, addr, top)
    BY TouchesOnceMore DEF Fine
  <2> QED
    BY <2>1, <2>2, <2>5, <2>6 DEF Fine, IsAnswer
<1> QED
  BY <1>1, <1>2

LEMMA FineOfMore ==
  ASSUME NEW cfg, NEW top, NEW h, NEW r, NEW S, NEW T, NEW addr,
         Fine(cfg, h, r, S, addr, top), S \subseteq T
  PROVE  Fine(cfg, h, r, T, addr, top)
BY TouchesMore DEF Fine

-----------------------------------------------------------------------------
(* One level, given that the level below does as it should *)

LEMMA ReadHitIsFine ==
  ASSUME NEW cfg, IsMachine(cfg), NEW top \in Nat, NEW h, Contents(cfg, h, top),
         NEW c \in Caches, NEW addr \in 0 .. top
  PROVE  Fine(cfg, h, ReadHit(cfg, h, c, addr), Path(cfg, c), addr, top)
<1> DEFINE g == Use(cfg, h, c, addr)
           n == cfg[c].read_latency
           r == Answer(g, n, {})
<1>1. Touches(cfg, h, g, Path(cfg, c), addr, top)
  BY UseTouches, PathFacts
<1>2. n \in {-1} \cup Nat
  BY DEF IsMachine, IsGoodCache
<1> HIDE DEF g, n
<1>3. Fine(cfg, h, r, Path(cfg, c), addr, top)
  BY <1>1, <1>2, AnswerIsFine
<1> HIDE DEF r
<1>4. <<c, "hit_r">> \in Counters
  BY DEF Counters
<1> QED
  BY <1>3, <1>4, CountIsFine DEF ReadHit, r, g, n

LEMMA ReadMissIsFine ==
  ASSUME NEW cfg, IsMachine(cfg), NEW top \in Nat, NEW h, NEW r, NEW c \in Caches, NEW addr,
         Fine(cfg, h, r, Path(cfg, c), addr, top)
  PROVE  Fine(cfg, h, ReadMiss(cfg, r, c), Path(cfg, c), addr, top)
<1> DEFINE n == cfg[c].read_latency
           q == Answer(r.h, n, {})
           next == Count(q, c, "miss_r", 1)
<1>1. n \in {-1} \cup Nat
  BY DEF IsMachine, IsGoodCache
<1>2. Touches(cfg, r.h, r.h, Path(cfg, c), addr, top)
  BY TouchesNothing DEF Fine, Touches
<1> HIDE DEF n
<1>3. Fine(cfg, r.h, q, Path(cfg, c), addr, top)
  BY <1>1, <1>2, AnswerIsFine
<1> HIDE DEF q
<1>4. <<c, "miss_r">> \in Counters
  BY DEF Counters
<1>5. Fine(cfg, r.h, next, Path(cfg, c), addr, top)
  BY <1>3, <1>4, CountIsFine
<1> HIDE DEF next
<1>6. Fine(cfg, h, Then(r, next), Path(cfg, c), addr, top)
  BY <1>5, ThenIsFine
<1> QED
  BY <1>6 DEF ReadMiss, next, q, n

LEMMA ReadInIsFine ==
  ASSUME NEW cfg, IsMachine(cfg), NEW top \in Nat, NEW h, Contents(cfg, h, top),
         NEW c \in Caches, NEW addr \in 0 .. top, NEW placed,
         Find(cfg, h, c, addr) = "free" => Fine(cfg, h, placed, Path(cfg, c), addr, top)
  PROVE  Fine(cfg, h, ReadIn(cfg, h, c, addr, placed), Path(cfg, c), addr, top)
<1> DEFINE outcome == Find(cfg, h, c, addr)
<1>1. outcome \in {"hit", "busy", "free", "full"}
  BY LinesInv, FindOutcomes DEF Find
<1>2. CASE outcome = "hit"
  BY <1>2, ReadHitIsFine DEF ReadIn
<1>3. CASE outcome = "busy"
  BY <1>3, FatalIsFine DEF ReadIn
<1>4. CASE outcome = "full"
  <2>1. Fine(cfg, h, Answer(h, -1, {}), Path(cfg, c), addr, top)
    BY AnswerIsFine, TouchesNothing
  <2> QED
    BY <1>4, <2>1 DEF ReadIn
<1>5. CASE outcome = "free"
  BY <1>5, ReadMissIsFine DEF ReadIn
<1> QED
  BY <1>1, <1>2, <1>3, <1>4, <1>5

(* The block an eviction writes back. *)
LEMMA EvictedIsABlock ==
  ASSUME NEW cfg, IsMachine(cfg), NEW top \in Nat, NEW h, Contents(cfg, h, top),
         NEW c \in Caches, NEW addr \in 0 .. top, Find(cfg, h, c, addr) = "free"
  PROVE  Min(Evicted(cfg, h, c, addr)) \in 0 .. top
<1> DEFINE lines == Lines(cfg, h, c, addr)
           a == lines[Victim(lines)].addr
<1>1. IsGoodCache(cfg[c]) /\ IsCache(cfg[c])
  BY DEF IsMachine, IsGoodCache, IsCache
<1>2. SetInv(lines, Index(addr, cfg[c]), cfg[c], top) /\ find_block(lines, addr, cfg[c]) = "free"
  BY LinesInv DEF Find
<1> HIDE DEF lines
<1>3. lines \in SetsOf(cfg[c].ways) /\ cfg[c].ways \in Nat
  BY <1>1, <1>2, SetsAreSets DEF IsGoodCache
<1>4. Victim(lines) \in 1 .. cfg[c].ways
  BY <1>2, <1>3, VictimIsAWay
<1>5. a \in 0 .. top
  BY <1>2, <1>4, SetTypes
<1> HIDE DEF a
<1>6. Min(Block(a, cfg[c])) = BlockAddr(a, cfg[c]) /\ BlockAddr(a, cfg[c]) \in 0 .. top
  BY <1>1, <1>5, FirstOfBlock, BlockAddrFacts
<1> QED
  BY <1>6 DEF Evicted, a, lines

(* The level below has been written for a block of another address: what   *)
(* it has locked is unlocked at once.                                      *)
LEMMA WriteBackIsFine ==
  ASSUME NEW cfg, IsMachine(cfg), NEW top \in Nat, NEW h, NEW c \in Caches, NEW addr \in 0 .. top,
         NEW w, NEW block, Min(block) \in 0 .. top,
         Fine(cfg, h, w, Path(cfg, Below(cfg, c)), Min(block), top)
  PROVE  Fine(cfg, h, WriteBack(cfg, w, c, block), Path(cfg, Below(cfg, c)), addr, top)
<1> DEFINE e == Min(block)
           P == Path(cfg, Below(cfg, c))
           g == Done(cfg, w.h, Below(cfg, c), e)
           q == [w EXCEPT !.h = g]
           k == IF c = "l2" /\ Below(cfg, c) = "dram" THEN 0 ELSE 1
<1>1. Touches(cfg, h, w.h, P, e, top)
  BY DEF Fine
<1>2. Frees(cfg, w.h, g, P, e, top)
  BY <1>1, DoneFrees DEF Touches
<1> HIDE DEF g
<1>3. P \subseteq Caches
  BY PathFacts DEF Path
<1> HIDE DEF P, e
<1>4. Touches(cfg, h, g, P, addr, top)
  <2>1. Contents(cfg, g, top) /\ \A d \in Caches \ P : g[d] = h[d]
    BY <1>1, <1>2 DEF Touches, Frees
  <2>2. \A d \in Caches : InUse(g, d) \subseteq InUse(h, d) \cup {BlockAddr(addr, cfg[d])}
    <3> TAKE d \in Caches
    <3>1. CASE d \in P
      BY <1>1, <1>2, <3>1 DEF Touches, Frees
    <3>2. CASE d \notin P
      BY <2>1, <3>2 DEF InUse
    <3> QED
      BY <3>1, <3>2
  <2> QED
    BY <2>1, <2>2 DEF Touches
<1>5. Fine(cfg, h, q, P, addr, top)
  <2>1. q = [h |-> g, stalls |-> w.stalls, saved |-> w.saved, counted |-> w.counted,
             fatal |-> w.fatal]
    BY DEF Fine, IsAnswer
  <2> QED
    BY <1>4, <2>1 DEF Fine, IsAnswer
<1> HIDE DEF q, k
<1>6. <<c, "writebacks">> \in Counters
  BY DEF Counters
<1>7. Fine(cfg, h, Count(q, c, "writebacks", k), P, addr, top)
  BY <1>5, <1>6, CountIsFine
<1> QED
  BY <1>7 DEF WriteBack, q, k, g, e, P

LEMMA ReplaceIsFine ==
  ASSUME NEW cfg, IsMachine(cfg), NEW top \in Nat, NEW h, Contents(cfg, h, top),
         NEW c \in Caches, NEW addr \in 0 .. top, Find(cfg, h, c, addr) = "free",
         NEW w, Fine(cfg, h, w, Path(cfg, Below(cfg, c)), Min(Evicted(cfg, h, c, addr)), top)
  PROVE  Fine(cfg, h, Replace(cfg, h, c, addr, w, Victim(Lines(cfg, h, c, addr))), Path(cfg, c),
              addr, top)
<1> DEFINE s == cfg[c]
           i == Index(addr, s)
           lines == Lines(cfg, h, c, addr)
           way == Victim(lines)
           r == IF WritesBack(lines, way, s) THEN WriteBack(cfg, w, c, Evicted(cfg, h, c, addr))
                ELSE Answer(h, 0, {})
           P == Path(cfg, Below(cfg, c))
           new == Place(lines, way, addr, s, s.ways)
           g == WithSet(r.h, c, i, new)
           q == Replace(cfg, h, c, addr, w, way)
<1>1. Fine(cfg, h, r, P, addr, top)
  <2>1. Fine(cfg, h, WriteBack(cfg, w, c, Evicted(cfg, h, c, addr)), P, addr, top)
    BY EvictedIsABlock, WriteBackIsFine
  <2>2. Fine(cfg, h, Answer(h, 0, {}), P, addr, top)
    BY TouchesNothing, AnswerIsFine
  <2> QED
    BY <2>1, <2>2
<1>2. c \notin P /\ P \subseteq Path(cfg, c) /\ c \in Path(cfg, c)
  BY PathFacts
<1>3. q = [r EXCEPT !.h[c][i] = Place(@, way, addr, s, s.ways)]
  BY DEF Replace, Now
<1> HIDE DEF r, P, q, way
<1>4. Contents(cfg, r.h, top) /\ r.h[c] = h[c]
  BY <1>1, <1>2 DEF Fine, Touches
<1>5. Lines(cfg, r.h, c, addr) = lines /\ r.h[c][i] = lines
  BY <1>4 DEF Lines
<1>6. SetInv(lines, i, s, top) /\ IsGoodCache(s) /\ find_block(lines, addr, s) = "free"
  BY LinesInv DEF Find, IsMachine
<1> HIDE DEF lines
<1>7. /\ SetInv(new, i, s, top)
      /\ LockedBlocks(new) \subseteq LockedBlocks(lines) \cup {BlockAddr(addr, s)}
  BY <1>6, PlaceInv DEF way
<1> HIDE DEF new
<1>8. Touches(cfg, r.h, g, Path(cfg, c), addr, top)
  BY <1>2, <1>4, <1>5, <1>7, SetTouched
<1>9. q = [r EXCEPT !.h = g]
  BY <1>3, <1>5 DEF Fine, IsAnswer, WithSet, new
<1> HIDE DEF g
<1>10. q = [h |-> g, stalls |-> r.stalls, saved |-> r.saved, counted |-> r.counted,
            fatal |-> r.fatal]
  BY <1>1, <1>9 DEF Fine, IsAnswer
<1>11. Touches(cfg, h, g, Path(cfg, c), addr, top)
  <2>1. Touches(cfg, h, r.h, Path(cfg, c), addr, top)
    BY <1>1, <1>2, TouchesMore DEF Fine
  <2> QED
    BY <1>8, <2>1, TouchesOnceMore
<1> QED
  BY <1>1, <1>10, <1>11 DEF Fine, IsAnswer, q, way, lines

LEMMA EvictIsFine ==
  ASSUME NEW cfg, IsMachine(cfg), NEW top \in Nat, NEW h, Contents(cfg, h, top),
         NEW c \in Caches, NEW addr \in 0 .. top, NEW w,
         Find(cfg, h, c, addr) = "free" =>
           Fine(cfg, h, w, Path(cfg, Below(cfg, c)), Min(Evicted(cfg, h, c, addr)), top)
  PROVE  Fine(cfg, h, evict(cfg, h, c, addr, w), Path(cfg, c), addr, top)
<1>1. evict(cfg, h, c, addr, w) = evict_fifo(cfg, h, c, addr, w)
  <2>1. cfg[c].replacement_policy \in {"FIFO", "LRU"}
    BY DEF IsMachine, IsGoodCache
  <2> QED
    BY <2>1 DEF evict, evict_lru
<1>2. CASE Find(cfg, h, c, addr) # "free"
  BY <1>1, <1>2, FatalIsFine DEF evict_fifo
<1>3. CASE Find(cfg, h, c, addr) = "free"
  BY <1>1, <1>3, ReplaceIsFine DEF evict_fifo
<1> QED
  BY <1>2, <1>3

LEMMA HitWrittenIsFine ==
  ASSUME NEW cfg, IsMachine(cfg), NEW top \in Nat, NEW h, NEW c \in Caches, NEW addr \in 0 .. top,
         NEW r, Fine(cfg, h, r, Path(cfg, c), addr, top)
  PROVE  Fine(cfg, h, HitWritten(cfg, r, c, addr), Path(cfg, c), addr, top)
<1> DEFINE g == Use(cfg, r.h, c, addr)
           n == cfg[c].write_latency
           q == Answer(g, n, {})
           next == Count(q, c, "hit_w", 1)
<1>1. n \in {-1} \cup Nat
  BY DEF IsMachine, IsGoodCache
<1>2. Touches(cfg, r.h, g, Path(cfg, c), addr, top)
  <2>1. Contents(cfg, r.h, top)
    BY DEF Fine, Touches
  <2> QED
    BY <2>1, UseTouches, PathFacts
<1> HIDE DEF n, g
<1>3. Fine(cfg, r.h, q, Path(cfg, c), addr, top)
  BY <1>1, <1>2, AnswerIsFine
<1> HIDE DEF q
<1>4. <<c, "hit_w">> \in Counters
  BY DEF Counters
<1>5. Fine(cfg, r.h, next, Path(cfg, c), addr, top)
  BY <1>3, <1>4, CountIsFine
<1> HIDE DEF next
<1>6. Fine(cfg, h, Then(r, next), Path(cfg, c), addr, top)
  BY <1>5, ThenIsFine
<1> QED
  BY <1>6 DEF HitWritten, next, q, n, g

LEMMA WriteHitIsFine ==
  ASSUME NEW cfg, IsMachine(cfg), NEW top \in Nat, NEW h, Contents(cfg, h, top),
         NEW c \in Caches, NEW addrs, Min(addrs) \in 0 .. top,
         NEW passed, Fine(cfg, h, passed, Path(cfg, Below(cfg, c)), Min(addrs), top)
  PROVE  Fine(cfg, h, WriteHit(cfg, h, c, addrs, passed), Path(cfg, c), Min(addrs), top)
<1> DEFINE addr == Min(addrs)
           stored == Stored(cfg, h, c, addrs, passed)
           g == Flag(cfg, h, c, addr, "dirty", 1)
<1>1. Fine(cfg, h, passed, Path(cfg, c), addr, top)
  BY PathFacts, FineOfMore
<1>2. Fine(cfg, h, Answer(g, 0, {}), Path(cfg, c), addr, top)
  <2>1. Legal("dirty", 1, cfg[c])
    BY DEF Legal, Bit
  <2>2. Touches(cfg, h, g, Path(cfg, c), addr, top)
    BY <2>1, FlagTouches, PathFacts
  <2> HIDE DEF g, addr
  <2> QED
    BY <2>2, AnswerIsFine
<1>3. Fine(cfg, h, stored, Path(cfg, c), addr, top)
  <2>1. cfg[c].write_policy \in {"through", "back"}
    BY DEF IsMachine, IsGoodCache
  <2> QED
    BY <1>1, <1>2, <2>1 DEF Stored
<1> HIDE DEF stored
<1> QED
  BY <1>3, HitWrittenIsFine DEF WriteHit, stored

LEMMA RepeatedIsFine ==
  ASSUME NEW cfg, IsMachine(cfg), NEW top \in Nat, NEW h, Contents(cfg, h, top),
         NEW c \in Caches, NEW addrs,
         NEW w, Fine(cfg, h, w, Path(cfg, c), Min(addrs), top)
  PROVE  Fine(cfg, h, Repeated(cfg, h, c, addrs, w), Path(cfg, c), Min(addrs), top)
<1> DEFINE r1 == Count(w, c, "miss_r", -1)
           r2 == Count(r1, c, "hit_w", -1)
<1>1. <<c, "miss_r">> \in Counters /\ <<c, "hit_w">> \in Counters /\ <<c, "miss_w">> \in Counters
  BY DEF Counters
<1>2. Fine(cfg, h, r1, Path(cfg, c), Min(addrs), top)
  BY <1>1, CountIsFine
<1> HIDE DEF r1
<1>3. Fine(cfg, h, r2, Path(cfg, c), Min(addrs), top)
  BY <1>1, <1>2, CountIsFine
<1> HIDE DEF r2
<1>4. Fine(cfg, h, Corrected(w, c), Path(cfg, c), Min(addrs), top)
  BY <1>1, <1>3, CountIsFine DEF Corrected, r2, r1
<1> QED
  BY <1>4, FatalIsFine DEF Repeated

LEMMA WriteInIsFine ==
  ASSUME NEW cfg, IsMachine(cfg), NEW top \in Nat, NEW h, Contents(cfg, h, top),
         NEW c \in Caches, NEW addrs, Min(addrs) \in 0 .. top,
         NEW passed, Fine(cfg, h, passed, Path(cfg, Below(cfg, c)), Min(addrs), top),
         NEW allocated, Fine(cfg, h, allocated, Path(cfg, c), Min(addrs), top)
  PROVE  Fine(cfg, h, WriteIn(cfg, h, c, addrs, passed, allocated), Path(cfg, c), Min(addrs), top)
<1> DEFINE outcome == Find(cfg, h, c, Min(addrs))
           allocates == cfg[c].write_miss_policy = "allocate"
           r == WriteIn(cfg, h, c, addrs, passed, allocated)
<1>1. outcome \in {"hit", "busy", "free", "full"}
  BY LinesInv, FindOutcomes DEF Find
<1>2. CASE outcome = "busy"
  BY <1>2, FatalIsFine DEF WriteIn
<1>3. CASE outcome = "hit"
  BY <1>3, WriteHitIsFine DEF WriteIn
<1>4. CASE outcome = "full" /\ allocates
  <2>1. Fine(cfg, h, Answer(h, -1, {}), Path(cfg, c), Min(addrs), top)
    BY AnswerIsFine, TouchesNothing
  <2>2. r = Answer(h, -1, {})
    BY <1>4 DEF WriteIn
  <2> QED
    BY <2>1, <2>2
<1>5. CASE outcome = "free" /\ allocates
  BY <1>5 DEF WriteIn
<1>6. CASE outcome \in {"full", "free"} /\ ~allocates
  <2>1. Fine(cfg, h, passed, Path(cfg, c), Min(addrs), top)
    BY PathFacts, FineOfMore
  <2>2. <<c, "miss_w">> \in Counters
    BY DEF Counters
  <2>3. Fine(cfg, h, MissWritten(passed, c), Path(cfg, c), Min(addrs), top)
    BY <2>1, <2>2, CountIsFine DEF MissWritten
  <2>4. r = MissWritten(passed, c)
    BY <1>6 DEF WriteIn
  <2> QED
    BY <2>3, <2>4
<1> QED
  BY <1>1, <1>2, <1>3, <1>4, <1>5, <1>6

-----------------------------------------------------------------------------
(* The levels, from the DRAM up *)

LEMMA FromDramIsFine ==
  ASSUME NEW cfg, IsMachine(cfg), NEW top, NEW h, Contents(cfg, h, top), NEW S, NEW addr
  PROVE  Fine(cfg, h, FromDram(cfg, h), S, addr, top)
BY TouchesNothing, AnswerIsFine DEF FromDram, IsMachine

LEMMA ToDramIsFine ==
  ASSUME NEW cfg, IsMachine(cfg), NEW top, NEW h, Contents(cfg, h, top), NEW S, NEW addr, NEW addrs
  PROVE  Fine(cfg, h, ToDram(cfg, h, addrs), S, addr, top)
BY TouchesNothing, AnswerIsFine DEF ToDram, IsMachine

LEMMA CompletingTouches ==
  ASSUME NEW cfg, IsMachine(cfg), NEW top \in Nat, NEW h, NEW r, NEW c \in Caches,
         NEW addr \in 0 .. top, Fine(cfg, h, r, Path(cfg, c), addr, top)
  PROVE  Touches(cfg, r.h, Done(cfg, r.h, c, addr), Path(cfg, c), addr, top)
<1>1. Contents(cfg, r.h, top)
  BY DEF Fine, Touches
<1>2. Frees(cfg, r.h, Done(cfg, r.h, c, addr), Path(cfg, c), addr, top)
  BY <1>1, DoneFrees
<1> QED
  BY <1>2 DEF Frees, Touches

LEMMA ThirdEvictIsFine ==
  ASSUME NEW cfg, IsMachine(cfg), NEW top \in Nat, NEW h, Contents(cfg, h, top),
         NEW addr \in 0 .. top
  PROVE  Fine(cfg, h, l3_evict(cfg, h, addr), Path(cfg, "l3"), addr, top)
<1> DEFINE w == ToDram(cfg, h, Evicted(cfg, h, "l3", addr))
<1>0. "l3" \in Caches
  BY DEF Caches
<1>1. Find(cfg, h, "l3", addr) = "free" =>
        Fine(cfg, h, w, Path(cfg, Below(cfg, "l3")), Min(Evicted(cfg, h, "l3", addr)), top)
  BY <1>0, EvictedIsABlock, ToDramIsFine
<1> HIDE DEF w
<1>2. Fine(cfg, h, evict(cfg, h, "l3", addr, w), Path(cfg, "l3"), addr, top)
  BY <1>0, <1>1, EvictIsFine
<1> QED
  BY <1>2 DEF l3_evict, w

LEMMA ThirdReadIsFine ==
  ASSUME NEW cfg, IsMachine(cfg), NEW top \in Nat, NEW h, Contents(cfg, h, top),
         NEW addr \in 0 .. top
  PROVE  Fine(cfg, h, l3_read(cfg, h, addr), Path(cfg, "l3"), addr, top)
<1> DEFINE r == FromDram(cfg, h)
           next == l3_evict(cfg, r.h, addr)
           placed == l3_placed(cfg, r, addr)
<1>0. "l3" \in Caches
  BY DEF Caches
<1>1. Fine(cfg, h, r, Path(cfg, "l3"), addr, top)
  BY <1>0, FromDramIsFine, PathFacts, FineOfMore
<1>2. Contents(cfg, r.h, top)
  BY <1>1 DEF Fine, Touches
<1> HIDE DEF r
<1>3. Fine(cfg, r.h, next, Path(cfg, "l3"), addr, top)
  BY <1>2, ThirdEvictIsFine
<1> HIDE DEF next
<1>4. Fine(cfg, h, Then(r, next), Path(cfg, "l3"), addr, top)
  BY <1>1, <1>3, ThenIsFine
<1>5. Fine(cfg, h, placed, Path(cfg, "l3"), addr, top)
  BY <1>4 DEF l3_placed, next
<1> HIDE DEF placed
<1>6. Fine(cfg, h, ReadIn(cfg, h, "l3", addr, placed), Path(cfg, "l3"), addr, top)
  BY <1>0, <1>5, ReadInIsFine
<1> QED
  BY <1>6 DEF l3_read, placed, r

LEMMA ThirdWriteIsFine ==
  ASSUME NEW cfg, IsMachine(cfg), NEW top \in Nat, NEW h, Contents(cfg, h, top),
         NEW addrs, Min(addrs) \in 0 .. top
  PROVE  Fine(cfg, h, l3_write(cfg, h, addrs), Path(cfg, "l3"), Min(addrs), top)
<1> DEFINE addr == Min(addrs)
           passed == ToDram(cfg, h, addrs)
           r == l3_read(cfg, h, addr)
           g == Done(cfg, r.h, "l3", addr)
           hit == WriteHit(cfg, g, "l3", addrs, ToDram(cfg, g, addrs))
           again == l3_again(cfg, g, addrs)
           allocated == l3_allocated(cfg, r, addrs)
<1>0. "l3" \in Caches
  BY DEF Caches
<1>1. Fine(cfg, h, passed, Path(cfg, Below(cfg, "l3")), addr, top)
  BY ToDramIsFine
<1>2. Fine(cfg, h, r, Path(cfg, "l3"), addr, top)
  BY ThirdReadIsFine
<1> HIDE DEF r, passed
<1>3. Touches(cfg, r.h, g, Path(cfg, "l3"), addr, top)
  BY <1>0, <1>2, CompletingTouches
<1>4. Contents(cfg, g, top)
  BY <1>3 DEF Touches
<1> HIDE DEF g
<1>5. Fine(cfg, g, hit, Path(cfg, "l3"), addr, top)
  <2>1. Fine(cfg, g, ToDram(cfg, g, addrs), Path(cfg, Below(cfg, "l3")), addr, top)
    BY <1>4, ToDramIsFine
  <2> QED
    BY <1>0, <1>4, <2>1, WriteHitIsFine
<1> HIDE DEF hit
<1>6. Fine(cfg, g, again, Path(cfg, "l3"), addr, top)
  BY <1>0, <1>4, <1>5, RepeatedIsFine DEF l3_again, hit
<1> HIDE DEF again
<1>7. Fine(cfg, r.h, again, Path(cfg, "l3"), addr, top)
  BY <1>3, <1>6, TouchesOnceMore DEF Fine
<1>8. Fine(cfg, h, Then(r, again), Path(cfg, "l3"), addr, top)
  BY <1>2, <1>7, ThenIsFine
<1>9. Fine(cfg, h, allocated, Path(cfg, "l3"), addr, top)
  BY <1>8 DEF l3_allocated, again, g
<1> HIDE DEF allocated
<1>10. Fine(cfg, h, WriteIn(cfg, h, "l3", addrs, passed, allocated), Path(cfg, "l3"), addr, top)
  BY <1>0, <1>1, <1>9, WriteInIsFine
<1> QED
  BY <1>10 DEF l3_write, passed, allocated, r

LEMMA SecondFetchIsFine ==
  ASSUME NEW cfg, IsMachine(cfg), NEW top \in Nat, NEW h, Contents(cfg, h, top),
         NEW addr \in 0 .. top
  PROVE  Fine(cfg, h, l2_fetch(cfg, h, addr), Path(cfg, Below(cfg, "l2")), addr, top)
<1>1. Below(cfg, "l2") \in {"l3", "dram"}
  BY BelowFacts
<1>2. CASE Below(cfg, "l2") = "l3"
  BY <1>2, ThirdReadIsFine DEF l2_fetch
<1>3. CASE Below(cfg, "l2") = "dram"
  BY <1>3, FromDramIsFine DEF l2_fetch
<1> QED
  BY <1>1, <1>2, <1>3

LEMMA SecondPassIsFine ==
  ASSUME NEW cfg, IsMachine(cfg), NEW top \in Nat, NEW h, Contents(cfg, h, top),
         NEW addrs, Min(addrs) \in 0 .. top
  PROVE  Fine(cfg, h, l2_pass(cfg, h, addrs), Path(cfg, Below(cfg, "l2")), Min(addrs), top)
<1>1. Below(cfg, "l2") \in {"l3", "dram"}
  BY BelowFacts
<1>2. CASE Below(cfg, "l2") = "l3"
  BY <1>2, ThirdWriteIsFine DEF l2_pass
<1>3. CASE Below(cfg, "l2") = "dram"
  BY <1>3, ToDramIsFine DEF l2_pass
<1> QED
  BY <1>1, <1>2, <1>3

LEMMA SecondEvictIsFine ==
  ASSUME NEW cfg, IsMachine(cfg), NEW top \in Nat, NEW h, Contents(cfg, h, top),
         NEW addr \in 0 .. top
  PROVE  Fine(cfg, h, l2_evict(cfg, h, addr), Path(cfg, "l2"), addr, top)
<1> DEFINE w == l2_pass(cfg, h, Evicted(cfg, h, "l2", addr))
<1>0. "l2" \in Caches
  BY DEF Caches
<1>1. Find(cfg, h, "l2", addr) = "free" =>
        Fine(cfg, h, w, Path(cfg, Below(cfg, "l2")), Min(Evicted(cfg, h, "l2", addr)), top)
  BY <1>0, EvictedIsABlock, SecondPassIsFine
<1> HIDE DEF w
<1>2. Fine(cfg, h, evict(cfg, h, "l2", addr, w), Path(cfg, "l2"), addr, top)
  BY <1>0, <1>1, EvictIsFine
<1> QED
  BY <1>2 DEF l2_evict, w

LEMMA SecondReadIsFine ==
  ASSUME NEW cfg, IsMachine(cfg), NEW top \in Nat, NEW h, Contents(cfg, h, top),
         NEW addr \in 0 .. top
  PROVE  Fine(cfg, h, l2_read(cfg, h, addr), Path(cfg, "l2"), addr, top)
<1> DEFINE r == l2_fetch(cfg, h, addr)
           next == l2_evict(cfg, r.h, addr)
           placed == l2_placed(cfg, r, addr)
<1>0. "l2" \in Caches
  BY DEF Caches
<1>1. Fine(cfg, h, r, Path(cfg, "l2"), addr, top)
  BY <1>0, SecondFetchIsFine, PathFacts, FineOfMore
<1>2. Contents(cfg, r.h, top)
  BY <1>1 DEF Fine, Touches
<1> HIDE DEF r
<1>3. Fine(cfg, r.h, next, Path(cfg, "l2"), addr, top)
  BY <1>2, SecondEvictIsFine
<1> HIDE DEF next
<1>4. Fine(cfg, h, Then(r, next), Path(cfg, "l2"), addr, top)
  BY <1>1, <1>3, ThenIsFine
<1>5. Fine(cfg, h, placed, Path(cfg, "l2"), addr, top)
  BY <1>4 DEF l2_placed, next
<1> HIDE DEF placed
<1>6. Fine(cfg, h, ReadIn(cfg, h, "l2", addr, placed), Path(cfg, "l2"), addr, top)
  BY <1>0, <1>5, ReadInIsFine
<1> QED
  BY <1>6 DEF l2_read, placed, r

LEMMA SecondWriteIsFine ==
  ASSUME NEW cfg, IsMachine(cfg), NEW top \in Nat, NEW h, Contents(cfg, h, top),
         NEW addrs, Min(addrs) \in 0 .. top
  PROVE  Fine(cfg, h, l2_write(cfg, h, addrs), Path(cfg, "l2"), Min(addrs), top)
<1> DEFINE addr == Min(addrs)
           passed == l2_pass(cfg, h, addrs)
           r == l2_read(cfg, h, addr)
           g == Done(cfg, r.h, "l2", addr)
           hit == WriteHit(cfg, g, "l2", addrs, l2_pass(cfg, g, addrs))
           again == l2_again(cfg, g, addrs)
           allocated == l2_allocated(cfg, r, addrs)
<1>0. "l2" \in Caches
  BY DEF Caches
<1>1. Fine(cfg, h, passed, Path(cfg, Below(cfg, "l2")), addr, top)
  BY SecondPassIsFine
<1>2. Fine(cfg, h, r, Path(cfg, "l2"), addr, top)
  BY SecondReadIsFine
<1> HIDE DEF r, passed
<1>3. Touches(cfg, r.h, g, Path(cfg, "l2"), addr, top)
  BY <1>0, <1>2, CompletingTouches
<1>4. Contents(cfg, g, top)
  BY <1>3 DEF Touches
<1> HIDE DEF g
<1>5. Fine(cfg, g, hit, Path(cfg, "l2"), addr, top)
  <2>1. Fine(cfg, g, l2_pass(cfg, g, addrs), Path(cfg, Below(cfg, "l2")), addr, top)
    BY <1>4, SecondPassIsFine
  <2> QED
    BY <1>0, <1>4, <2>1, WriteHitIsFine
<1> HIDE DEF hit
<1>6. Fine(cfg, g, again, Path(cfg, "l2"), addr, top)
  BY <1>0, <1>4, <1>5, RepeatedIsFine DEF l2_again, hit
<1> HIDE DEF again
<1>7. Fine(cfg, r.h, again, Path(cfg, "l2"), addr, top)
  BY <1>3, <1>6, TouchesOnceMore DEF Fine
<1>8. Fine(cfg, h, Then(r, again), Path(cfg, "l2"), addr, top)
  BY <1>2, <1>7, ThenIsFine
<1>9. Fine(cfg, h, allocated, Path(cfg, "l2"), addr, top)
  BY <1>8 DEF l2_allocated, again, g
<1> HIDE DEF allocated
<1>10. Fine(cfg, h, WriteIn(cfg, h, "l2", addrs, passed, allocated), Path(cfg, "l2"), addr, top)
  BY <1>0, <1>1, <1>9, WriteInIsFine
<1> QED
  BY <1>10 DEF l2_write, passed, allocated, r

LEMMA FirstFetchIsFine ==
  ASSUME NEW cfg, IsMachine(cfg), NEW top \in Nat, NEW h, Contents(cfg, h, top),
         NEW c \in {"l1_i", "l1_d"}, NEW addr \in 0 .. top
  PROVE  Fine(cfg, h, l1_fetch(cfg, h, c, addr), Path(cfg, Below(cfg, c)), addr, top)
<1>1. Below(cfg, c) \in {"l2", "dram"}
  BY BelowFacts
<1>2. CASE Below(cfg, c) = "l2"
  BY <1>2, SecondReadIsFine DEF l1_fetch
<1>3. CASE Below(cfg, c) = "dram"
  BY <1>3, FromDramIsFine DEF l1_fetch
<1> QED
  BY <1>1, <1>2, <1>3

LEMMA FirstPassIsFine ==
  ASSUME NEW cfg, IsMachine(cfg), NEW top \in Nat, NEW h, Contents(cfg, h, top),
         NEW c \in {"l1_i", "l1_d"}, NEW addrs, Min(addrs) \in 0 .. top
  PROVE  Fine(cfg, h, l1_pass(cfg, h, c, addrs), Path(cfg, Below(cfg, c)), Min(addrs), top)
<1>1. Below(cfg, c) \in {"l2", "dram"}
  BY BelowFacts
<1>2. CASE Below(cfg, c) = "l2"
  BY <1>2, SecondWriteIsFine DEF l1_pass
<1>3. CASE Below(cfg, c) = "dram"
  BY <1>3, ToDramIsFine DEF l1_pass
<1> QED
  BY <1>1, <1>2, <1>3

LEMMA FirstEvictIsFine ==
  ASSUME NEW cfg, IsMachine(cfg), NEW top \in Nat, NEW h, Contents(cfg, h, top),
         NEW c \in {"l1_i", "l1_d"}, NEW addr \in 0 .. top
  PROVE  Fine(cfg, h, l1_evict(cfg, h, c, addr), Path(cfg, c), addr, top)
<1> DEFINE w == l1_pass(cfg, h, c, Evicted(cfg, h, c, addr))
<1>0. c \in Caches
  BY DEF Caches
<1>1. Find(cfg, h, c, addr) = "free" =>
        Fine(cfg, h, w, Path(cfg, Below(cfg, c)), Min(Evicted(cfg, h, c, addr)), top)
  BY <1>0, EvictedIsABlock, FirstPassIsFine
<1> HIDE DEF w
<1>2. Fine(cfg, h, evict(cfg, h, c, addr, w), Path(cfg, c), addr, top)
  BY <1>0, <1>1, EvictIsFine
<1> QED
  BY <1>2 DEF l1_evict, w

LEMMA FirstReadIsFine ==
  ASSUME NEW cfg, IsMachine(cfg), NEW top \in Nat, NEW h, Contents(cfg, h, top),
         NEW c \in {"l1_i", "l1_d"}, NEW addr \in 0 .. top
  PROVE  Fine(cfg, h, l1_read(cfg, h, c, addr), Path(cfg, c), addr, top)
<1> DEFINE r == l1_fetch(cfg, h, c, addr)
           next == l1_evict(cfg, r.h, c, addr)
           placed == l1_placed(cfg, r, c, addr)
<1>0. c \in Caches
  BY DEF Caches
<1>1. Fine(cfg, h, r, Path(cfg, c), addr, top)
  BY <1>0, FirstFetchIsFine, PathFacts, FineOfMore
<1>2. Contents(cfg, r.h, top)
  BY <1>1 DEF Fine, Touches
<1> HIDE DEF r
<1>3. Fine(cfg, r.h, next, Path(cfg, c), addr, top)
  BY <1>2, FirstEvictIsFine
<1> HIDE DEF next
<1>4. Fine(cfg, h, Then(r, next), Path(cfg, c), addr, top)
  BY <1>1, <1>3, ThenIsFine
<1>5. Fine(cfg, h, placed, Path(cfg, c), addr, top)
  BY <1>4 DEF l1_placed, next
<1> HIDE DEF placed
<1>6. Fine(cfg, h, ReadIn(cfg, h, c, addr, placed), Path(cfg, c), addr, top)
  BY <1>0, <1>5, ReadInIsFine
<1> QED
  BY <1>6 DEF l1_read, placed, r

LEMMA FirstWriteIsFine ==
  ASSUME NEW cfg, IsMachine(cfg), NEW top \in Nat, NEW h, Contents(cfg, h, top),
         NEW c \in {"l1_i", "l1_d"}, NEW addrs, Min(addrs) \in 0 .. top
  PROVE  Fine(cfg, h, l1_write(cfg, h, c, addrs), Path(cfg, c), Min(addrs), top)
<1> DEFINE addr == Min(addrs)
           passed == l1_pass(cfg, h, c, addrs)
           r == l1_read(cfg, h, c, addr)
           g == Done(cfg, r.h, c, addr)
           hit == WriteHit(cfg, g, c, addrs, l1_pass(cfg, g, c, addrs))
           again == l1_again(cfg, g, c, addrs)
           allocated == l1_allocated(cfg, r, c, addrs)
<1>0. c \in Caches
  BY DEF Caches
<1>1. Fine(cfg, h, passed, Path(cfg, Below(cfg, c)), addr, top)
  BY FirstPassIsFine
<1>2. Fine(cfg, h, r, Path(cfg, c), addr, top)
  BY FirstReadIsFine
<1> HIDE DEF r, passed
<1>3. Touches(cfg, r.h, g, Path(cfg, c), addr, top)
  BY <1>0, <1>2, CompletingTouches
<1>4. Contents(cfg, g, top)
  BY <1>3 DEF Touches
<1> HIDE DEF g
<1>5. Fine(cfg, g, hit, Path(cfg, c), addr, top)
  <2>1. Fine(cfg, g, l1_pass(cfg, g, c, addrs), Path(cfg, Below(cfg, c)), addr, top)
    BY <1>4, FirstPassIsFine
  <2> QED
    BY <1>0, <1>4, <2>1, WriteHitIsFine
<1> HIDE DEF hit
<1>6. Fine(cfg, g, again, Path(cfg, c), addr, top)
  BY <1>0, <1>4, <1>5, RepeatedIsFine DEF l1_again, hit
<1> HIDE DEF again
<1>7. Fine(cfg, r.h, again, Path(cfg, c), addr, top)
  BY <1>3, <1>6, TouchesOnceMore DEF Fine
<1>8. Fine(cfg, h, Then(r, again), Path(cfg, c), addr, top)
  BY <1>2, <1>7, ThenIsFine
<1>9. Fine(cfg, h, allocated, Path(cfg, c), addr, top)
  BY <1>8 DEF l1_allocated, again, g
<1> HIDE DEF allocated
<1>10. Fine(cfg, h, WriteIn(cfg, h, c, addrs, passed, allocated), Path(cfg, c), addr, top)
  BY <1>0, <1>1, <1>9, WriteInIsFine
<1> QED
  BY <1>10 DEF l1_write, passed, allocated, r

-----------------------------------------------------------------------------
(* The two ports *)

(* The addresses whose transfer has gone through cache c and goes on. *)
FetchHeld(c) ==
  IF mfc_i = "NOT_COMPLETED" /\ c \in Path(config, First(config, "l1_i")) THEN {mar_i} ELSE {}

DataHeld(c) ==
  IF mfc = "NOT_COMPLETED" /\ c \in Path(config, First(config, "l1_d")) THEN {access.addr} ELSE {}

Held(c) == FetchHeld(c) \cup DataHeld(c)

Top == Max(Addr)

PortsInv ==
  /\ phase \in {"MA", "ID", "IF"} /\ status \in {"running", "exited"}
  /\ mfc_i \in {"COMPLETED", "NOT_COMPLETED"} /\ mar_i \in Addr \cup {0}
  /\ mfc \in {"COMPLETED", "NOT_COMPLETED"} /\ access \in [port : {"r", "w"}, addr : Addr \cup {0}]
  /\ mfc_i = "NOT_COMPLETED" => mar_i \in config.text
  /\ mfc = "NOT_COMPLETED" => access \in Accesses
  /\ counter \in [i : {-2, -1} \cup Nat, r : {-2, -1} \cup Nat, w : {-2, -1} \cup Nat]
  /\ unsaved \subseteq config.stores
  /\ DOMAIN counted \subseteq Counters

(* What is locked is the block of a transfer that has not completed. *)
LocksInv ==
  \A c \in Caches : InUse(caches, c) \subseteq {BlockAddr(x, config[c]) : x \in Held(c)}

CachesInv ==
  /\ config \in Configs
  /\ Contents(config, caches, Top)
  /\ PortsInv
  /\ LocksInv

LEMMA MachineFacts ==
  ASSUME config \in Configs
  PROVE  /\ IsMachine(config)
         /\ Top \in Nat /\ Addr \subseteq 0 .. Top /\ 0 \in 0 .. Top
         /\ config.text \subseteq Addr /\ config.loads \subseteq Addr /\ config.stores \subseteq Addr
<1>1. Top \in Nat /\ Addr \subseteq 0 .. Top
  BY AddressAssumption DEF Top, Addr
<1>2. /\ config.DRAM_READ_LATENCY \in Latencies(config)
      /\ config.DRAM_WRITE_LATENCY \in Latencies(config)
      /\ \A c \in Caches : config[c].read_latency \in Latencies(config)
                           /\ config[c].write_latency \in Latencies(config)
  BY DEF Latencies
<1>3. IsMachine(config)
  BY <1>2, GeometryAssumption DEF IsMachine, IsGoodCache
<1> QED
  BY <1>1, <1>3 DEF Addr, Addresses

LEMMA AttemptCounts ==
  ASSUME NEW c \in {-2, -1} \cup Nat, NEW lat \in {-1} \cup Nat
  PROVE  Attempt(c, lat).counter \in {-2, -1} \cup Nat
<1> DEFINE n == IF c < 0 THEN lat - 1 ELSE c
<1>1. n \in {-2, -1} \cup Nat
  OBVIOUS
<1>2. CASE n > 0
  BY <1>1, <1>2 DEF Attempt
<1>3. CASE n = 0
  BY <1>3 DEF Attempt
<1>4. CASE n = -1
  BY <1>4 DEF Attempt
<1>5. CASE n < -1
  BY <1>1, <1>5 DEF Attempt
<1> QED
  BY <1>1, <1>2, <1>3, <1>4, <1>5

(* What a call of a port does, if the caches answer as they should. *)
GoodCall(port, addr, call, S) ==
  /\ Touches(config, caches, call.h, S, addr, Top)
  /\ call.counter \in [i : {-2, -1} \cup Nat, r : {-2, -1} \cup Nat, w : {-2, -1} \cup Nat]
  /\ call.unsaved \subseteq unsaved \cup (IF port = "w" THEN {addr} ELSE {})
  /\ DOMAIN call.counted \subseteq Counters

LEMMA CallIsGood ==
  ASSUME CachesInv, NEW port \in {"i", "r", "w"}, NEW addr \in 0 .. Top, NEW S,
         NEW asked, Fine(config, caches, asked, S, addr, Top)
  PROVE  GoodCall(port, addr, Call(port, addr, asked), S)
<1> DEFINE r == IF counter[port] < 0 THEN asked ELSE Answer(caches, 1, {})
           attempt == Attempt(counter[port], r.stalls)
           call == Call(port, addr, asked)
<1>1. Fine(config, caches, r, S, addr, Top)
  <2>1. Fine(config, caches, Answer(caches, 1, {}), S, addr, Top)
    BY TouchesNothing, AnswerIsFine DEF CachesInv
  <2> QED
    BY <2>1
<1>2. counter[port] \in {-2, -1} \cup Nat
  BY DEF CachesInv, PortsInv
<1>3. call = Outcome(port, addr, r, attempt)
  BY DEF Call, Attempted
<1> HIDE DEF r, call
<1>4. attempt.counter \in {-2, -1} \cup Nat
  BY <1>1, <1>2, AttemptCounts DEF Fine, IsAnswer
<1> HIDE DEF attempt
<1>5. [counter EXCEPT ![port] = attempt.counter]
        \in [i : {-2, -1} \cup Nat, r : {-2, -1} \cup Nat, w : {-2, -1} \cup Nat]
  BY <1>4 DEF CachesInv, PortsInv
<1>6. /\ call.h = r.h /\ call.counted = r.counted
      /\ call.counter = [counter EXCEPT ![port] = attempt.counter]
      /\ call.unsaved \subseteq unsaved \cup (IF port = "w" THEN {addr} ELSE {})
  BY <1>3 DEF Outcome
<1> QED
  BY <1>1, <1>5, <1>6 DEF GoodCall, Fine, IsAnswer, call

DataPath == Path(config, First(config, "l1_d"))

FetchPath == Path(config, First(config, "l1_i"))

LEMMA CachelessIsFine ==
  ASSUME CachesInv, NEW S, NEW addr, NEW saved
  PROVE  /\ Fine(config, caches, Answer(caches, 1, saved), S, addr, Top)
         /\ Fine(config, caches, Answer(caches, config.DRAM_READ_LATENCY, saved), S, addr, Top)
         /\ Fine(config, caches, Answer(caches, config.DRAM_WRITE_LATENCY, saved), S, addr, Top)
<1>1. Touches(config, caches, caches, S, addr, Top)
  BY TouchesNothing DEF CachesInv
<1>2. config.DRAM_READ_LATENCY \in Nat /\ config.DRAM_WRITE_LATENCY \in Nat
  BY MachineFacts DEF CachesInv, IsMachine
<1> QED
  BY <1>1, <1>2, AnswerIsFine

LEMMA DataCallIsGood ==
  ASSUME CachesInv, NEW a \in Accesses
  PROVE  GoodCall(a.port, a.addr, DataCall(a), DataPath)
<1>1. a.port \in {"r", "w"} /\ a.addr \in 0 .. Top
  BY MachineFacts DEF Accesses, CachesInv
<1>2. Fine(config, caches, set_read_counter(a.addr), DataPath, a.addr, Top)
  <2>1. CASE config.CACHE_LEVELS \in {-1, 0}
    BY <2>1, CachelessIsFine DEF set_read_counter
  <2>2. CASE config.CACHE_LEVELS \notin {-1, 0}
    <3>1. First(config, "l1_d") = "l1_d"
      BY <2>2, MachineFacts DEF CachesInv, IsMachine, First
    <3>2. Fine(config, caches, l1_read(config, caches, "l1_d", a.addr), Path(config, "l1_d"),
               a.addr, Top)
      BY <1>1, MachineFacts, FirstReadIsFine DEF CachesInv
    <3> QED
      BY <2>2, <3>1, <3>2 DEF set_read_counter, DataPath
  <2> QED
    BY <2>1, <2>2
<1>3. Fine(config, caches, set_write_counter(a.addr), DataPath, a.addr, Top)
  <2>1. CASE config.CACHE_LEVELS \in {-1, 0}
    BY <2>1, CachelessIsFine DEF set_write_counter
  <2>2. CASE config.CACHE_LEVELS \notin {-1, 0}
    <3>1. First(config, "l1_d") = "l1_d"
      BY <2>2, MachineFacts DEF CachesInv, IsMachine, First
    <3>2. Min({a.addr}) = a.addr
      BY <1>1, MinIsUnique
    <3>3. Fine(config, caches, l1_write(config, caches, "l1_d", {a.addr}), Path(config, "l1_d"),
               Min({a.addr}), Top)
      BY <1>1, <3>2, MachineFacts, FirstWriteIsFine DEF CachesInv
    <3> QED
      BY <2>2, <3>1, <3>2, <3>3 DEF set_write_counter, DataPath
  <2> QED
    BY <2>1, <2>2
<1> QED
  BY <1>1, <1>2, <1>3, CallIsGood DEF DataCall

LEMMA FetchCallIsGood ==
  ASSUME CachesInv, NEW addr \in config.text
  PROVE  GoodCall("i", addr, FetchCall(addr), FetchPath)
<1>1. addr \in 0 .. Top
  BY MachineFacts DEF CachesInv
<1>2. Fine(config, caches, set_read_i_counter(addr), FetchPath, addr, Top)
  <2>1. CASE config.CACHE_LEVELS \in {-1, 0}
    BY <2>1, CachelessIsFine DEF set_read_i_counter
  <2>2. CASE config.CACHE_LEVELS \notin {-1, 0}
    <3>1. First(config, "l1_i") = "l1_i"
      BY <2>2, MachineFacts DEF CachesInv, IsMachine, First
    <3>2. Fine(config, caches, l1_read(config, caches, "l1_i", addr), Path(config, "l1_i"),
               addr, Top)
      BY <1>1, MachineFacts, FirstReadIsFine DEF CachesInv
    <3> QED
      BY <2>2, <3>1, <3>2 DEF set_read_i_counter, FetchPath
  <2> QED
    BY <2>1, <2>2
<1> QED
  BY <1>1, <1>2, CallIsGood DEF FetchCall

LEMMA InitCaches ==
  ASSUME Init
  PROVE  CachesInv
<1>1. config \in Configs
  BY DEF Init
<1>2. Contents(config, caches, Top) /\ \A c \in Caches : InUse(caches, c) = {}
  BY <1>1, MachineFacts, EmptyContents DEF Init
<1>3. PortsInv
  <2>1. DOMAIN Nothing = {}
    BY DEF Nothing
  <2> HIDE DEF Nothing
  <2> QED
    BY <2>1 DEF Init, PortsInv
<1> QED
  BY <1>1, <1>2, <1>3 DEF CachesInv, LocksInv

(* A call that is still pending holds its block, a completed one nothing.  *)
LEMMA TransferKeeps ==
  ASSUME CachesInv, Transfer
  PROVE  CachesInv'
<1>1. config' = config /\ phase' \in {"MA", "ID", "IF"}
  BY DEF Transfer, Runs, DataDone, DataPending
<1>2. PICK a \in NextAccesses :
        /\ DataDone(a, DataCall(a)) \/ DataPending(DataCall(a))
        /\ Accessed(a, DataCall(a))
  BY DEF Transfer
<1>3. a \in Accesses /\ (mfc = "NOT_COMPLETED" => access = a)
  BY DEF NextAccesses, CachesInv, PortsInv
<1>4. a.addr \in 0 .. Top /\ a.addr \in Addr /\ a.port \in {"r", "w"}
      /\ a = [port |-> a.port, addr |-> a.addr] /\ (a.port = "w" => a.addr \in config.stores)
  BY <1>3, MachineFacts DEF Accesses, CachesInv
<1> DEFINE call == DataCall(a)
<1>5. GoodCall(a.port, a.addr, call, DataPath)
  BY <1>3, DataCallIsGood
<1> HIDE DEF call
<1>6. IsMachine(config) /\ Top \in Nat /\ Contents(config, call.h, Top)
  BY <1>5, MachineFacts DEF CachesInv, GoodCall, Touches
<1>7. UNCHANGED <<mfc_i, mar_i, status>> /\ access' = a
  BY <1>2 DEF Transfer, Accessed
<1>8. PortsInv' /\ Top' = Top
  <2>1. counter' = call.counter /\ unsaved' = call.unsaved /\ counted' = Plus(counted, call.counted)
    BY <1>2 DEF Accessed, call
  <2>2. DOMAIN counted' \subseteq Counters
    BY <1>5, <2>1, PlusCounters DEF GoodCall, CachesInv, PortsInv
  <2>3. mfc' \in {"COMPLETED", "NOT_COMPLETED"}
    BY <1>2 DEF DataDone, DataPending
  <2>4. unsaved' \subseteq config.stores
    BY <1>4, <1>5, <2>1 DEF GoodCall, CachesInv, PortsInv
  <2>5. access' \in Accesses' /\ access' \in [port : {"r", "w"}, addr : Addr \cup {0}]
    BY <1>1, <1>3, <1>4, <1>7 DEF Accesses
  <2> QED
    BY <1>1, <1>5, <1>7, <2>1, <2>2, <2>3, <2>4, <2>5 DEF GoodCall, CachesInv, PortsInv, Addr, Top
<1>9. CASE DataDone(a, call)
  <2>1. caches' = Done(config, call.h, First(config, "l1_d"), a.addr) /\ mfc' = "COMPLETED"
    BY <1>9 DEF DataDone, complete_read, complete_write
  <2>2. Frees(config, call.h, caches', DataPath, a.addr, Top)
    BY <1>4, <1>6, <2>1, DoneFrees DEF DataPath
  <2>3. LocksInv'
    <3> SUFFICES ASSUME NEW c \in Caches, NEW x \in InUse(caches', c)
                 PROVE  \E y \in Held(c)' : x = BlockAddr(y, config[c])
      BY <1>1 DEF LocksInv
    <3>1. Held(c)' = FetchHeld(c)
      BY <1>1, <1>7, <2>1 DEF Held, FetchHeld, DataHeld
    <3>2. CASE c \in DataPath
      <4>1. x \in InUse(caches, c) /\ x # BlockAddr(a.addr, config[c])
        BY <1>5, <2>2, <3>2 DEF GoodCall, Touches, Frees
      <4>2. DataHeld(c) \subseteq {a.addr}
        BY <1>3, <1>4 DEF DataHeld, CachesInv, PortsInv
      <4> QED
        BY <3>1, <4>1, <4>2 DEF CachesInv, LocksInv, Held
    <3>3. CASE c \notin DataPath
      <4>1. caches'[c] = caches[c] /\ x \in InUse(caches, c)
        BY <1>5, <2>2, <3>3 DEF GoodCall, Touches, Frees, InUse
      <4>2. DataHeld(c) = {}
        BY <3>3 DEF DataHeld, DataPath
      <4> QED
        BY <3>1, <4>1, <4>2 DEF CachesInv, LocksInv, Held
    <3> QED
      BY <3>2, <3>3
  <2> QED
    BY <1>1, <1>8, <2>2, <2>3 DEF CachesInv, Frees
<1>10. CASE DataPending(call)
  <2>1. caches' = Tick(call.h) /\ mfc' = "NOT_COMPLETED"
    BY <1>10 DEF DataPending
  <2>2. Contents(config, caches', Top) /\ \A c \in Caches : InUse(caches', c) = InUse(call.h, c)
    BY <1>6, <2>1, TickKeeps
  <2>3. LocksInv'
    <3> SUFFICES ASSUME NEW c \in Caches, NEW x \in InUse(caches', c)
                 PROVE  \E y \in Held(c)' : x = BlockAddr(y, config[c])
      BY <1>1 DEF LocksInv
    <3>1. Held(c)' = FetchHeld(c) \cup (IF c \in DataPath THEN {a.addr} ELSE {})
      BY <1>1, <1>4, <1>7, <2>1 DEF Held, FetchHeld, DataHeld, DataPath
    <3>2. Held(c) \subseteq Held(c)'
      BY <1>3, <1>4, <3>1 DEF Held, DataHeld, DataPath
    <3>3. CASE c \in DataPath
      <4>1. x \in InUse(caches, c) \/ x = BlockAddr(a.addr, config[c])
        BY <1>5, <2>2 DEF GoodCall, Touches
      <4> QED
        BY <3>1, <3>2, <3>3, <4>1 DEF CachesInv, LocksInv
    <3>4. CASE c \notin DataPath
      <4>1. x \in InUse(caches, c)
        BY <1>5, <2>2, <3>4 DEF GoodCall, Touches, InUse
      <4> QED
        BY <3>2, <4>1 DEF CachesInv, LocksInv
    <3> QED
      BY <3>3, <3>4
  <2> QED
    BY <1>1, <1>8, <2>2, <2>3 DEF CachesInv
<1> QED
  BY <1>2, <1>9, <1>10 DEF call

LEMMA FetchKeeps ==
  ASSUME CachesInv, Fetch
  PROVE  CachesInv'
<1>1. config' = config /\ phase' = "MA"
  BY DEF Fetch, Runs
<1>2. PICK addr \in NextFetches :
        /\ FetchDone(addr, FetchCall(addr)) \/ FetchPending(FetchCall(addr))
        /\ counter' = FetchCall(addr).counter /\ unsaved' = FetchCall(addr).unsaved
        /\ mar_i' = addr
  BY DEF Fetch
<1>3. addr \in config.text /\ (mfc_i = "NOT_COMPLETED" => mar_i = addr)
  BY DEF NextFetches, CachesInv, PortsInv
<1>4. addr \in 0 .. Top /\ addr \in Addr
  BY <1>3, MachineFacts DEF CachesInv
<1> DEFINE call == FetchCall(addr)
<1>5. GoodCall("i", addr, call, FetchPath)
  BY <1>3, FetchCallIsGood
<1> HIDE DEF call
<1>6. IsMachine(config) /\ Top \in Nat /\ Contents(config, call.h, Top)
  BY <1>5, MachineFacts DEF CachesInv, GoodCall, Touches
<1>7. UNCHANGED <<mfc, access, status, counted>>
  BY DEF Fetch
<1>8. PortsInv' /\ Top' = Top
  <2>1. counter' = call.counter /\ unsaved' \subseteq unsaved /\ mar_i' = addr
    BY <1>2, <1>5 DEF GoodCall, call
  <2>2. mfc_i' \in {"COMPLETED", "NOT_COMPLETED"}
    BY <1>2 DEF FetchDone, FetchPending
  <2> QED
    BY <1>1, <1>3, <1>4, <1>5, <1>7, <2>1, <2>2
    DEF GoodCall, CachesInv, PortsInv, Addr, Accesses, Top
<1>9. CASE FetchDone(addr, call)
  <2> DEFINE done == Done(config, call.h, First(config, "l1_i"), addr)
  <2>1. caches' = Tick(done) /\ mfc_i' = "COMPLETED"
    BY <1>9 DEF FetchDone, complete_read_i
  <2>2. Frees(config, call.h, done, FetchPath, addr, Top)
    BY <1>4, <1>6, DoneFrees DEF FetchPath
  <2> HIDE DEF done
  <2>3. Contents(config, caches', Top) /\ \A c \in Caches : InUse(caches', c) = InUse(done, c)
    BY <1>6, <2>1, <2>2, TickKeeps DEF Frees
  <2>4. LocksInv'
    <3> SUFFICES ASSUME NEW c \in Caches, NEW x \in InUse(caches', c)
                 PROVE  \E y \in Held(c)' : x = BlockAddr(y, config[c])
      BY <1>1 DEF LocksInv
    <3>1. Held(c)' = DataHeld(c)
      BY <1>1, <1>7, <2>1 DEF Held, FetchHeld, DataHeld
    <3>2. CASE c \in FetchPath
      <4>1. x \in InUse(caches, c) /\ x # BlockAddr(addr, config[c])
        BY <1>5, <2>2, <2>3, <3>2 DEF GoodCall, Touches, Frees
      <4>2. FetchHeld(c) \subseteq {addr}
        BY <1>3 DEF FetchHeld, CachesInv, PortsInv
      <4> QED
        BY <3>1, <4>1, <4>2 DEF CachesInv, LocksInv, Held
    <3>3. CASE c \notin FetchPath
      <4>1. done[c] = caches[c] /\ x \in InUse(caches, c)
        BY <1>5, <2>2, <2>3, <3>3 DEF GoodCall, Touches, Frees, InUse
      <4>2. FetchHeld(c) = {}
        BY <3>3 DEF FetchHeld, FetchPath
      <4> QED
        BY <3>1, <4>1, <4>2 DEF CachesInv, LocksInv, Held
    <3> QED
      BY <3>2, <3>3
  <2> QED
    BY <1>1, <1>8, <2>3, <2>4 DEF CachesInv
<1>10. CASE FetchPending(call)
  <2>1. caches' = Tick(call.h) /\ mfc_i' = "NOT_COMPLETED"
    BY <1>10 DEF FetchPending
  <2>2. Contents(config, caches', Top) /\ \A c \in Caches : InUse(caches', c) = InUse(call.h, c)
    BY <1>6, <2>1, TickKeeps
  <2>3. LocksInv'
    <3> SUFFICES ASSUME NEW c \in Caches, NEW x \in InUse(caches', c)
                 PROVE  \E y \in Held(c)' : x = BlockAddr(y, config[c])
      BY <1>1 DEF LocksInv
    <3>1. Held(c)' = DataHeld(c) \cup (IF c \in FetchPath THEN {addr} ELSE {})
      BY <1>1, <1>2, <1>7, <2>1 DEF Held, FetchHeld, DataHeld, FetchPath
    <3>2. Held(c) \subseteq Held(c)'
      BY <1>3, <3>1 DEF Held, FetchHeld, FetchPath
    <3>3. CASE c \in FetchPath
      <4>1. x \in InUse(caches, c) \/ x = BlockAddr(addr, config[c])
        BY <1>5, <2>2 DEF GoodCall, Touches
      <4> QED
        BY <3>1, <3>2, <3>3, <4>1 DEF CachesInv, LocksInv
    <3>4. CASE c \notin FetchPath
      <4>1. x \in InUse(caches, c)
        BY <1>5, <2>2, <3>4 DEF GoodCall, Touches, InUse
      <4> QED
        BY <3>2, <4>1 DEF CachesInv, LocksInv
    <3> QED
      BY <3>3, <3>4
  <2> QED
    BY <1>1, <1>8, <2>2, <2>3 DEF CachesInv
<1> QED
  BY <1>2, <1>9, <1>10 DEF call

(* A cancelled fetch unlocks its block, on all its path. *)
LEMMA CancelKeeps ==
  ASSUME CachesInv, CancelFetch, UNCHANGED <<config, status, mfc, access, unsaved>>,
         phase' \in {"MA", "ID", "IF"}, DOMAIN counted' \subseteq Counters
  PROVE  CachesInv'
<1>1. /\ mfc_i' = "COMPLETED" /\ mar_i' = mar_i /\ counter' = [counter EXCEPT !.i = -1]
      /\ caches' = Done(config, caches, First(config, "l1_i"), mar_i)
  BY DEF CancelFetch, complete_read_i
<1>2. IsMachine(config) /\ Top \in Nat /\ Contents(config, caches, Top) /\ mar_i \in 0 .. Top
  BY MachineFacts DEF CachesInv, PortsInv
<1>3. Frees(config, caches, caches', FetchPath, mar_i, Top)
  BY <1>1, <1>2, DoneFrees DEF FetchPath
<1>4. PortsInv' /\ Top' = Top
  BY <1>1 DEF CachesInv, PortsInv, Addr, Accesses, Top
<1>5. LocksInv'
  <2> SUFFICES ASSUME NEW c \in Caches, NEW x \in InUse(caches', c)
               PROVE  \E y \in Held(c)' : x = BlockAddr(y, config[c])
    BY DEF LocksInv
  <2>1. Held(c)' = DataHeld(c)
    BY <1>1 DEF Held, FetchHeld, DataHeld
  <2>2. x \in InUse(caches, c) /\ (c \in FetchPath => x # BlockAddr(mar_i, config[c]))
    BY <1>3 DEF Frees
  <2>3. FetchHeld(c) \subseteq {mar_i} /\ (c \notin FetchPath => FetchHeld(c) = {})
    BY DEF FetchHeld, FetchPath
  <2> QED
    BY <2>1, <2>2, <2>3 DEF CachesInv, LocksInv, Held
<1> QED
  BY <1>3, <1>4, <1>5 DEF CachesInv, Frees

(* The caches stand still, or their references are renumbered. *)
LEMMA QuietKeeps ==
  ASSUME CachesInv, UNCHANGED <<config, mfc_i, mar_i, mfc, access, counter, unsaved>>,
         caches' = caches \/ caches' = Tick(caches), status' \in {"running", "exited"},
         phase' \in {"MA", "ID", "IF"}, DOMAIN counted' \subseteq Counters
  PROVE  CachesInv'
<1>1. IsMachine(config) /\ Top \in Nat /\ Contents(config, caches, Top)
  BY MachineFacts DEF CachesInv
<1>2. Contents(config, caches', Top) /\ \A c \in Caches : InUse(caches', c) = InUse(caches, c)
  BY <1>1, TickKeeps
<1>3. PortsInv' /\ Top' = Top
  BY DEF CachesInv, PortsInv, Addr, Accesses, Top
<1>4. LocksInv'
  BY <1>2 DEF CachesInv, LocksInv, Held, FetchHeld, DataHeld
<1> QED
  BY <1>2, <1>3, <1>4 DEF CachesInv

LEMMA NextCaches ==
  ASSUME CachesInv, [Next]_vars
  PROVE  CachesInv'
<1>1. DOMAIN Nothing \subseteq Counters /\ DOMAIN counted \subseteq Counters
      /\ phase \in {"MA", "ID", "IF"} /\ status \in {"running", "exited"}
  BY DEF Nothing, CachesInv, PortsInv
<1> HIDE DEF Nothing
<1>2. CASE Transfer
  BY <1>2, TransferKeeps
<1>3. CASE NoAccess
  BY <1>1, <1>3, QuietKeeps DEF NoAccess, Runs
<1>4. CASE Flush
  BY <1>1, <1>4, CancelKeeps DEF Flush, Runs
<1>5. CASE Proceed
  BY <1>1, <1>5, QuietKeeps DEF Proceed, Runs
<1>6. CASE Stall
  BY <1>1, <1>6, QuietKeeps DEF Stall, Runs
<1>7. CASE Redirect
  BY <1>1, <1>7, CancelKeeps DEF Redirect, Runs
<1>8. CASE Fetch
  BY <1>8, FetchKeeps
<1>9. CASE Exit
  BY <1>1, <1>9, QuietKeeps DEF Exit, Runs
<1>10. CASE UNCHANGED vars
  BY <1>1, <1>10, QuietKeeps DEF vars
<1> QED
  BY <1>2, <1>3, <1>4, <1>5, <1>6, <1>7, <1>8, <1>9, <1>10 DEF Next, Stopped

(* Every reachable state satisfies the invariant. *)
LEMMA CachesInvariant == Spec => []CachesInv
<1>1. Init => CachesInv
  BY InitCaches
<1>2. CachesInv /\ [Next]_vars => CachesInv'
  BY NextCaches
<1> QED
  BY <1>1, <1>2, PTL DEF Spec

LEMMA HeldIsInFlight ==
  ASSUME NEW c \in Caches
  PROVE  Held(c) \subseteq InFlight(c)
<1>1. "l1_d" \notin Path(config, First(config, "l1_i"))
      /\ "l1_i" \notin Path(config, First(config, "l1_d"))
  BY BelowFacts DEF Path, First, Caches
<1> QED
  BY <1>1 DEF Held, FetchHeld, DataHeld, InFlight

(* The state keeps its types: the caches their geometry, the counters of   *)
(* the ports the values a latency or a refusal gives them.                 *)
THEOREM TypesKept == Spec => []TypeOK
<1>1. CachesInv => TypeOK
  BY DEF CachesInv, Contents, PortsInv, TypeOK, Top, Now
<1> QED
  BY <1>1, CachesInvariant, PTL

(* No set of any cache ever holds a block twice, whatever the geometries   *)
(* of the levels and the order of accesses, write-backs and fetches: the   *)
(* functions that set a flag on the first line with the tag find the line. *)
THEOREM BlocksAreUnique == Spec => []OneLinePerBlock
<1>1. CachesInv => OneLinePerBlock
  <2> SUFFICES ASSUME CachesInv, NEW c \in Caches, NEW i \in DOMAIN caches[c],
                      NEW v \in Valid(caches[c][i]), NEW w \in Valid(caches[c][i]),
                      caches[c][i][v].addr = caches[c][i][w].addr
               PROVE  v = w
    BY DEF OneLinePerBlock
  <2>1. OneLinePerTag(caches[c][i], config[c])
    BY DEF CachesInv, Contents, SetInv
  <2> QED
    BY <2>1 DEF OneLinePerTag
<1> QED
  BY <1>1, CachesInvariant, PTL

(* A line is locked only while a port transfers its block through that     *)
(* cache: completed and cancelled accesses, refused ones, and the blocks   *)
(* that evictions write back on the way leave no lock behind, with one     *)
(* level of caches, two or three and all their policies.                   *)
THEOREM LocksEnd == Spec => []LocksReleased
<1>1. CachesInv => LocksReleased
  <2> SUFFICES ASSUME CachesInv, NEW p \in Places, LineAt(p).valid = 1, LineAt(p).done = 0
               PROVE  Block(LineAt(p).addr, config[p[1]]) \cap InFlight(p[1]) # {}
    BY DEF LocksReleased
  <2>0. PICK c \in Caches : p \in {c} \X (0 .. config[c].sets - 1) \X (1 .. config[c].ways)
    BY DEF Places
  <2>1. PICK i \in 0 .. config[c].sets - 1, w \in 1 .. config[c].ways : p = <<c, i, w>>
    BY <2>0
  <2> DEFINE lines == caches[c][i]
  <2>2. SetInv(lines, i, config[c], Top) /\ i \in DOMAIN caches[c]
    BY DEF CachesInv, Contents
  <2>3. LineAt(p) = lines[w] /\ p[1] = c
    BY <2>1 DEF LineAt
  <2> HIDE DEF lines
  <2>4. w \in Valid(lines) /\ w \in Locked(lines)
    BY <2>2, <2>3 DEF Locked, Valid, SetInv
  <2>5. lines[w].addr \in InUse(caches, c)
    BY <2>2, <2>4 DEF InUse, LockedBlocks, lines
  <2>6. PICK x \in Held(c) : lines[w].addr = BlockAddr(x, config[c])
    BY <2>5 DEF CachesInv, LocksInv
  <2>7. x \in InFlight(c)
    BY <2>6, HeldIsInFlight
  <2>8. x \in Block(lines[w].addr, config[c])
    <3>1. IsCache(config[c])
      BY MachineFacts DEF CachesInv, IsMachine, IsGoodCache, IsCache
    <3>2. x \in Nat
      BY <2>7, MachineFacts DEF InFlight, CachesInv, PortsInv
    <3>3. x \in Block(x, config[c]) /\ BlockAddr(lines[w].addr, config[c]) = BlockAddr(x, config[c])
      BY <2>6, <3>1, <3>2, BlockAddrFacts
    <3> QED
      BY <3>3 DEF Block
  <2> QED
    BY <2>3, <2>7, <2>8
<1> QED
  BY <1>1, CachesInvariant, PTL

-----------------------------------------------------------------------------
(* What is locked is not replaced: when write misses bypass the lower      *)
(* levels, an access evicts in each cache once, behind its own miss.       *)

(* Every line of c holds the block it held. *)
KeepsBlocks(cfg, h, g, c) ==
  \A i \in 0 .. cfg[c].sets - 1 : \A w \in 1 .. cfg[c].ways : g[c][i][w].addr = h[c][i][w].addr

SameBlocks(cfg, h, g) == \A c \in Caches : KeepsBlocks(cfg, h, g, c)

(* The locked lines of c do. *)
Spares(cfg, h, g, c) ==
  \A i \in 0 .. cfg[c].sets - 1 : \A w \in Locked(h[c][i]) : g[c][i][w].addr = h[c][i][w].addr

SparesAll(cfg, h, g) == \A c \in Caches : Spares(cfg, h, g, c)

(* While addr is accessed, one other access is in flight. *)
OneOther(cfg, h, addr, x) ==
  \A c \in Caches : InUse(h, c) \subseteq {BlockAddr(addr, cfg[c]), BlockAddr(x, cfg[c])}

(* A write that misses in a level below is passed on. *)
Bypasses(cfg) ==
  \A c \in Caches : Below(cfg, c) # "dram" => cfg[Below(cfg, c)].write_miss_policy # "allocate"

LEMMA LockedAreWays ==
  ASSUME NEW cfg, NEW top, NEW h, Contents(cfg, h, top), NEW c \in Caches,
         NEW i \in 0 .. cfg[c].sets - 1
  PROVE  Locked(h[c][i]) \subseteq 1 .. cfg[c].ways
BY DEF Contents, SetInv, Locked, Valid

LEMMA SameIsSpared ==
  ASSUME NEW cfg, NEW top, NEW h, Contents(cfg, h, top), NEW g, SameBlocks(cfg, h, g)
  PROVE  SparesAll(cfg, h, g)
BY LockedAreWays DEF SparesAll, Spares, SameBlocks, KeepsBlocks

LEMMA SameTwice ==
  ASSUME NEW cfg, NEW h, NEW g, NEW f, SameBlocks(cfg, h, g), SameBlocks(cfg, g, f)
  PROVE  SameBlocks(cfg, h, f)
BY DEF SameBlocks, KeepsBlocks

LEMMA SparedThenSame ==
  ASSUME NEW cfg, NEW top, NEW h, Contents(cfg, h, top), NEW g, NEW f,
         SparesAll(cfg, h, g), SameBlocks(cfg, g, f)
  PROVE  SparesAll(cfg, h, f)
BY LockedAreWays DEF SparesAll, Spares, SameBlocks, KeepsBlocks

LEMMA NothingIsReplaced ==
  ASSUME NEW cfg, NEW h
  PROVE  SameBlocks(cfg, h, h)
BY DEF SameBlocks, KeepsBlocks

LEMMA FlagKeepsBlocks ==
  ASSUME NEW cfg, IsMachine(cfg), NEW top \in Nat, NEW h, Contents(cfg, h, top),
         NEW c \in Caches, NEW addr \in 0 .. top, NEW flag, NEW value, Legal(flag, value, cfg[c])
  PROVE  SameBlocks(cfg, h, Flag(cfg, h, c, addr, flag, value))
<1> DEFINE lines == Lines(cfg, h, c, addr)
           s == cfg[c]
           i == Index(addr, s)
           new == SetFlag(lines, addr, s, flag, value)
           g == WithSet(h, c, i, new)
<1>1. SetInv(lines, i, s, top) /\ i \in 0 .. s.sets - 1 /\ IsGoodCache(s) /\ lines = h[c][i]
  BY LinesInv DEF IsMachine, Lines
<1> HIDE DEF lines, i, s
<1>2. SetInv(new, i, s, top) /\ \A w \in 1 .. s.ways : new[w].addr = lines[w].addr
  BY <1>1, SetFlagInv DEF s
<1>3. Flag(cfg, h, c, addr, flag, value) = g
  BY DEF Flag, WithSet, lines, i, s
<1> HIDE DEF new
<1>4. /\ \A d \in Caches \ {c} : g[d] = h[d]
      /\ g[c][i] = new /\ \A j \in (0 .. s.sets - 1) \ {i} : g[c][j] = h[c][j]
  BY <1>1, <1>2, SetChanges DEF s
<1> HIDE DEF g
<1>5. SameBlocks(cfg, h, g)
  BY <1>1, <1>2, <1>4 DEF SameBlocks, KeepsBlocks, s
<1> QED
  BY <1>3, <1>5

LEMMA UseKeepsBlocks ==
  ASSUME NEW cfg, IsMachine(cfg), NEW top \in Nat, NEW h, Contents(cfg, h, top),
         NEW c \in Caches, NEW addr \in 0 .. top
  PROVE  SameBlocks(cfg, h, Use(cfg, h, c, addr))
<1> DEFINE g == touch(cfg, h, c, addr)
<1>1. Legal("reference", Now(cfg, c), cfg[c]) /\ Legal("done", 0, cfg[c])
  BY DEF Now, IsMachine, IsGoodCache, Legal, Bit
<1>2. SameBlocks(cfg, h, g) /\ Contents(cfg, g, top)
  <2>1. Touches(cfg, h, Flag(cfg, h, c, addr, "reference", Now(cfg, c)), {c}, addr, top)
    BY <1>1, FlagTouches
  <2>2. SameBlocks(cfg, h, Flag(cfg, h, c, addr, "reference", Now(cfg, c)))
    BY <1>1, FlagKeepsBlocks
  <2> QED
    BY <2>1, <2>2, NothingIsReplaced DEF touch, Touches
<1> HIDE DEF g
<1>3. SameBlocks(cfg, g, Flag(cfg, g, c, addr, "done", 0))
  BY <1>1, <1>2, FlagKeepsBlocks
<1> QED
  BY <1>2, <1>3, SameTwice DEF Use, g

LEMMA DoneKeepsBlocks ==
  ASSUME NEW cfg, IsMachine(cfg), NEW top \in Nat, NEW h, Contents(cfg, h, top),
         NEW c, NEW addr \in 0 .. top
  PROVE  SameBlocks(cfg, h, Done(cfg, h, c, addr))
<1> DEFINE g == Done(cfg, h, c, addr)
<1>1. \A d \in Caches : SameBlocks(cfg, h, Flag(cfg, h, d, addr, "done", 1))
  BY FlagKeepsBlocks DEF Legal, Bit
<1>2. \A d \in Caches : g[d] = h[d] \/ g[d] = Flag(cfg, h, d, addr, "done", 1)[d]
  BY DEF Done
<1> HIDE DEF g
<1>3. SameBlocks(cfg, h, g)
  BY <1>1, <1>2 DEF SameBlocks, KeepsBlocks
<1> QED
  BY <1>3 DEF g

LEMMA TickKeepsBlocks ==
  ASSUME NEW cfg, IsMachine(cfg), NEW top \in Nat, NEW h, Contents(cfg, h, top)
  PROVE  SameBlocks(cfg, h, Tick(h))
<1>1. \A c \in Caches : \A i \in 0 .. cfg[c].sets - 1 : Tick(h)[c][i] = Renumber(h[c][i])
  BY DEF Tick, Contents
<1>2. \A c \in Caches : \A i \in 0 .. cfg[c].sets - 1 : \A w \in 1 .. cfg[c].ways :
        Renumber(h[c][i])[w].addr = h[c][i][w].addr
  <2> TAKE c \in Caches
  <2> TAKE i \in 0 .. cfg[c].sets - 1
  <2>1. h[c][i] \in SetsOf(cfg[c].ways) /\ cfg[c].ways \in Nat
    BY SetsAreSets DEF Contents, IsMachine, IsGoodCache
  <2> QED
    BY <2>1, RanksKeepTheOrder
<1> QED
  BY <1>1, <1>2 DEF SameBlocks, KeepsBlocks

(* Behind a miss only the other access locks a line of the set. *)
LEMMA PlaceSpares ==
  ASSUME NEW s, IsGoodCache(s), NEW top \in Nat, NEW addr \in 0 .. top, NEW lines,
         SetInv(lines, Index(addr, s), s, top), find_block(lines, addr, s) = "free",
         NEW z, LockedBlocks(lines) \subseteq {BlockAddr(addr, s), z}
  PROVE  \A w \in Locked(lines) :
           Place(lines, Victim(lines), addr, s, s.ways)[w].addr = lines[w].addr
<1>1. lines \in SetsOf(s.ways) /\ s.ways \in Nat /\ IsCache(s) /\ addr \in Nat
  BY SetsAreSets DEF IsGoodCache, IsCache
<1>2. Matching(lines, addr, s) \cap Valid(lines) = {}
  BY FreeIsAMiss
<1>3. \A w \in Locked(lines) : lines[w].addr = z
  <2> SUFFICES ASSUME NEW w \in Locked(lines), lines[w].addr = BlockAddr(addr, s) PROVE FALSE
    BY DEF LockedBlocks
  <2>1. get_tag(lines[w].addr, s) = get_tag(addr, s)
    BY <1>1, BlockHasTheTag
  <2> QED
    BY <1>2, <2>1 DEF Locked, Valid, Matching
<1>4. AtMostOneLocked(lines)
  BY <1>3 DEF AtMostOneLocked, Locked, SetInv, OneLinePerTag
<1>5. Victim(lines) \notin Locked(lines)
  BY <1>1, <1>4, VictimIsAWay
<1>6. \A w \in Locked(lines) : w \in DOMAIN lines
  BY DEF Locked, Valid
<1> HIDE DEF Victim
<1> QED
  BY <1>5, <1>6 DEF Place

LEMMA AnswerContents ==
  ASSUME NEW h, NEW n \in {-1} \cup Nat, NEW saved
  PROVE  IsAnswer(Answer(h, n, saved)) /\ Answer(h, n, saved).h = h
<1>1. DOMAIN Nothing = {}
  BY DEF Nothing
<1> HIDE DEF Nothing
<1> QED
  BY <1>1 DEF IsAnswer, Answer

LEMMA FatalContents ==
  ASSUME NEW h
  PROVE  Fatal(h).h = h
BY DEF Fatal, Answer

LEMMA CountContents ==
  ASSUME NEW r, IsAnswer(r), NEW c, NEW what, <<c, what>> \in Counters, NEW k
  PROVE  IsAnswer(Count(r, c, what, k)) /\ Count(r, c, what, k).h = r.h
<1> DEFINE one == [x \in {<<c, what>>} |-> k]
           sum == Plus(r.counted, one)
<1>1. DOMAIN one \subseteq Counters
  OBVIOUS
<1> HIDE DEF one
<1>2. DOMAIN sum \subseteq Counters
  BY <1>1, PlusCounters DEF IsAnswer
<1>3. Count(r, c, what, k) = [r EXCEPT !.counted = sum]
  BY DEF Count, one
<1> HIDE DEF sum
<1>4. Count(r, c, what, k) = [h |-> r.h, stalls |-> r.stalls, saved |-> r.saved, counted |-> sum,
                              fatal |-> r.fatal]
  BY <1>3 DEF IsAnswer
<1> QED
  BY <1>2, <1>4 DEF IsAnswer

LEMMA ThenContents ==
  ASSUME NEW r, NEW next, IsAnswer(next)
  PROVE  Then(r, next).h \in {r.h, next.h}
<1>1. CASE r.stalls = -1
  BY <1>1 DEF Then
<1>2. CASE r.stalls # -1
  <2> DEFINE stalls == IF next.stalls = -1 THEN -1 ELSE next.stalls + r.stalls
             saved == next.saved \cup r.saved
             sum == Plus(next.counted, r.counted)
  <2>1. Then(r, next) = [next EXCEPT !.saved = saved, !.counted = sum, !.stalls = stalls]
    BY <1>2 DEF Then
  <2> HIDE DEF stalls, saved, sum
  <2> QED
    BY <2>1 DEF IsAnswer
<1> QED
  BY <1>1, <1>2

LEMMA ReadInSpares ==
  ASSUME NEW cfg, IsMachine(cfg), NEW top \in Nat, NEW h, Contents(cfg, h, top),
         NEW c \in Caches, NEW addr \in 0 .. top, NEW placed,
         Find(cfg, h, c, addr) = "free" => SparesAll(cfg, h, placed.h)
  PROVE  SparesAll(cfg, h, ReadIn(cfg, h, c, addr, placed).h)
<1> DEFINE outcome == Find(cfg, h, c, addr)
           r == ReadIn(cfg, h, c, addr, placed)
<1>1. cfg[c].read_latency \in {-1} \cup Nat
  BY DEF IsMachine, IsGoodCache
<1>2. outcome \in {"hit", "busy", "free", "full"}
  BY LinesInv, FindOutcomes DEF Find
<1>3. SparesAll(cfg, h, h)
  BY NothingIsReplaced, SameIsSpared
<1>4. CASE outcome = "hit"
  <2> DEFINE g == Use(cfg, h, c, addr)
             q == Answer(g, cfg[c].read_latency, {})
  <2>1. SameBlocks(cfg, h, g)
    BY UseKeepsBlocks
  <2>2. r = Count(q, c, "hit_r", 1)
    BY <1>4 DEF ReadIn, ReadHit
  <2> HIDE DEF g, r
  <2>3. IsAnswer(q) /\ q.h = g
    BY <1>1, AnswerContents
  <2> HIDE DEF q
  <2>4. <<c, "hit_r">> \in Counters
    BY DEF Counters
  <2>5. r.h = g
    BY <2>2, <2>3, <2>4, CountContents
  <2>6. SparesAll(cfg, h, g)
    BY <2>1, SameIsSpared
  <2> QED
    BY <2>5, <2>6 DEF r
<1>5. CASE outcome = "busy"
  BY <1>3, <1>5, FatalContents DEF ReadIn
<1>6. CASE outcome = "full"
  BY <1>3, <1>6, AnswerContents DEF ReadIn
<1>7. CASE outcome = "free"
  <2> DEFINE q == Answer(placed.h, cfg[c].read_latency, {})
             next == Count(q, c, "miss_r", 1)
  <2>1. IsAnswer(next) /\ next.h = placed.h
    <3>1. IsAnswer(q) /\ q.h = placed.h
      BY <1>1, AnswerContents
    <3> HIDE DEF q
    <3>2. <<c, "miss_r">> \in Counters
      BY DEF Counters
    <3> QED
      BY <3>1, <3>2, CountContents
  <2> HIDE DEF next
  <2>2. Then(placed, next).h = placed.h
    BY <2>1, ThenContents
  <2>3. r = Then(placed, next)
    BY <1>7 DEF ReadIn, ReadMiss, next
  <2> QED
    BY <1>7, <2>2, <2>3
<1> QED
  BY <1>2, <1>4, <1>5, <1>6, <1>7

(* An eviction in c replaces no locked line of c, and nothing elsewhere.   *)
Evicts(cfg, h, g, c) ==
  Spares(cfg, h, g, c) /\ \A d \in Caches \ {c} : KeepsBlocks(cfg, h, g, d)

LEMMA SparedThenEvicted ==
  ASSUME NEW cfg, NEW top, NEW h, Contents(cfg, h, top), NEW g, NEW f, NEW c \in Caches,
         SparesAll(cfg, h, g), g[c] = h[c], Evicts(cfg, g, f, c)
  PROVE  SparesAll(cfg, h, f)
BY LockedAreWays DEF SparesAll, Spares, KeepsBlocks, Evicts

LEMMA WriteBackKeepsBlocks ==
  ASSUME NEW cfg, IsMachine(cfg), NEW top \in Nat, NEW h, NEW c \in Caches,
         NEW w, NEW block, Min(block) \in 0 .. top,
         Fine(cfg, h, w, Path(cfg, Below(cfg, c)), Min(block), top), SameBlocks(cfg, h, w.h)
  PROVE  SameBlocks(cfg, h, WriteBack(cfg, w, c, block).h)
<1> DEFINE g == Done(cfg, w.h, Below(cfg, c), Min(block))
           q == [w EXCEPT !.h = g]
           k == IF c = "l2" /\ Below(cfg, c) = "dram" THEN 0 ELSE 1
<1>1. SameBlocks(cfg, w.h, g)
  BY DoneKeepsBlocks DEF Fine, Touches
<1> HIDE DEF g, k
<1>2. IsAnswer(q) /\ q.h = g
  <2>1. q = [h |-> g, stalls |-> w.stalls, saved |-> w.saved, counted |-> w.counted,
             fatal |-> w.fatal]
    BY DEF Fine, IsAnswer
  <2> QED
    BY <2>1 DEF Fine, IsAnswer
<1> HIDE DEF q
<1>3. Count(q, c, "writebacks", k).h = g
  BY <1>2, CountContents DEF Counters
<1>4. WriteBack(cfg, w, c, block) = Count(q, c, "writebacks", k)
  BY DEF WriteBack, q, k, g
<1> QED
  BY <1>1, <1>3, <1>4, SameTwice

LEMMA ReplaceEvicts ==
  ASSUME NEW cfg, IsMachine(cfg), NEW top \in Nat, NEW h, Contents(cfg, h, top),
         NEW c \in Caches, NEW addr \in 0 .. top, Find(cfg, h, c, addr) = "free",
         NEW w, Fine(cfg, h, w, Path(cfg, Below(cfg, c)), Min(Evicted(cfg, h, c, addr)), top),
         SameBlocks(cfg, h, w.h), NEW x, OneOther(cfg, h, addr, x)
  PROVE  Evicts(cfg, h, Replace(cfg, h, c, addr, w, Victim(Lines(cfg, h, c, addr))).h, c)
<1> DEFINE s == cfg[c]
           i == Index(addr, s)
           lines == Lines(cfg, h, c, addr)
           way == Victim(lines)
           block == Evicted(cfg, h, c, addr)
           r == IF WritesBack(lines, way, s) THEN WriteBack(cfg, w, c, block) ELSE Answer(h, 0, {})
           P == Path(cfg, Below(cfg, c))
           new == Place(lines, way, addr, s, s.ways)
           g == WithSet(r.h, c, i, new)
           q == Replace(cfg, h, c, addr, w, way)
<1>1. Fine(cfg, h, r, P, addr, top) /\ SameBlocks(cfg, h, r.h)
  <2>1. Fine(cfg, h, WriteBack(cfg, w, c, block), P, addr, top)
    BY EvictedIsABlock, WriteBackIsFine
  <2>2. SameBlocks(cfg, h, WriteBack(cfg, w, c, block).h)
    BY EvictedIsABlock, WriteBackKeepsBlocks
  <2>3. Fine(cfg, h, Answer(h, 0, {}), P, addr, top) /\ SameBlocks(cfg, h, Answer(h, 0, {}).h)
    BY TouchesNothing, AnswerIsFine, AnswerContents, NothingIsReplaced
  <2> QED
    BY <2>1, <2>2, <2>3
<1>2. c \notin P
  BY PathFacts
<1>3. q = [r EXCEPT !.h[c][i] = Place(@, way, addr, s, s.ways)]
  BY DEF Replace, Now
<1> HIDE DEF r, P, q, way
<1>4. Contents(cfg, r.h, top) /\ r.h[c] = h[c]
  BY <1>1, <1>2 DEF Fine, Touches
<1>5. r.h[c][i] = lines /\ h[c][i] = lines
  BY <1>4 DEF Lines
<1>6. SetInv(lines, i, s, top) /\ IsGoodCache(s) /\ find_block(lines, addr, s) = "free"
      /\ i \in 0 .. s.sets - 1
  BY LinesInv DEF Find, IsMachine
<1> HIDE DEF lines
<1>7. \A v \in Locked(lines) : new[v].addr = lines[v].addr
  <2>1. LockedBlocks(lines) \subseteq InUse(h, c)
    BY <1>5, <1>6 DEF InUse, Contents
  <2>2. LockedBlocks(lines) \subseteq {BlockAddr(addr, s), BlockAddr(x, s)}
    BY <2>1 DEF OneOther
  <2> QED
    BY <1>6, <2>2, PlaceSpares DEF way
<1>8. SetInv(new, i, s, top)
  BY <1>6, PlaceInv DEF way
<1> HIDE DEF new
<1>9. q.h = g
  BY <1>1, <1>3, <1>5 DEF Fine, IsAnswer, WithSet, new
<1> HIDE DEF i
<1>10. /\ \A d \in Caches \ {c} : g[d] = r.h[d]
       /\ g[c][i] = new /\ \A j \in (0 .. s.sets - 1) \ {i} : g[c][j] = h[c][j]
  BY <1>4, <1>6, <1>8, SetChanges
<1> HIDE DEF g
<1>11. \A j \in 0 .. s.sets - 1 : \A v \in Locked(h[c][j]) : g[c][j][v].addr = h[c][j][v].addr
  BY <1>5, <1>7, <1>10
<1>12. \A d \in Caches \ {c} : KeepsBlocks(cfg, h, g, d)
  BY <1>1, <1>10 DEF SameBlocks, KeepsBlocks
<1> QED
  BY <1>9, <1>11, <1>12 DEF Evicts, Spares, q, way, lines

LEMMA EvictEvicts ==
  ASSUME NEW cfg, IsMachine(cfg), NEW top \in Nat, NEW h, Contents(cfg, h, top),
         NEW c \in Caches, NEW addr \in 0 .. top, NEW w,
         Find(cfg, h, c, addr) = "free" =>
           /\ Fine(cfg, h, w, Path(cfg, Below(cfg, c)), Min(Evicted(cfg, h, c, addr)), top)
           /\ SameBlocks(cfg, h, w.h),
         NEW x, OneOther(cfg, h, addr, x)
  PROVE  Evicts(cfg, h, evict(cfg, h, c, addr, w).h, c)
<1>1. evict(cfg, h, c, addr, w) = evict_fifo(cfg, h, c, addr, w)
  <2>1. cfg[c].replacement_policy \in {"FIFO", "LRU"}
    BY DEF IsMachine, IsGoodCache
  <2> QED
    BY <2>1 DEF evict, evict_lru
<1>2. CASE Find(cfg, h, c, addr) # "free"
  <2>1. evict(cfg, h, c, addr, w).h = h
    BY <1>1, <1>2, FatalContents DEF evict_fifo
  <2> QED
    BY <2>1 DEF Evicts, Spares, KeepsBlocks
<1>3. CASE Find(cfg, h, c, addr) = "free"
  BY <1>1, <1>3, ReplaceEvicts DEF evict_fifo
<1> QED
  BY <1>2, <1>3

LEMMA HitWrittenKeepsBlocks ==
  ASSUME NEW cfg, IsMachine(cfg), NEW top \in Nat, NEW h, NEW c \in Caches, NEW addr \in 0 .. top,
         NEW r, Contents(cfg, r.h, top), SameBlocks(cfg, h, r.h)
  PROVE  SameBlocks(cfg, h, HitWritten(cfg, r, c, addr).h)
<1> DEFINE g == Use(cfg, r.h, c, addr)
           q == Answer(g, cfg[c].write_latency, {})
           next == Count(q, c, "hit_w", 1)
<1>1. cfg[c].write_latency \in {-1} \cup Nat
  BY DEF IsMachine, IsGoodCache
<1>2. SameBlocks(cfg, r.h, g)
  BY UseKeepsBlocks
<1> HIDE DEF g
<1>3. IsAnswer(next) /\ next.h = g
  <2>1. IsAnswer(q) /\ q.h = g
    BY <1>1, AnswerContents
  <2> HIDE DEF q
  <2>2. <<c, "hit_w">> \in Counters
    BY DEF Counters
  <2> QED
    BY <2>1, <2>2, CountContents
<1> HIDE DEF next
<1>4. Then(r, next).h \in {r.h, g}
  BY <1>3, ThenContents
<1>5. SameBlocks(cfg, h, g)
  BY <1>2, SameTwice
<1> QED
  BY <1>4, <1>5 DEF HitWritten, next, q, g

LEMMA WriteHitKeepsBlocks ==
  ASSUME NEW cfg, IsMachine(cfg), NEW top \in Nat, NEW h, Contents(cfg, h, top),
         NEW c \in Caches, NEW addrs, Min(addrs) \in 0 .. top,
         NEW passed, Contents(cfg, passed.h, top), SameBlocks(cfg, h, passed.h)
  PROVE  SameBlocks(cfg, h, WriteHit(cfg, h, c, addrs, passed).h)
<1> DEFINE stored == Stored(cfg, h, c, addrs, passed)
           g == Flag(cfg, h, c, Min(addrs), "dirty", 1)
<1>1. Contents(cfg, stored.h, top) /\ SameBlocks(cfg, h, stored.h)
  <2>1. cfg[c].write_policy \in {"through", "back"}
    BY DEF IsMachine, IsGoodCache
  <2>2. Legal("dirty", 1, cfg[c])
    BY DEF Legal, Bit
  <2>3. Touches(cfg, h, g, {c}, Min(addrs), top) /\ SameBlocks(cfg, h, g)
    BY <2>2, FlagTouches, FlagKeepsBlocks
  <2>4. Answer(g, 0, {}).h = g
    BY AnswerContents
  <2> HIDE DEF g
  <2>5. stored = passed \/ stored = Answer(g, 0, {})
    BY <2>1 DEF Stored, g
  <2> HIDE DEF stored
  <2> QED
    BY <2>3, <2>4, <2>5 DEF Touches
<1> HIDE DEF stored
<1> QED
  BY <1>1, HitWrittenKeepsBlocks DEF WriteHit, stored

LEMMA RepeatedKeepsBlocks ==
  ASSUME NEW cfg, NEW h, NEW c \in Caches, NEW addrs, NEW w, IsAnswer(w), SameBlocks(cfg, h, w.h)
  PROVE  SameBlocks(cfg, h, Repeated(cfg, h, c, addrs, w).h)
<1> DEFINE p == Count(w, c, "miss_r", -1)
           q == Count(p, c, "hit_w", -1)
<1>1. Corrected(w, c).h = w.h
  <2>1. <<c, "miss_r">> \in Counters /\ <<c, "hit_w">> \in Counters /\ <<c, "miss_w">> \in Counters
    BY DEF Counters
  <2>2. IsAnswer(p) /\ p.h = w.h
    BY <2>1, CountContents
  <2> HIDE DEF p
  <2>3. IsAnswer(q) /\ q.h = p.h
    BY <2>1, <2>2, CountContents
  <2> HIDE DEF q
  <2>4. Count(q, c, "miss_w", 1).h = q.h
    BY <2>1, <2>3, CountContents
  <2> QED
    BY <2>2, <2>3, <2>4 DEF Corrected, p, q
<1> QED
  BY <1>1, FatalContents, NothingIsReplaced DEF Repeated

(* A write that misses is passed on. *)
LEMMA WriteInKeepsBlocks ==
  ASSUME NEW cfg, IsMachine(cfg), NEW top \in Nat, NEW h, Contents(cfg, h, top),
         NEW c \in Caches, cfg[c].write_miss_policy # "allocate",
         NEW addrs, Min(addrs) \in 0 .. top, NEW passed, IsAnswer(passed),
         Contents(cfg, passed.h, top), SameBlocks(cfg, h, passed.h), NEW allocated
  PROVE  SameBlocks(cfg, h, WriteIn(cfg, h, c, addrs, passed, allocated).h)
<1> DEFINE outcome == Find(cfg, h, c, Min(addrs))
           r == WriteIn(cfg, h, c, addrs, passed, allocated)
<1>1. outcome \in {"hit", "busy", "free", "full"}
  BY LinesInv, FindOutcomes DEF Find
<1>2. CASE outcome = "busy"
  BY <1>2, FatalContents, NothingIsReplaced DEF WriteIn
<1>3. CASE outcome = "hit"
  BY <1>3, WriteHitKeepsBlocks DEF WriteIn
<1>4. CASE outcome \in {"full", "free"}
  <2>1. MissWritten(passed, c).h = passed.h
    <3>1. <<c, "miss_w">> \in Counters
      BY DEF Counters
    <3> QED
      BY <3>1, CountContents DEF MissWritten
  <2>2. r = MissWritten(passed, c)
    BY <1>4 DEF WriteIn
  <2> QED
    BY <2>1, <2>2
<1> QED
  BY <1>1, <1>2, <1>3, <1>4

LEMMA WriteInSpares ==
  ASSUME NEW cfg, IsMachine(cfg), NEW top \in Nat, NEW h, Contents(cfg, h, top),
         NEW c \in Caches, NEW addrs, Min(addrs) \in 0 .. top, NEW passed, IsAnswer(passed),
         Contents(cfg, passed.h, top), SameBlocks(cfg, h, passed.h),
         NEW allocated, SparesAll(cfg, h, allocated.h)
  PROVE  SparesAll(cfg, h, WriteIn(cfg, h, c, addrs, passed, allocated).h)
<1> DEFINE outcome == Find(cfg, h, c, Min(addrs))
           allocates == cfg[c].write_miss_policy = "allocate"
           r == WriteIn(cfg, h, c, addrs, passed, allocated)
<1>1. outcome \in {"hit", "busy", "free", "full"}
  BY LinesInv, FindOutcomes DEF Find
<1>2. SparesAll(cfg, h, h) /\ SparesAll(cfg, h, passed.h)
  BY NothingIsReplaced, SameIsSpared
<1>3. CASE outcome = "busy"
  BY <1>2, <1>3, FatalContents DEF WriteIn
<1>4. CASE outcome = "hit"
  BY <1>4, WriteHitKeepsBlocks, SameIsSpared DEF WriteIn
<1>5. CASE outcome = "full" /\ allocates
  <2>1. r = Answer(h, -1, {})
    BY <1>5 DEF WriteIn
  <2> QED
    BY <1>2, <2>1, AnswerContents
<1>6. CASE outcome = "free" /\ allocates
  BY <1>6 DEF WriteIn
<1>7. CASE outcome \in {"full", "free"} /\ ~allocates
  <2>1. MissWritten(passed, c).h = passed.h
    <3>1. <<c, "miss_w">> \in Counters
      BY DEF Counters
    <3> QED
      BY <3>1, CountContents DEF MissWritten
  <2>2. r = MissWritten(passed, c)
    BY <1>7 DEF WriteIn
  <2> QED
    BY <1>2, <2>1, <2>2
<1> QED
  BY <1>1, <1>3, <1>4, <1>5, <1>6, <1>7

LEMMA OneOtherStays ==
  ASSUME NEW cfg, NEW top, NEW h, NEW g, NEW S, NEW addr, Touches(cfg, h, g, S, addr, top),
         NEW x, OneOther(cfg, h, addr, x)
  PROVE  OneOther(cfg, g, addr, x)
BY DEF OneOther, Touches

LEMMA PlacedSpares ==
  ASSUME NEW cfg, NEW top, NEW h, Contents(cfg, h, top), NEW c \in Caches, NEW addr,
         NEW r, Fine(cfg, h, r, Path(cfg, Below(cfg, c)), addr, top), SparesAll(cfg, h, r.h),
         NEW next, IsAnswer(next), Evicts(cfg, r.h, next.h, c)
  PROVE  SparesAll(cfg, h, Then(r, next).h)
<1>1. r.h[c] = h[c]
  BY PathFacts DEF Fine, Touches
<1>2. SparesAll(cfg, h, next.h)
  BY <1>1, SparedThenEvicted
<1> QED
  BY <1>2, ThenContents

LEMMA AllocatedSpares ==
  ASSUME NEW cfg, IsMachine(cfg), NEW top \in Nat, NEW h, Contents(cfg, h, top), NEW c,
         NEW addr \in 0 .. top, NEW r, Contents(cfg, r.h, top), SparesAll(cfg, h, r.h),
         NEW next, IsAnswer(next), SameBlocks(cfg, Done(cfg, r.h, c, addr), next.h)
  PROVE  SparesAll(cfg, h, Then(r, next).h)
<1>1. SameBlocks(cfg, r.h, Done(cfg, r.h, c, addr))
  BY DoneKeepsBlocks
<1>2. SameBlocks(cfg, r.h, next.h)
  BY <1>1, SameTwice
<1>3. SparesAll(cfg, h, next.h)
  BY <1>2, SparedThenSame
<1> QED
  BY <1>3, ThenContents

(* The levels, from the DRAM up *)

LEMMA ToDramKeepsBlocks ==
  ASSUME NEW cfg, IsMachine(cfg), NEW h, NEW addrs
  PROVE  SameBlocks(cfg, h, ToDram(cfg, h, addrs).h)
BY AnswerContents, NothingIsReplaced DEF ToDram, IsMachine

LEMMA FromDramSpares ==
  ASSUME NEW cfg, IsMachine(cfg), NEW top, NEW h, Contents(cfg, h, top)
  PROVE  SparesAll(cfg, h, FromDram(cfg, h).h)
BY AnswerContents, NothingIsReplaced, SameIsSpared DEF FromDram, IsMachine

LEMMA ThirdEvictEvicts ==
  ASSUME NEW cfg, IsMachine(cfg), Bypasses(cfg), NEW top \in Nat, NEW h, Contents(cfg, h, top),
         NEW addr \in 0 .. top, NEW x, OneOther(cfg, h, addr, x)
  PROVE  Evicts(cfg, h, l3_evict(cfg, h, addr).h, "l3")
<1> DEFINE w == ToDram(cfg, h, Evicted(cfg, h, "l3", addr))
<1>0. "l3" \in Caches
  BY DEF Caches
<1>1. Find(cfg, h, "l3", addr) = "free" =>
        /\ Fine(cfg, h, w, Path(cfg, Below(cfg, "l3")), Min(Evicted(cfg, h, "l3", addr)), top)
        /\ SameBlocks(cfg, h, w.h)
  BY <1>0, EvictedIsABlock, ToDramIsFine, ToDramKeepsBlocks
<1> HIDE DEF w
<1>2. Evicts(cfg, h, evict(cfg, h, "l3", addr, w).h, "l3")
  BY <1>0, <1>1, EvictEvicts
<1> QED
  BY <1>2 DEF l3_evict, w

LEMMA ThirdReadSpares ==
  ASSUME NEW cfg, IsMachine(cfg), Bypasses(cfg), NEW top \in Nat, NEW h, Contents(cfg, h, top),
         NEW addr \in 0 .. top, NEW x, OneOther(cfg, h, addr, x)
  PROVE  SparesAll(cfg, h, l3_read(cfg, h, addr).h)
<1> DEFINE r == FromDram(cfg, h)
           next == l3_evict(cfg, r.h, addr)
           placed == l3_placed(cfg, r, addr)
<1>0. "l3" \in Caches
  BY DEF Caches
<1>1. Fine(cfg, h, r, Path(cfg, Below(cfg, "l3")), addr, top) /\ SparesAll(cfg, h, r.h)
  BY FromDramIsFine, FromDramSpares
<1> HIDE DEF r
<1>2. Contents(cfg, r.h, top) /\ OneOther(cfg, r.h, addr, x)
  BY <1>1, OneOtherStays DEF Fine, Touches
<1>3. IsAnswer(next) /\ Evicts(cfg, r.h, next.h, "l3")
  BY <1>2, ThirdEvictIsFine, ThirdEvictEvicts DEF Fine
<1> HIDE DEF next
<1>4. SparesAll(cfg, h, Then(r, next).h)
  BY <1>0, <1>1, <1>3, PlacedSpares
<1>5. SparesAll(cfg, h, placed.h)
  BY <1>4 DEF l3_placed, next
<1> HIDE DEF placed
<1>6. SparesAll(cfg, h, ReadIn(cfg, h, "l3", addr, placed).h)
  BY <1>0, <1>5, ReadInSpares
<1> QED
  BY <1>6 DEF l3_read, placed, r

LEMMA ThirdWriteKeepsBlocks ==
  ASSUME NEW cfg, IsMachine(cfg), Bypasses(cfg), NEW top \in Nat, NEW h, Contents(cfg, h, top),
         cfg["l3"].write_miss_policy # "allocate", NEW addrs, Min(addrs) \in 0 .. top
  PROVE  SameBlocks(cfg, h, l3_write(cfg, h, addrs).h)
<1> DEFINE passed == ToDram(cfg, h, addrs)
           allocated == l3_allocated(cfg, l3_read(cfg, h, Min(addrs)), addrs)
<1>0. "l3" \in Caches
  BY DEF Caches
<1>1. /\ Fine(cfg, h, passed, Path(cfg, Below(cfg, "l3")), Min(addrs), top)
      /\ SameBlocks(cfg, h, passed.h)
  BY ToDramIsFine, ToDramKeepsBlocks
<1> HIDE DEF passed, allocated
<1>2. IsAnswer(passed) /\ Contents(cfg, passed.h, top)
  BY <1>1 DEF Fine, Touches
<1>3. SameBlocks(cfg, h, WriteIn(cfg, h, "l3", addrs, passed, allocated).h)
  BY <1>0, <1>1, <1>2, WriteInKeepsBlocks
<1> QED
  BY <1>3 DEF l3_write, passed, allocated

LEMMA SecondFetchSpares ==
  ASSUME NEW cfg, IsMachine(cfg), Bypasses(cfg), NEW top \in Nat, NEW h, Contents(cfg, h, top),
         NEW addr \in 0 .. top, NEW x, OneOther(cfg, h, addr, x)
  PROVE  SparesAll(cfg, h, l2_fetch(cfg, h, addr).h)
<1>1. Below(cfg, "l2") \in {"l3", "dram"}
  BY BelowFacts
<1>2. CASE Below(cfg, "l2") = "l3"
  BY <1>2, ThirdReadSpares DEF l2_fetch
<1>3. CASE Below(cfg, "l2") = "dram"
  BY <1>3, FromDramSpares DEF l2_fetch
<1> QED
  BY <1>1, <1>2, <1>3

LEMMA SecondPassKeepsBlocks ==
  ASSUME NEW cfg, IsMachine(cfg), Bypasses(cfg), NEW top \in Nat, NEW h, Contents(cfg, h, top),
         NEW addrs, Min(addrs) \in 0 .. top
  PROVE  SameBlocks(cfg, h, l2_pass(cfg, h, addrs).h)
<1>1. Below(cfg, "l2") \in {"l3", "dram"}
  BY BelowFacts
<1>2. CASE Below(cfg, "l2") = "l3"
  <2>1. cfg["l3"].write_miss_policy # "allocate"
    BY <1>2 DEF Bypasses, Caches
  <2> QED
    BY <1>2, <2>1, ThirdWriteKeepsBlocks DEF l2_pass
<1>3. CASE Below(cfg, "l2") = "dram"
  BY <1>3, ToDramKeepsBlocks DEF l2_pass
<1> QED
  BY <1>1, <1>2, <1>3

LEMMA SecondEvictEvicts ==
  ASSUME NEW cfg, IsMachine(cfg), Bypasses(cfg), NEW top \in Nat, NEW h, Contents(cfg, h, top),
         NEW addr \in 0 .. top, NEW x, OneOther(cfg, h, addr, x)
  PROVE  Evicts(cfg, h, l2_evict(cfg, h, addr).h, "l2")
<1> DEFINE w == l2_pass(cfg, h, Evicted(cfg, h, "l2", addr))
<1>0. "l2" \in Caches
  BY DEF Caches
<1>1. Find(cfg, h, "l2", addr) = "free" =>
        /\ Fine(cfg, h, w, Path(cfg, Below(cfg, "l2")), Min(Evicted(cfg, h, "l2", addr)), top)
        /\ SameBlocks(cfg, h, w.h)
  BY <1>0, EvictedIsABlock, SecondPassIsFine, SecondPassKeepsBlocks
<1> HIDE DEF w
<1>2. Evicts(cfg, h, evict(cfg, h, "l2", addr, w).h, "l2")
  BY <1>0, <1>1, EvictEvicts
<1> QED
  BY <1>2 DEF l2_evict, w

LEMMA SecondReadSpares ==
  ASSUME NEW cfg, IsMachine(cfg), Bypasses(cfg), NEW top \in Nat, NEW h, Contents(cfg, h, top),
         NEW addr \in 0 .. top, NEW x, OneOther(cfg, h, addr, x)
  PROVE  SparesAll(cfg, h, l2_read(cfg, h, addr).h)
<1> DEFINE r == l2_fetch(cfg, h, addr)
           next == l2_evict(cfg, r.h, addr)
           placed == l2_placed(cfg, r, addr)
<1>0. "l2" \in Caches
  BY DEF Caches
<1>1. Fine(cfg, h, r, Path(cfg, Below(cfg, "l2")), addr, top) /\ SparesAll(cfg, h, r.h)
  BY SecondFetchIsFine, SecondFetchSpares
<1> HIDE DEF r
<1>2. Contents(cfg, r.h, top) /\ OneOther(cfg, r.h, addr, x)
  BY <1>1, OneOtherStays DEF Fine, Touches
<1>3. IsAnswer(next) /\ Evicts(cfg, r.h, next.h, "l2")
  BY <1>2, SecondEvictIsFine, SecondEvictEvicts DEF Fine
<1> HIDE DEF next
<1>4. SparesAll(cfg, h, Then(r, next).h)
  BY <1>0, <1>1, <1>3, PlacedSpares
<1>5. SparesAll(cfg, h, placed.h)
  BY <1>4 DEF l2_placed, next
<1> HIDE DEF placed
<1>6. SparesAll(cfg, h, ReadIn(cfg, h, "l2", addr, placed).h)
  BY <1>0, <1>5, ReadInSpares
<1> QED
  BY <1>6 DEF l2_read, placed, r

LEMMA SecondWriteKeepsBlocks ==
  ASSUME NEW cfg, IsMachine(cfg), Bypasses(cfg), NEW top \in Nat, NEW h, Contents(cfg, h, top),
         cfg["l2"].write_miss_policy # "allocate", NEW addrs, Min(addrs) \in 0 .. top
  PROVE  SameBlocks(cfg, h, l2_write(cfg, h, addrs).h)
<1> DEFINE passed == l2_pass(cfg, h, addrs)
           allocated == l2_allocated(cfg, l2_read(cfg, h, Min(addrs)), addrs)
<1>0. "l2" \in Caches
  BY DEF Caches
<1>1. /\ Fine(cfg, h, passed, Path(cfg, Below(cfg, "l2")), Min(addrs), top)
      /\ SameBlocks(cfg, h, passed.h)
  BY SecondPassIsFine, SecondPassKeepsBlocks
<1> HIDE DEF passed, allocated
<1>2. IsAnswer(passed) /\ Contents(cfg, passed.h, top)
  BY <1>1 DEF Fine, Touches
<1>3. SameBlocks(cfg, h, WriteIn(cfg, h, "l2", addrs, passed, allocated).h)
  BY <1>0, <1>1, <1>2, WriteInKeepsBlocks
<1> QED
  BY <1>3 DEF l2_write, passed, allocated

LEMMA FirstFetchSpares ==
  ASSUME NEW cfg, IsMachine(cfg), Bypasses(cfg), NEW top \in Nat, NEW h, Contents(cfg, h, top),
         NEW c \in {"l1_i", "l1_d"}, NEW addr \in 0 .. top, NEW x, OneOther(cfg, h, addr, x)
  PROVE  SparesAll(cfg, h, l1_fetch(cfg, h, c, addr).h)
<1>1. Below(cfg, c) \in {"l2", "dram"}
  BY BelowFacts
<1>2. CASE Below(cfg, c) = "l2"
  BY <1>2, SecondReadSpares DEF l1_fetch
<1>3. CASE Below(cfg, c) = "dram"
  BY <1>3, FromDramSpares DEF l1_fetch
<1> QED
  BY <1>1, <1>2, <1>3

LEMMA FirstPassKeepsBlocks ==
  ASSUME NEW cfg, IsMachine(cfg), Bypasses(cfg), NEW top \in Nat, NEW h, Contents(cfg, h, top),
         NEW c \in {"l1_i", "l1_d"}, NEW addrs, Min(addrs) \in 0 .. top
  PROVE  SameBlocks(cfg, h, l1_pass(cfg, h, c, addrs).h)
<1>1. Below(cfg, c) \in {"l2", "dram"}
  BY BelowFacts
<1>2. CASE Below(cfg, c) = "l2"
  <2>1. cfg["l2"].write_miss_policy # "allocate"
    BY <1>2 DEF Bypasses, Caches
  <2> QED
    BY <1>2, <2>1, SecondWriteKeepsBlocks DEF l1_pass
<1>3. CASE Below(cfg, c) = "dram"
  BY <1>3, ToDramKeepsBlocks DEF l1_pass
<1> QED
  BY <1>1, <1>2, <1>3

LEMMA FirstEvictEvicts ==
  ASSUME NEW cfg, IsMachine(cfg), Bypasses(cfg), NEW top \in Nat, NEW h, Contents(cfg, h, top),
         NEW c \in {"l1_i", "l1_d"}, NEW addr \in 0 .. top, NEW x, OneOther(cfg, h, addr, x)
  PROVE  Evicts(cfg, h, l1_evict(cfg, h, c, addr).h, c)
<1> DEFINE w == l1_pass(cfg, h, c, Evicted(cfg, h, c, addr))
<1>0. c \in Caches
  BY DEF Caches
<1>1. Find(cfg, h, c, addr) = "free" =>
        /\ Fine(cfg, h, w, Path(cfg, Below(cfg, c)), Min(Evicted(cfg, h, c, addr)), top)
        /\ SameBlocks(cfg, h, w.h)
  BY <1>0, EvictedIsABlock, FirstPassIsFine, FirstPassKeepsBlocks
<1> HIDE DEF w
<1>2. Evicts(cfg, h, evict(cfg, h, c, addr, w).h, c)
  BY <1>0, <1>1, EvictEvicts
<1> QED
  BY <1>2 DEF l1_evict, w

LEMMA FirstReadSpares ==
  ASSUME NEW cfg, IsMachine(cfg), Bypasses(cfg), NEW top \in Nat, NEW h, Contents(cfg, h, top),
         NEW c \in {"l1_i", "l1_d"}, NEW addr \in 0 .. top, NEW x, OneOther(cfg, h, addr, x)
  PROVE  SparesAll(cfg, h, l1_read(cfg, h, c, addr).h)
<1> DEFINE r == l1_fetch(cfg, h, c, addr)
           next == l1_evict(cfg, r.h, c, addr)
           placed == l1_placed(cfg, r, c, addr)
<1>0. c \in Caches
  BY DEF Caches
<1>1. Fine(cfg, h, r, Path(cfg, Below(cfg, c)), addr, top) /\ SparesAll(cfg, h, r.h)
  BY FirstFetchIsFine, FirstFetchSpares
<1> HIDE DEF r
<1>2. Contents(cfg, r.h, top) /\ OneOther(cfg, r.h, addr, x)
  BY <1>1, OneOtherStays DEF Fine, Touches
<1>3. IsAnswer(next) /\ Evicts(cfg, r.h, next.h, c)
  BY <1>2, FirstEvictIsFine, FirstEvictEvicts DEF Fine
<1> HIDE DEF next
<1>4. SparesAll(cfg, h, Then(r, next).h)
  BY <1>0, <1>1, <1>3, PlacedSpares
<1>5. SparesAll(cfg, h, placed.h)
  BY <1>4 DEF l1_placed, next
<1> HIDE DEF placed
<1>6. SparesAll(cfg, h, ReadIn(cfg, h, c, addr, placed).h)
  BY <1>0, <1>5, ReadInSpares
<1> QED
  BY <1>6 DEF l1_read, placed, r

LEMMA FirstWriteSpares ==
  ASSUME NEW cfg, IsMachine(cfg), Bypasses(cfg), NEW top \in Nat, NEW h, Contents(cfg, h, top),
         NEW c \in {"l1_i", "l1_d"}, NEW addrs, Min(addrs) \in 0 .. top,
         NEW x, OneOther(cfg, h, Min(addrs), x)
  PROVE  SparesAll(cfg, h, l1_write(cfg, h, c, addrs).h)
<1> DEFINE addr == Min(addrs)
           passed == l1_pass(cfg, h, c, addrs)
           r == l1_read(cfg, h, c, addr)
           g == Done(cfg, r.h, c, addr)
           again_passed == l1_pass(cfg, g, c, addrs)
           hit == WriteHit(cfg, g, c, addrs, again_passed)
           again == l1_again(cfg, g, c, addrs)
           allocated == l1_allocated(cfg, r, c, addrs)
<1>0. c \in Caches
  BY DEF Caches
<1>1. Fine(cfg, h, passed, Path(cfg, Below(cfg, c)), addr, top) /\ SameBlocks(cfg, h, passed.h)
  BY FirstPassIsFine, FirstPassKeepsBlocks
<1>2. Fine(cfg, h, r, Path(cfg, c), addr, top) /\ SparesAll(cfg, h, r.h)
  BY FirstReadIsFine, FirstReadSpares
<1> HIDE DEF r, passed
<1>3. Contents(cfg, r.h, top) /\ IsAnswer(passed) /\ Contents(cfg, passed.h, top)
  BY <1>1, <1>2 DEF Fine, Touches
<1>4. Contents(cfg, g, top)
  BY <1>0, <1>2, CompletingTouches DEF Touches
<1> HIDE DEF g
<1>5. /\ Fine(cfg, g, again_passed, Path(cfg, Below(cfg, c)), addr, top)
      /\ SameBlocks(cfg, g, again_passed.h)
  BY <1>4, FirstPassIsFine, FirstPassKeepsBlocks
<1> HIDE DEF again_passed
<1>6. Fine(cfg, g, hit, Path(cfg, c), addr, top)
  BY <1>0, <1>4, <1>5, WriteHitIsFine
<1>7. SameBlocks(cfg, g, hit.h)
  <2>1. Contents(cfg, again_passed.h, top)
    BY <1>5 DEF Fine, Touches
  <2> QED
    BY <1>0, <1>4, <1>5, <2>1, WriteHitKeepsBlocks
<1> HIDE DEF hit
<1>8. IsAnswer(again) /\ SameBlocks(cfg, g, again.h)
  <2>1. again = Repeated(cfg, g, c, addrs, hit)
    BY DEF l1_again, hit, again_passed
  <2>2. Fine(cfg, g, again, Path(cfg, c), addr, top)
    BY <1>0, <1>4, <1>6, <2>1, RepeatedIsFine
  <2>3. IsAnswer(hit)
    BY <1>6 DEF Fine
  <2> QED
    BY <1>0, <1>7, <2>1, <2>2, <2>3, RepeatedKeepsBlocks DEF Fine
<1> HIDE DEF again
<1>9. SparesAll(cfg, h, Then(r, again).h)
  BY <1>2, <1>3, <1>8, AllocatedSpares DEF g
<1>10. SparesAll(cfg, h, allocated.h)
  BY <1>9 DEF l1_allocated, again, g
<1> HIDE DEF allocated
<1>11. SparesAll(cfg, h, WriteIn(cfg, h, c, addrs, passed, allocated).h)
  BY <1>0, <1>1, <1>3, <1>10, WriteInSpares
<1> QED
  BY <1>11 DEF l1_write, passed, allocated, r

-----------------------------------------------------------------------------
(* The ports *)

LEMMA CallSpares ==
  ASSUME CachesInv, NEW port \in {"i", "r", "w"}, NEW addr,
         NEW asked, SparesAll(config, caches, asked.h)
  PROVE  SparesAll(config, caches, Call(port, addr, asked).h)
<1> DEFINE r == IF counter[port] < 0 THEN asked ELSE Answer(caches, 1, {})
<1>1. SparesAll(config, caches, r.h)
  <2>1. Answer(caches, 1, {}).h = caches
    BY AnswerContents
  <2>2. SparesAll(config, caches, caches)
    BY NothingIsReplaced, SameIsSpared DEF CachesInv
  <2> QED
    BY <2>1, <2>2
<1>2. Call(port, addr, asked) = Outcome(port, addr, r, Attempt(counter[port], r.stalls))
  BY DEF Call, Attempted
<1> HIDE DEF r
<1>3. Call(port, addr, asked).h = r.h
  BY <1>2 DEF Outcome
<1> QED
  BY <1>1, <1>3

LEMMA CachelessSpares ==
  ASSUME CachesInv, NEW saved
  PROVE  /\ SparesAll(config, caches, Answer(caches, 1, saved).h)
         /\ SparesAll(config, caches, Answer(caches, config.DRAM_READ_LATENCY, saved).h)
         /\ SparesAll(config, caches, Answer(caches, config.DRAM_WRITE_LATENCY, saved).h)
<1>1. SparesAll(config, caches, caches)
  BY NothingIsReplaced, SameIsSpared DEF CachesInv
<1>2. config.DRAM_READ_LATENCY \in Nat /\ config.DRAM_WRITE_LATENCY \in Nat
  BY MachineFacts DEF CachesInv, IsMachine
<1> QED
  BY <1>1, <1>2, AnswerContents

(* The other access is the fetch, or the one of MA. *)
LEMMA TheOtherPort ==
  ASSUME CachesInv
  PROVE  /\ \A a \in NextAccesses : OneOther(config, caches, a.addr, mar_i)
         /\ \A addr \in NextFetches : OneOther(config, caches, addr, access.addr)
<1>1. \A c \in Caches : Held(c) \subseteq {mar_i, access.addr}
  BY DEF Held, FetchHeld, DataHeld
<1>2. \A a \in NextAccesses : \A c \in Caches : Held(c) \subseteq {mar_i, a.addr}
  BY DEF Held, FetchHeld, DataHeld, NextAccesses, CachesInv, PortsInv
<1>3. \A addr \in NextFetches : \A c \in Caches : Held(c) \subseteq {addr, access.addr}
  BY DEF Held, FetchHeld, DataHeld, NextFetches, CachesInv, PortsInv
<1>4. \A c \in Caches : InUse(caches, c) \subseteq {BlockAddr(y, config[c]) : y \in Held(c)}
  BY DEF CachesInv, LocksInv
<1> HIDE DEF Held, NextAccesses, NextFetches
<1>5. ASSUME NEW a \in NextAccesses PROVE OneOther(config, caches, a.addr, mar_i)
  BY <1>2, <1>4 DEF OneOther
<1>6. ASSUME NEW addr \in NextFetches PROVE OneOther(config, caches, addr, access.addr)
  BY <1>3, <1>4 DEF OneOther
<1> QED
  BY <1>5, <1>6

LEMMA DataCallSpares ==
  ASSUME CachesInv, Bypasses(config), NEW a \in NextAccesses
  PROVE  SparesAll(config, caches, DataCall(a).h)
<1>1. a \in Accesses
  BY DEF NextAccesses, CachesInv, PortsInv
<1>2. a.port \in {"r", "w"} /\ a.addr \in 0 .. Top
  BY <1>1, MachineFacts DEF Accesses, CachesInv
<1>3. /\ IsMachine(config) /\ Top \in Nat /\ Contents(config, caches, Top)
      /\ OneOther(config, caches, a.addr, mar_i) /\ "l1_d" \in {"l1_i", "l1_d"}
  BY MachineFacts, TheOtherPort DEF CachesInv
<1>4. SparesAll(config, caches, set_read_counter(a.addr).h)
  <2>1. SparesAll(config, caches, l1_read(config, caches, "l1_d", a.addr).h)
    BY <1>2, <1>3, FirstReadSpares
  <2> QED
    BY <2>1, CachelessSpares DEF set_read_counter
<1>5. SparesAll(config, caches, set_write_counter(a.addr).h)
  <2>1. Min({a.addr}) = a.addr
    BY <1>2, MinIsUnique
  <2>2. SparesAll(config, caches, l1_write(config, caches, "l1_d", {a.addr}).h)
    BY <1>2, <1>3, <2>1, FirstWriteSpares
  <2> QED
    BY <2>2, CachelessSpares DEF set_write_counter
<1> QED
  BY <1>2, <1>4, <1>5, CallSpares DEF DataCall

LEMMA FetchCallSpares ==
  ASSUME CachesInv, Bypasses(config), NEW addr \in NextFetches
  PROVE  SparesAll(config, caches, FetchCall(addr).h)
<1>1. addr \in config.text
  BY DEF NextFetches, CachesInv, PortsInv
<1>2. addr \in 0 .. Top
  BY <1>1, MachineFacts DEF CachesInv
<1>3. /\ IsMachine(config) /\ Top \in Nat /\ Contents(config, caches, Top)
      /\ OneOther(config, caches, addr, access.addr) /\ "l1_i" \in {"l1_i", "l1_d"}
  BY MachineFacts, TheOtherPort DEF CachesInv
<1>4. SparesAll(config, caches, l1_read(config, caches, "l1_i", addr).h)
  BY <1>2, <1>3, FirstReadSpares
<1>5. SparesAll(config, caches, set_read_i_counter(addr).h)
  BY <1>4, CachelessSpares DEF set_read_i_counter
<1> QED
  BY <1>5, CallSpares DEF FetchCall

(* After the call the lines are unlocked, or their references renumbered.  *)
LEMMA TransferSpares ==
  ASSUME CachesInv, Bypasses(config), Transfer
  PROVE  SparesAll(config, caches, caches')
<1>1. PICK a \in NextAccesses : DataDone(a, DataCall(a)) \/ DataPending(DataCall(a))
  BY DEF Transfer
<1>2. a \in Accesses
  BY DEF NextAccesses, CachesInv, PortsInv
<1>3. a.addr \in 0 .. Top
  BY <1>2, MachineFacts DEF Accesses, CachesInv
<1> DEFINE call == DataCall(a)
<1>4. SparesAll(config, caches, call.h) /\ GoodCall(a.port, a.addr, call, DataPath)
  BY <1>2, DataCallSpares, DataCallIsGood
<1>5. /\ IsMachine(config) /\ Top \in Nat /\ Contents(config, caches, Top)
      /\ Contents(config, call.h, Top)
  BY <1>4, MachineFacts DEF CachesInv, GoodCall, Touches
<1>6. \/ caches' = Done(config, call.h, First(config, "l1_d"), a.addr)
      \/ caches' = Tick(call.h)
  BY <1>1 DEF DataDone, DataPending, complete_read, complete_write
<1> HIDE DEF call
<1>7. SameBlocks(config, call.h, caches')
  BY <1>3, <1>5, <1>6, DoneKeepsBlocks, TickKeepsBlocks
<1> QED
  BY <1>4, <1>5, <1>7, SparedThenSame

LEMMA FetchSpares ==
  ASSUME CachesInv, Bypasses(config), Fetch
  PROVE  SparesAll(config, caches, caches')
<1>1. PICK addr \in NextFetches : FetchDone(addr, FetchCall(addr)) \/ FetchPending(FetchCall(addr))
  BY DEF Fetch
<1>2. addr \in config.text
  BY DEF NextFetches, CachesInv, PortsInv
<1>3. addr \in 0 .. Top
  BY <1>2, MachineFacts DEF CachesInv
<1> DEFINE call == FetchCall(addr)
           done == Done(config, call.h, First(config, "l1_i"), addr)
<1>4. SparesAll(config, caches, call.h) /\ GoodCall("i", addr, call, FetchPath)
  BY <1>2, FetchCallSpares, FetchCallIsGood
<1>5. /\ IsMachine(config) /\ Top \in Nat /\ Contents(config, caches, Top)
      /\ Contents(config, call.h, Top)
  BY <1>4, MachineFacts DEF CachesInv, GoodCall, Touches
<1>6. caches' = Tick(done) \/ caches' = Tick(call.h)
  BY <1>1 DEF FetchDone, FetchPending, complete_read_i
<1> HIDE DEF call
<1>7. SameBlocks(config, call.h, done) /\ Contents(config, done, Top)
  BY <1>3, <1>5, DoneKeepsBlocks, DoneFrees DEF Frees
<1> HIDE DEF done
<1>8. SameBlocks(config, call.h, caches')
  BY <1>5, <1>6, <1>7, TickKeepsBlocks, SameTwice
<1> QED
  BY <1>4, <1>5, <1>8, SparedThenSame

LEMMA NextSpares ==
  ASSUME CachesInv, Bypasses(config), [Next]_vars
  PROVE  SparesAll(config, caches, caches')
<1>1. IsMachine(config) /\ Top \in Nat /\ Contents(config, caches, Top) /\ mar_i \in 0 .. Top
  BY MachineFacts DEF CachesInv, PortsInv
<1>2. CASE Transfer
  BY <1>2, TransferSpares
<1>3. CASE Fetch
  BY <1>3, FetchSpares
<1>4. CASE Flush \/ Redirect
  <2>1. caches' = Done(config, caches, First(config, "l1_i"), mar_i)
    BY <1>4 DEF Flush, Redirect, CancelFetch, complete_read_i
  <2> QED
    BY <1>1, <2>1, DoneKeepsBlocks, SameIsSpared
<1>5. CASE Stall
  BY <1>1, <1>5, TickKeepsBlocks, SameIsSpared DEF Stall
<1>6. CASE NoAccess \/ Proceed \/ Exit \/ UNCHANGED vars
  <2>1. caches' = caches
    BY <1>6 DEF NoAccess, Proceed, Exit, vars
  <2> QED
    BY <1>1, <2>1, NothingIsReplaced, SameIsSpared
<1> QED
  BY <1>2, <1>3, <1>4, <1>5, <1>6 DEF Next, Stopped

(* When write misses bypass the second and the third level, no line is     *)
(* replaced while a port transfers its block: an access then evicts in     *)
(* each cache at most once, from a set in which only the other port's      *)
(* access holds a line, and passing over one locked line is enough.  With  *)
(* write allocation a write-back may evict below, in the same access, and  *)
(* find two locked lines (run two_locked_lines).                           *)
THEOREM LockedBlocksStay ==
  ASSUME \A cfg \in Configs : Bypasses(cfg)
  PROVE  Spec => LockedIsKept
<1> DEFINE Kept == \A p \in Places : LineAt(p).valid = 1 /\ LineAt(p).done = 0
                     => LineAt(p).addr = caches'[p[1]][p[2]][p[3]].addr
<1>1. CachesInv /\ [Next]_vars => Kept
  <2> SUFFICES ASSUME CachesInv, [Next]_vars, NEW p \in Places,
                      LineAt(p).valid = 1, LineAt(p).done = 0
               PROVE  LineAt(p).addr = caches'[p[1]][p[2]][p[3]].addr
    OBVIOUS
  <2>1. SparesAll(config, caches, caches')
    BY NextSpares DEF CachesInv
  <2>2. PICK c \in Caches : p \in {c} \X (0 .. config[c].sets - 1) \X (1 .. config[c].ways)
    BY DEF Places
  <2>3. PICK i \in 0 .. config[c].sets - 1, w \in 1 .. config[c].ways : p = <<c, i, w>>
    BY <2>2
  <2> DEFINE lines == caches[c][i]
  <2>4. SetInv(lines, i, config[c], Top)
    BY DEF CachesInv, Contents
  <2>5. LineAt(p) = lines[w] /\ p[1] = c /\ p[2] = i /\ p[3] = w
    BY <2>3 DEF LineAt
  <2>6. w \in Locked(lines)
    BY <2>4, <2>5 DEF Locked, Valid, SetInv
  <2>7. caches'[c][i][w].addr = caches[c][i][w].addr
    BY <2>1, <2>6 DEF SparesAll, Spares
  <2> QED
    BY <2>5, <2>7
<1> HIDE DEF Kept
<1>2. CachesInv /\ [Next]_vars => [Kept]_vars
  BY <1>1
<1>3. Spec => [][Kept]_vars
  BY <1>2, CachesInvariant, PTL DEF Spec
<1> QED
  BY <1>3 DEF LockedIsKept, Kept

-----------------------------------------------------------------------------
(* What is stored reaches the DRAM, or is dirty on the way of the data.    *)

(* The line at <<i, w>> of cache c will be written back. *)
IsDirty(cfg, h, c, i, w) ==
  /\ c # "l1_i" /\ cfg[c].write_policy = "back"
  /\ i \in 0 .. cfg[c].sets - 1 /\ w \in 1 .. cfg[c].ways
  /\ h[c][i][w].valid = 1 /\ h[c][i][w].dirty = 1

DirtyIn(cfg, h, c) ==
  {a \in Nat : \E i, w : IsDirty(cfg, h, c, i, w) /\ a \in Block(h[c][i][w].addr, cfg[c])}

Dirty(cfg, h, S) == UNION {DirtyIn(cfg, h, c) : c \in S}

(* No line is replaced, and what is dirty stays so. *)
StaysDirty(cfg, h, g) ==
  \A c \in Caches : \A i \in 0 .. cfg[c].sets - 1 : \A w \in 1 .. cfg[c].ways :
    /\ g[c][i][w].addr = h[c][i][w].addr /\ g[c][i][w].valid = h[c][i][w].valid
    /\ h[c][i][w].dirty = 1 => g[c][i][w].dirty = 1

(* Nor is one dirtied. *)
SameDirt(cfg, h, g) ==
  \A c \in Caches : \A i \in 0 .. cfg[c].sets - 1 : \A w \in 1 .. cfg[c].ways :
    /\ g[c][i][w].addr = h[c][i][w].addr /\ g[c][i][w].valid = h[c][i][w].valid
    /\ g[c][i][w].dirty = h[c][i][w].dirty

(* The addresses of addrs are in one block of every cache of S. *)
Together(cfg, addrs, S) ==
  \A a \in addrs : a \in Nat /\ \A c \in S : BlockAddr(a, cfg[c]) = BlockAddr(Min(addrs), cfg[c])

(* The access r loses nothing that is dirty in the caches of S. *)
Keeps(cfg, h, r, S) ==
  /\ r.fatal \in BOOLEAN /\ (r.fatal => r.stalls = -1)
  /\ ~r.fatal => Dirty(cfg, h, S) \subseteq Dirty(cfg, r.h, S) \cup r.saved

(* And, unless it is refused, it has stored addrs. *)
Saves(cfg, h, r, S, addrs) ==
  /\ Keeps(cfg, h, r, S)
  /\ Together(cfg, addrs, S) /\ r.stalls # -1 => addrs \subseteq Dirty(cfg, r.h, S) \cup r.saved

(* And only the end of the program refuses it. *)
Passes(cfg, h, r, S, addrs) ==
  Saves(cfg, h, r, S, addrs) /\ (r.stalls = -1 => r.fatal)

LEMMA DirtyOfMore ==
  ASSUME NEW cfg, NEW h, NEW S, NEW T, S \subseteq T
  PROVE  Dirty(cfg, h, S) \subseteq Dirty(cfg, h, T)
BY DEF Dirty

LEMMA StaysInCache ==
  ASSUME NEW cfg, NEW h, NEW g, StaysDirty(cfg, h, g), NEW c \in Caches
  PROVE  DirtyIn(cfg, h, c) \subseteq DirtyIn(cfg, g, c)
<1> SUFFICES ASSUME NEW a \in DirtyIn(cfg, h, c) PROVE a \in DirtyIn(cfg, g, c)
  OBVIOUS
<1>1. PICK i, w : IsDirty(cfg, h, c, i, w) /\ a \in Block(h[c][i][w].addr, cfg[c])
  BY DEF DirtyIn
<1>2. IsDirty(cfg, g, c, i, w) /\ g[c][i][w].addr = h[c][i][w].addr
  BY <1>1 DEF IsDirty, StaysDirty
<1>3. a \in Nat
  BY DEF DirtyIn
<1> QED
  BY <1>1, <1>2, <1>3 DEF DirtyIn

LEMMA StaysInAll ==
  ASSUME NEW cfg, NEW h, NEW g, StaysDirty(cfg, h, g), NEW S, S \subseteq Caches
  PROVE  Dirty(cfg, h, S) \subseteq Dirty(cfg, g, S)
BY StaysInCache DEF Dirty

LEMMA StaysTwice ==
  ASSUME NEW cfg, NEW h, NEW g, NEW f, StaysDirty(cfg, h, g), StaysDirty(cfg, g, f)
  PROVE  StaysDirty(cfg, h, f)
BY DEF StaysDirty

LEMMA NothingChanges ==
  ASSUME NEW cfg, NEW h
  PROVE  StaysDirty(cfg, h, h) /\ SameDirt(cfg, h, h)
BY DEF StaysDirty, SameDirt

LEMMA SameStaysDirty ==
  ASSUME NEW cfg, NEW h, NEW g, SameDirt(cfg, h, g)
  PROVE  StaysDirty(cfg, h, g)
BY DEF StaysDirty, SameDirt

LEMMA SameDirtTwice ==
  ASSUME NEW cfg, NEW h, NEW g, NEW f, SameDirt(cfg, h, g), SameDirt(cfg, g, f)
  PROVE  SameDirt(cfg, h, f)
BY DEF SameDirt

LEMMA FlagStaysDirty ==
  ASSUME NEW cfg, IsMachine(cfg), NEW top \in Nat, NEW h, Contents(cfg, h, top),
         NEW c \in Caches, NEW addr \in 0 .. top, NEW flag, NEW value, Legal(flag, value, cfg[c]),
         flag # "dirty" \/ value = 1
  PROVE  /\ StaysDirty(cfg, h, Flag(cfg, h, c, addr, flag, value))
         /\ flag # "dirty" => SameDirt(cfg, h, Flag(cfg, h, c, addr, flag, value))
<1> DEFINE lines == Lines(cfg, h, c, addr)
           s == cfg[c]
           i == Index(addr, s)
           new == SetFlag(lines, addr, s, flag, value)
           g == WithSet(h, c, i, new)
<1>1. SetInv(lines, i, s, top) /\ i \in 0 .. s.sets - 1 /\ IsGoodCache(s) /\ lines = h[c][i]
  BY LinesInv DEF IsMachine, Lines
<1> HIDE DEF lines, i, s
<1>2. /\ SetInv(new, i, s, top)
      /\ \A w \in 1 .. s.ways : new[w].addr = lines[w].addr /\ new[w].valid = lines[w].valid
                                /\ (lines[w].dirty = 1 => new[w].dirty = 1)
                                /\ (flag # "dirty" => new[w].dirty = lines[w].dirty)
  <2>1. SetInv(new, i, s, top)
    BY <1>1, SetFlagInv DEF s
  <2>2. CASE Matching(lines, addr, s) = {}
    BY <2>1, <2>2 DEF SetFlag
  <2>3. CASE Matching(lines, addr, s) # {}
    <3>1. PICK m : OneFlagChanges(lines, new, s, top, m, flag, value)
      BY <1>1, <2>3, SetFlagChanges DEF s
    <3> HIDE DEF new
    <3> QED
      BY <2>1, <3>1 DEF OneFlagChanges
  <2> QED
    BY <2>2, <2>3
<1>3. Flag(cfg, h, c, addr, flag, value) = g
  BY DEF Flag, WithSet, lines, i, s
<1> HIDE DEF new
<1>4. /\ \A d \in Caches \ {c} : g[d] = h[d]
      /\ g[c][i] = new /\ \A j \in (0 .. s.sets - 1) \ {i} : g[c][j] = h[c][j]
  BY <1>1, <1>2, SetChanges DEF s
<1> HIDE DEF g
<1>5. StaysDirty(cfg, h, g)
  BY <1>1, <1>2, <1>4 DEF StaysDirty, s
<1>6. flag # "dirty" => SameDirt(cfg, h, g)
  BY <1>1, <1>2, <1>4 DEF SameDirt, s
<1> QED
  BY <1>3, <1>5, <1>6

(* The cache has the block of addr. *)
Has(cfg, h, c, addr) ==
  Matching(Lines(cfg, h, c, addr), addr, cfg[c]) \cap Valid(Lines(cfg, h, c, addr)) # {}

LEMMA HitsAreThere ==
  ASSUME NEW cfg, NEW h, NEW c, NEW addr, Find(cfg, h, c, addr) = "hit"
  PROVE  Has(cfg, h, c, addr)
<1> DEFINE lines == Lines(cfg, h, c, addr)
           s == cfg[c]
<1>1. find_block(lines, addr, s) = "hit"
  BY DEF Find
<1> HIDE DEF lines, s
<1>2. Matching(lines, addr, s) \cap Valid(lines) # {}
  BY <1>1 DEF find_block
<1> QED
  BY <1>2 DEF Has, lines, s

(* A setter for addr reaches the line m, and that is the block's. *)
Reaches(cfg, h, c, addr, top, flag, value, m) ==
  /\ \A w \in Matching(Lines(cfg, h, c, addr), addr, cfg[c]) : m <= w
  /\ OneFlagChanges(Lines(cfg, h, c, addr),
                    SetFlag(Lines(cfg, h, c, addr), addr, cfg[c], flag, value), cfg[c], top, m,
                    flag, value)
  /\ Lines(cfg, h, c, addr)[m].valid = 1
  /\ Lines(cfg, h, c, addr)[m].addr = BlockAddr(addr, cfg[c])

LEMMA FlagOnTheBlock ==
  ASSUME NEW cfg, IsMachine(cfg), NEW top \in Nat, NEW h, Contents(cfg, h, top),
         NEW c \in Caches, NEW addr \in 0 .. top, Has(cfg, h, c, addr),
         NEW flag, NEW value, Legal(flag, value, cfg[c])
  PROVE  \E m \in 1 .. cfg[c].ways : Reaches(cfg, h, c, addr, top, flag, value, m)
<1> DEFINE lines == Lines(cfg, h, c, addr)
           s == cfg[c]
           i == Index(addr, s)
           new == SetFlag(lines, addr, s, flag, value)
<1>1. /\ SetInv(lines, i, s, top) /\ IsGoodCache(s) /\ IsCache(s) /\ addr \in Nat
      /\ Legal(flag, value, s)
  BY LinesInv DEF IsMachine, IsGoodCache, IsCache
<1>2. PICK v : v \in Matching(lines, addr, s) /\ v \in Valid(lines)
  BY DEF Has
<1> HIDE DEF lines, i, s
<1>3. PICK m \in Matching(lines, addr, s) :
        /\ \A w \in Matching(lines, addr, s) : m <= w
        /\ OneFlagChanges(lines, new, s, top, m, flag, value)
  BY <1>1, <1>2, SetFlagChanges
<1> HIDE DEF new
<1>4. m \in 1 .. s.ways /\ v \in 1 .. s.ways /\ m <= v
  BY <1>1, <1>2, <1>3 DEF Matching, SetInv
<1>5. lines[m].valid = 1
  <2>1. CASE m = v
    BY <1>2, <2>1 DEF Valid
  <2>2. CASE m < v
    BY <1>1, <1>2, <1>4, <2>2 DEF SetInv, Valid
  <2> QED
    BY <1>4, <2>1, <2>2
<1>6. lines[m].addr = BlockAddr(addr, s)
  <2>1. m \in Valid(lines)
    BY <1>1, <1>4, <1>5 DEF Valid, SetInv
  <2>2. /\ BlockAddr(lines[m].addr, s) = lines[m].addr /\ Index(lines[m].addr, s) = Index(addr, s)
        /\ get_tag(lines[m].addr, s) = get_tag(addr, s) /\ lines[m].addr \in Nat
    <3>1. lines[m].addr \in 0 .. top
      BY <1>1, <1>4, SetTypes
    <3>2. BlockAddr(lines[m].addr, s) = lines[m].addr /\ Index(lines[m].addr, s) = i
      BY <1>1, <2>1 DEF SetInv
    <3>3. get_tag(lines[m].addr, s) = get_tag(addr, s)
      BY <1>3 DEF Matching
    <3> QED
      BY <3>1, <3>2, <3>3 DEF i
  <2> QED
    BY <1>1, <2>2, TagNamesTheBlock
<1> QED
  BY <1>3, <1>4, <1>5, <1>6 DEF Reaches, lines, new, s

(* set_dirty() on a hit reaches the block. *)
LEMMA HitGetsDirty ==
  ASSUME NEW cfg, IsMachine(cfg), NEW top \in Nat, NEW h, Contents(cfg, h, top),
         NEW c \in Caches \ {"l1_i"}, cfg[c].write_policy = "back",
         NEW addr \in 0 .. top, Find(cfg, h, c, addr) = "hit",
         NEW a \in Nat, BlockAddr(a, cfg[c]) = BlockAddr(addr, cfg[c])
  PROVE  a \in DirtyIn(cfg, Flag(cfg, h, c, addr, "dirty", 1), c)
<1> DEFINE lines == Lines(cfg, h, c, addr)
           s == cfg[c]
           i == Index(addr, s)
           new == SetFlag(lines, addr, s, "dirty", 1)
           g == WithSet(h, c, i, new)
<1>1. /\ SetInv(lines, i, s, top) /\ i \in 0 .. s.sets - 1 /\ IsGoodCache(s)
      /\ IsCache(s) /\ addr \in Nat
  BY LinesInv DEF IsMachine, IsGoodCache, IsCache
<1>2. Flag(cfg, h, c, addr, "dirty", 1) = g
  BY DEF Flag, WithSet
<1>3. Legal("dirty", 1, s) /\ Has(cfg, h, c, addr)
  <2>1. Legal("dirty", 1, s)
    BY DEF Legal, Bit
  <2>2. Has(cfg, h, c, addr)
    BY HitsAreThere
  <2> QED
    BY <2>1, <2>2
<1>4. PICK m \in 1 .. s.ways :
        /\ OneFlagChanges(lines, new, s, top, m, "dirty", 1)
        /\ lines[m].valid = 1 /\ lines[m].addr = BlockAddr(addr, s)
  <2>1. PICK m \in 1 .. cfg[c].ways : Reaches(cfg, h, c, addr, top, "dirty", 1, m)
    BY <1>3, FlagOnTheBlock
  <2> QED
    BY <2>1 DEF Reaches
<1> HIDE DEF lines, i, s
<1>5. SetInv(new, i, s, top)
  BY <1>1, <1>3, SetFlagInv
<1> HIDE DEF new
<1>6. new[m].valid = 1 /\ new[m].dirty = 1 /\ new[m].addr = lines[m].addr
  BY <1>4 DEF OneFlagChanges
<1>7. a \in Block(new[m].addr, s)
  <2>1. a \in Block(a, s) /\ BlockAddr(BlockAddr(addr, s), s) = BlockAddr(addr, s)
        /\ BlockAddr(a, s) = BlockAddr(addr, s)
    BY <1>1, BlockAddrFacts DEF s
  <2> QED
    BY <1>4, <1>6, <2>1 DEF Block
<1>8. g[c][i] = new
  BY <1>1, <1>5, SetChanges DEF s
<1> HIDE DEF g
<1>9. IsDirty(cfg, g, c, i, m)
  BY <1>1, <1>6, <1>8 DEF IsDirty, s
<1>10. a \in DirtyIn(cfg, g, c)
  BY <1>7, <1>8, <1>9 DEF DirtyIn, s
<1> QED
  BY <1>2, <1>10

LEMMA UseStaysDirty ==
  ASSUME NEW cfg, IsMachine(cfg), NEW top \in Nat, NEW h, Contents(cfg, h, top),
         NEW c \in Caches, NEW addr \in 0 .. top
  PROVE  StaysDirty(cfg, h, Use(cfg, h, c, addr)) /\ SameDirt(cfg, h, Use(cfg, h, c, addr))
<1> DEFINE g == touch(cfg, h, c, addr)
<1>1. Legal("reference", Now(cfg, c), cfg[c]) /\ Legal("done", 0, cfg[c])
  BY DEF Now, IsMachine, IsGoodCache, Legal, Bit
<1>2. SameDirt(cfg, h, g) /\ Contents(cfg, g, top)
  <2>1. Touches(cfg, h, Flag(cfg, h, c, addr, "reference", Now(cfg, c)), {c}, addr, top)
    BY <1>1, FlagTouches
  <2>2. SameDirt(cfg, h, Flag(cfg, h, c, addr, "reference", Now(cfg, c)))
    BY <1>1, FlagStaysDirty
  <2> QED
    BY <2>1, <2>2, NothingChanges DEF touch, Touches
<1> HIDE DEF g
<1>3. SameDirt(cfg, g, Flag(cfg, g, c, addr, "done", 0))
  BY <1>1, <1>2, FlagStaysDirty
<1>4. SameDirt(cfg, h, Use(cfg, h, c, addr))
  BY <1>2, <1>3, SameDirtTwice DEF Use, g
<1> QED
  BY <1>4, SameStaysDirty

LEMMA DoneStaysDirty ==
  ASSUME NEW cfg, IsMachine(cfg), NEW top \in Nat, NEW h, Contents(cfg, h, top),
         NEW c, NEW addr \in 0 .. top
  PROVE  StaysDirty(cfg, h, Done(cfg, h, c, addr)) /\ SameDirt(cfg, h, Done(cfg, h, c, addr))
<1> DEFINE g == Done(cfg, h, c, addr)
<1>1. \A d \in Caches : SameDirt(cfg, h, Flag(cfg, h, d, addr, "done", 1))
  BY FlagStaysDirty DEF Legal, Bit
<1>2. \A d \in Caches : g[d] = h[d] \/ g[d] = Flag(cfg, h, d, addr, "done", 1)[d]
  BY DEF Done
<1> HIDE DEF g
<1>3. SameDirt(cfg, h, g)
  BY <1>1, <1>2 DEF SameDirt
<1> QED
  BY <1>3, SameStaysDirty DEF g

LEMMA TickStaysDirty ==
  ASSUME NEW cfg, IsMachine(cfg), NEW top \in Nat, NEW h, Contents(cfg, h, top)
  PROVE  StaysDirty(cfg, h, Tick(h)) /\ SameDirt(cfg, h, Tick(h))
<1>1. \A c \in Caches : \A i \in 0 .. cfg[c].sets - 1 : Tick(h)[c][i] = Renumber(h[c][i])
  BY DEF Tick, Contents
<1>2. \A c \in Caches : \A i \in 0 .. cfg[c].sets - 1 : \A w \in 1 .. cfg[c].ways :
        /\ Renumber(h[c][i])[w].addr = h[c][i][w].addr
        /\ Renumber(h[c][i])[w].valid = h[c][i][w].valid
        /\ Renumber(h[c][i])[w].dirty = h[c][i][w].dirty
  <2> TAKE c \in Caches
  <2> TAKE i \in 0 .. cfg[c].sets - 1
  <2>1. h[c][i] \in SetsOf(cfg[c].ways) /\ cfg[c].ways \in Nat
    BY SetsAreSets DEF Contents, IsMachine, IsGoodCache
  <2> QED
    BY <2>1, RanksKeepTheOrder
<1>3. SameDirt(cfg, h, Tick(h))
  BY <1>1, <1>2 DEF SameDirt
<1> QED
  BY <1>3, SameStaysDirty

-----------------------------------------------------------------------------
(* One level, given that the level below loses nothing *)

LEMMA KeepsMore ==
  ASSUME NEW cfg, NEW top, NEW h, NEW r, NEW S, NEW T, NEW addr,
         Fine(cfg, h, r, S, addr, top), Keeps(cfg, h, r, S), S \subseteq T, T \subseteq Caches
  PROVE  Keeps(cfg, h, r, T)
<1>1. \A c \in T \ S : DirtyIn(cfg, r.h, c) = DirtyIn(cfg, h, c)
  BY DEF Fine, Touches, DirtyIn, IsDirty
<1>2. ASSUME ~r.fatal, NEW a \in Dirty(cfg, h, T)
      PROVE  a \in Dirty(cfg, r.h, T) \cup r.saved
  <2>1. PICK c \in T : a \in DirtyIn(cfg, h, c)
    BY <1>2 DEF Dirty
  <2>2. CASE c \in S
    <3>1. a \in Dirty(cfg, r.h, S) \cup r.saved
      BY <1>2, <2>1, <2>2 DEF Keeps, Dirty
    <3> QED
      BY <3>1, DirtyOfMore
  <2>3. CASE c \notin S
    BY <1>1, <2>1, <2>3 DEF Dirty
  <2> QED
    BY <2>2, <2>3
<1> QED
  BY <1>2 DEF Keeps

(* The answer to an access that changes flags only. *)
LEMMA AnswerKeeps ==
  ASSUME NEW cfg, NEW h, NEW g, StaysDirty(cfg, h, g), NEW S, S \subseteq Caches,
         NEW n \in {-1} \cup Nat, NEW saved
  PROVE  Keeps(cfg, h, Answer(g, n, saved), S)
<1>1. Dirty(cfg, h, S) \subseteq Dirty(cfg, g, S)
  BY StaysInAll
<1>2. /\ Answer(g, n, saved).h = g /\ Answer(g, n, saved).fatal = FALSE
  BY DEF Answer
<1> QED
  BY <1>1, <1>2 DEF Keeps

LEMMA FatalSaves ==
  ASSUME NEW cfg, NEW h, NEW S, NEW addrs
  PROVE  Passes(cfg, h, Fatal(h), S, addrs) /\ Keeps(cfg, h, Fatal(h), S)
<1>1. Fatal(h).fatal = TRUE /\ Fatal(h).stalls = -1
  BY DEF Fatal, Answer
<1> QED
  BY <1>1 DEF Keeps, Saves, Passes

(* Counting changes nothing else. *)
LEMMA CountChanges ==
  ASSUME NEW r, IsAnswer(r), NEW c, NEW what, NEW k
  PROVE  /\ Count(r, c, what, k).h = r.h /\ Count(r, c, what, k).stalls = r.stalls
         /\ Count(r, c, what, k).saved = r.saved /\ Count(r, c, what, k).fatal = r.fatal
<1> DEFINE sum == Plus(r.counted, [x \in {<<c, what>>} |-> k])
<1>1. Count(r, c, what, k) = [r EXCEPT !.counted = sum]
  BY DEF Count
<1> HIDE DEF sum
<1> QED
  BY <1>1 DEF IsAnswer

LEMMA CountKeeps ==
  ASSUME NEW cfg, NEW h, NEW r, IsAnswer(r), NEW S, Keeps(cfg, h, r, S), NEW c, NEW what, NEW k
  PROVE  Keeps(cfg, h, Count(r, c, what, k), S)
BY CountChanges DEF Keeps

LEMMA CountPasses ==
  ASSUME NEW cfg, NEW h, NEW r, IsAnswer(r), NEW S, NEW addrs, Passes(cfg, h, r, S, addrs),
         NEW c, NEW what, NEW k
  PROVE  Passes(cfg, h, Count(r, c, what, k), S, addrs)
BY CountChanges DEF Keeps, Saves, Passes

LEMMA ThenOutcome ==
  ASSUME NEW r, IsAnswer(r), NEW next, IsAnswer(next), r.stalls # -1
  PROVE  /\ Then(r, next).h = next.h /\ Then(r, next).fatal = next.fatal
         /\ Then(r, next).saved = next.saved \cup r.saved
         /\ Then(r, next).stalls = -1 <=> next.stalls = -1
<1> DEFINE stalls == IF next.stalls = -1 THEN -1 ELSE next.stalls + r.stalls
           saved == next.saved \cup r.saved
           sum == Plus(next.counted, r.counted)
<1>1. Then(r, next) = [next EXCEPT !.saved = saved, !.counted = sum, !.stalls = stalls]
  BY DEF Then
<1>2. stalls = -1 <=> next.stalls = -1
  BY DEF IsAnswer
<1> HIDE DEF stalls, saved, sum
<1>3. Then(r, next) = [h |-> next.h, stalls |-> stalls, saved |-> saved, counted |-> sum,
                       fatal |-> next.fatal]
  BY <1>1 DEF IsAnswer
<1> QED
  BY <1>2, <1>3 DEF saved

LEMMA ThenKeeps ==
  ASSUME NEW cfg, NEW h, NEW r, IsAnswer(r), NEW next, IsAnswer(next), NEW S,
         Keeps(cfg, h, r, S), Keeps(cfg, r.h, next, S)
  PROVE  Keeps(cfg, h, Then(r, next), S)
<1>1. CASE r.stalls = -1
  BY <1>1 DEF Then
<1>2. CASE r.stalls # -1
  <2>1. ~r.fatal
    BY <1>2 DEF Keeps
  <2> QED
    BY <1>2, <2>1, ThenOutcome DEF Keeps
<1> QED
  BY <1>1, <1>2

(* What the second part of an access stores stays stored. *)
LEMMA ThenSaves ==
  ASSUME NEW cfg, NEW h, NEW r, IsAnswer(r), NEW next, IsAnswer(next), NEW S, NEW addrs,
         Keeps(cfg, h, r, S), Saves(cfg, r.h, next, S, addrs)
  PROVE  Saves(cfg, h, Then(r, next), S, addrs)
<1>1. Keeps(cfg, h, Then(r, next), S)
  BY ThenKeeps DEF Saves
<1>2. CASE r.stalls = -1
  BY <1>1, <1>2 DEF Then, Saves
<1>3. CASE r.stalls # -1
  BY <1>1, <1>3, ThenOutcome DEF Saves
<1> QED
  BY <1>2, <1>3

LEMMA ReadInKeeps ==
  ASSUME NEW cfg, IsMachine(cfg), NEW top \in Nat, NEW h, Contents(cfg, h, top),
         NEW c \in Caches, NEW addr \in 0 .. top, NEW S, S \subseteq Caches, NEW placed,
         Find(cfg, h, c, addr) = "free" => IsAnswer(placed) /\ Keeps(cfg, h, placed, S)
  PROVE  Keeps(cfg, h, ReadIn(cfg, h, c, addr, placed), S)
<1> DEFINE outcome == Find(cfg, h, c, addr)
           r == ReadIn(cfg, h, c, addr, placed)
           n == cfg[c].read_latency
<1>1. n \in {-1} \cup Nat
  BY DEF IsMachine, IsGoodCache
<1> HIDE DEF n
<1>2. outcome \in {"hit", "busy", "free", "full"}
  BY LinesInv, FindOutcomes DEF Find
<1>3. CASE outcome = "hit"
  <2> DEFINE g == Use(cfg, h, c, addr)
             q == Answer(g, n, {})
  <2>1. StaysDirty(cfg, h, g)
    BY UseStaysDirty
  <2>2. r = Count(q, c, "hit_r", 1)
    BY <1>3 DEF ReadIn, ReadHit, n
  <2> HIDE DEF g, r
  <2>3. IsAnswer(q) /\ Keeps(cfg, h, q, S)
    BY <1>1, <2>1, AnswerContents, AnswerKeeps
  <2> HIDE DEF q
  <2>4. Keeps(cfg, h, r, S)
    BY <2>2, <2>3, CountKeeps
  <2> QED
    BY <2>4 DEF r
<1>4. CASE outcome = "busy"
  BY <1>4, FatalSaves DEF ReadIn
<1>5. CASE outcome = "full"
  <2>1. Keeps(cfg, h, Answer(h, -1, {}), S)
    BY NothingChanges, AnswerKeeps
  <2>2. r = Answer(h, -1, {})
    BY <1>5 DEF ReadIn
  <2> QED
    BY <2>1, <2>2
<1>6. CASE outcome = "free"
  <2> DEFINE q == Answer(placed.h, n, {})
             next == Count(q, c, "miss_r", 1)
  <2>1. IsAnswer(q) /\ Keeps(cfg, placed.h, q, S)
    BY <1>1, NothingChanges, AnswerContents, AnswerKeeps
  <2>2. r = Then(placed, next)
    BY <1>6 DEF ReadIn, ReadMiss, n
  <2> HIDE DEF q
  <2>3. IsAnswer(next) /\ Keeps(cfg, placed.h, next, S)
    <3>1. <<c, "miss_r">> \in Counters
      BY DEF Counters
    <3> QED
      BY <2>1, <3>1, CountContents, CountKeeps
  <2> HIDE DEF next, r
  <2>4. Keeps(cfg, h, r, S)
    BY <1>6, <2>2, <2>3, ThenKeeps
  <2> QED
    BY <2>4 DEF r
<1> QED
  BY <1>2, <1>3, <1>4, <1>5, <1>6

LEMMA WriteBackPasses ==
  ASSUME NEW cfg, IsMachine(cfg), NEW top \in Nat, NEW h, NEW c \in Caches,
         NEW w, NEW block, Min(block) \in 0 .. top, NEW S, S \subseteq Caches,
         Fine(cfg, h, w, Path(cfg, Below(cfg, c)), Min(block), top), Passes(cfg, h, w, S, block)
  PROVE  Passes(cfg, h, WriteBack(cfg, w, c, block), S, block)
<1> DEFINE g == Done(cfg, w.h, Below(cfg, c), Min(block))
           q == [w EXCEPT !.h = g]
           k == IF c = "l2" /\ Below(cfg, c) = "dram" THEN 0 ELSE 1
<1>1. StaysDirty(cfg, w.h, g)
  BY DoneStaysDirty DEF Fine, Touches
<1>2. Dirty(cfg, w.h, S) \subseteq Dirty(cfg, g, S)
  BY <1>1, StaysInAll
<1> HIDE DEF g, k
<1>3. q = [h |-> g, stalls |-> w.stalls, saved |-> w.saved, counted |-> w.counted,
           fatal |-> w.fatal]
  BY DEF Fine, IsAnswer
<1>4. IsAnswer(q)
  BY <1>3 DEF Fine, IsAnswer
<1>5. Passes(cfg, h, q, S, block)
  BY <1>2, <1>3 DEF Passes, Saves, Keeps
<1> HIDE DEF q
<1>6. Passes(cfg, h, Count(q, c, "writebacks", k), S, block)
  BY <1>4, <1>5, CountPasses
<1> QED
  BY <1>6 DEF WriteBack, q, k, g

(* Eviction writes back the one dirty block it replaces. *)
LEMMA ReplaceKeeps ==
  ASSUME NEW cfg, IsMachine(cfg), NEW top \in Nat, NEW h, Contents(cfg, h, top),
         NEW c \in Caches, NEW addr \in 0 .. top, Find(cfg, h, c, addr) = "free",
         NEW w, Fine(cfg, h, w, Path(cfg, Below(cfg, c)), Min(Evicted(cfg, h, c, addr)), top),
         Passes(cfg, h, w, Path(cfg, Below(cfg, c)), Evicted(cfg, h, c, addr)),
         c # "l1_i" => Together(cfg, Evicted(cfg, h, c, addr), Path(cfg, Below(cfg, c)))
  PROVE  Keeps(cfg, h, Replace(cfg, h, c, addr, w, Victim(Lines(cfg, h, c, addr))), Path(cfg, c))
<1> DEFINE s == cfg[c]
           i == Index(addr, s)
           lines == Lines(cfg, h, c, addr)
           way == Victim(lines)
           block == Evicted(cfg, h, c, addr)
           back == WriteBack(cfg, w, c, block)
           r == IF WritesBack(lines, way, s) THEN back ELSE Answer(h, 0, {})
           P == Path(cfg, Below(cfg, c))
           new == Place(lines, way, addr, s, s.ways)
           g == WithSet(r.h, c, i, new)
           q == Replace(cfg, h, c, addr, w, way)
<1>0. c \notin P /\ P \subseteq Path(cfg, c) /\ c \in Path(cfg, c) /\ Path(cfg, c) = P \cup {c}
      /\ P \subseteq Caches
  BY PathFacts
<1>1. /\ Fine(cfg, h, r, P, addr, top) /\ Keeps(cfg, h, r, P)
      /\ WritesBack(lines, way, s) /\ c # "l1_i" /\ ~r.fatal =>
           block \subseteq Dirty(cfg, r.h, P) \cup r.saved
  <2>1. Fine(cfg, h, back, P, addr, top) /\ Passes(cfg, h, back, P, block)
    <3>1. Min(block) \in 0 .. top
      BY EvictedIsABlock
    <3> QED
      BY <1>0, <3>1, WriteBackIsFine, WriteBackPasses
  <2>2. Fine(cfg, h, Answer(h, 0, {}), P, addr, top) /\ Keeps(cfg, h, Answer(h, 0, {}), P)
    BY <1>0, TouchesNothing, AnswerIsFine, NothingChanges, AnswerKeeps
  <2> HIDE DEF back, P, block
  <2>3. CASE WritesBack(lines, way, s)
    <3>1. r = back
      BY <2>3
    <3>2. c # "l1_i" => Together(cfg, block, P)
      BY DEF block, P
    <3> QED
      BY <2>1, <3>1, <3>2 DEF Passes, Saves
  <2>4. CASE ~WritesBack(lines, way, s)
    BY <2>2, <2>4
  <2> QED
    BY <2>3, <2>4
<1>2. q = [r EXCEPT !.h[c][i] = Place(@, way, addr, s, s.ways)]
  BY DEF Replace, Now
<1>3. block = Block(lines[way].addr, s)
  BY DEF Evicted
<1> HIDE DEF r, P, q, block, back
<1>4. Contents(cfg, r.h, top) /\ r.h[c] = h[c] /\ IsAnswer(r)
  BY <1>0, <1>1 DEF Fine, Touches
<1>5. r.h[c][i] = lines /\ h[c][i] = lines
  BY <1>4 DEF Lines
<1>6. /\ SetInv(lines, i, s, top) /\ IsGoodCache(s) /\ find_block(lines, addr, s) = "free"
      /\ i \in 0 .. s.sets - 1
  BY LinesInv DEF Find, IsMachine
<1> HIDE DEF lines, i
<1>7. way \in 1 .. s.ways /\ DOMAIN lines = 1 .. s.ways
  BY <1>6, SetsAreSets, VictimIsAWay DEF IsGoodCache
<1>8. lines[way].valid = 1 => Valid(lines) = DOMAIN lines
  <2> SUFFICES ASSUME Valid(lines) # DOMAIN lines, way \in Valid(lines) PROVE FALSE
    BY <1>7 DEF Valid
  <2> DEFINE free == DOMAIN lines \ Valid(lines)
  <2>1. free # {} /\ free \in SUBSET Nat
    BY <1>7 DEF Valid
  <2>2. way = Min(free)
    BY DEF Victim
  <2> HIDE DEF way
  <2>3. Min(free) \in free
    BY <2>1, MinIsLeast
  <2> QED
    BY <2>2, <2>3
<1>9. SetInv(new, i, s, top)
  BY <1>6, PlaceInv DEF i
<1>10. \A v \in 1 .. s.ways : v # way => new[v] = lines[v]
  <2> HIDE DEF way
  <2> QED
    BY <1>7 DEF Place
<1> HIDE DEF new
<1>11. /\ \A d \in Caches \ {c} : g[d] = r.h[d]
       /\ g[c][i] = new /\ \A j \in (0 .. s.sets - 1) \ {i} : g[c][j] = h[c][j]
  BY <1>4, <1>6, <1>9, SetChanges
<1>12. q = [r EXCEPT !.h = g]
  BY <1>2, <1>5 DEF IsAnswer, WithSet, new
<1> HIDE DEF g, way
<1>13. /\ q.h = g /\ q.stalls = r.stalls /\ q.saved = r.saved /\ q.fatal = r.fatal
  BY <1>4, <1>12 DEF IsAnswer
<1>14. Dirty(cfg, r.h, P) \subseteq Dirty(cfg, g, Path(cfg, c))
  <2>1. \A d \in P : DirtyIn(cfg, r.h, d) = DirtyIn(cfg, g, d)
    BY <1>0, <1>11 DEF DirtyIn, IsDirty
  <2> QED
    BY <1>0, <2>1 DEF Dirty
<1>15. ASSUME ~q.fatal, NEW a \in Dirty(cfg, h, Path(cfg, c))
       PROVE  a \in Dirty(cfg, g, Path(cfg, c)) \cup r.saved
  <2>1. CASE a \in Dirty(cfg, h, P)
    BY <1>1, <1>13, <1>14, <1>15, <2>1 DEF Keeps
  <2>2. CASE a \in DirtyIn(cfg, h, c)
    <3>1. PICK j, v : IsDirty(cfg, h, c, j, v) /\ a \in Block(h[c][j][v].addr, s) /\ a \in Nat
      BY <2>2 DEF DirtyIn
    <3>2. CASE j = i /\ v = way
      <4>1. WritesBack(lines, way, s) /\ c # "l1_i" /\ a \in block
        BY <1>3, <1>5, <1>8, <3>1, <3>2 DEF IsDirty, WritesBack
      <4> QED
        BY <1>1, <1>13, <1>14, <1>15, <4>1
    <3>3. CASE ~(j = i /\ v = way)
      <4>1. g[c][j][v] = h[c][j][v]
        BY <1>5, <1>10, <1>11, <3>1, <3>3 DEF IsDirty
      <4>2. IsDirty(cfg, g, c, j, v) /\ a \in Block(g[c][j][v].addr, s)
        BY <3>1, <4>1 DEF IsDirty
      <4>3. a \in DirtyIn(cfg, g, c)
        BY <3>1, <4>2 DEF DirtyIn
      <4> QED
        BY <1>0, <4>3 DEF Dirty
    <3> QED
      BY <3>2, <3>3
  <2> QED
    BY <1>0, <2>1, <2>2 DEF Dirty
<1>16. Keeps(cfg, h, q, Path(cfg, c))
  BY <1>1, <1>13, <1>15 DEF Keeps
<1> QED
  BY <1>16 DEF q, way, lines

LEMMA EvictKeeps ==
  ASSUME NEW cfg, IsMachine(cfg), NEW top \in Nat, NEW h, Contents(cfg, h, top),
         NEW c \in Caches, NEW addr \in 0 .. top, NEW w,
         Find(cfg, h, c, addr) = "free" =>
           /\ Fine(cfg, h, w, Path(cfg, Below(cfg, c)), Min(Evicted(cfg, h, c, addr)), top)
           /\ Passes(cfg, h, w, Path(cfg, Below(cfg, c)), Evicted(cfg, h, c, addr))
           /\ c # "l1_i" => Together(cfg, Evicted(cfg, h, c, addr), Path(cfg, Below(cfg, c)))
  PROVE  Keeps(cfg, h, evict(cfg, h, c, addr, w), Path(cfg, c))
<1>1. evict(cfg, h, c, addr, w) = evict_fifo(cfg, h, c, addr, w)
  <2>1. cfg[c].replacement_policy \in {"FIFO", "LRU"}
    BY DEF IsMachine, IsGoodCache
  <2> QED
    BY <2>1 DEF evict, evict_lru
<1>2. CASE Find(cfg, h, c, addr) # "free"
  BY <1>1, <1>2, FatalSaves DEF evict_fifo
<1>3. CASE Find(cfg, h, c, addr) = "free"
  BY <1>1, <1>3, ReplaceKeeps DEF evict_fifo
<1> QED
  BY <1>2, <1>3

LEMMA HitWrittenPasses ==
  ASSUME NEW cfg, IsMachine(cfg), NEW top \in Nat, NEW h, NEW c \in Caches, NEW addr \in 0 .. top,
         NEW r, IsAnswer(r), Contents(cfg, r.h, top), NEW S, S \subseteq Caches, NEW addrs,
         Passes(cfg, h, r, S, addrs)
  PROVE  Passes(cfg, h, HitWritten(cfg, r, c, addr), S, addrs)
<1> DEFINE g == Use(cfg, r.h, c, addr)
           n == cfg[c].write_latency
           q == Answer(g, n, {})
           next == Count(q, c, "hit_w", 1)
           t == HitWritten(cfg, r, c, addr)
<1>1. n \in Nat
  BY DEF IsMachine, IsGoodCache
<1>2. StaysDirty(cfg, r.h, g)
  BY UseStaysDirty
<1>3. Dirty(cfg, r.h, S) \subseteq Dirty(cfg, g, S)
  BY <1>2, StaysInAll
<1> HIDE DEF g, n
<1>4. /\ IsAnswer(q) /\ Keeps(cfg, r.h, q, S)
      /\ q.h = g /\ q.stalls # -1 /\ q.fatal = FALSE /\ q.saved = {}
  <2>1. q.stalls # -1 /\ q.fatal = FALSE /\ q.saved = {}
    BY <1>1 DEF Answer
  <2> QED
    BY <1>1, <1>2, <2>1, AnswerContents, AnswerKeeps
<1> HIDE DEF q
<1>5. /\ IsAnswer(next) /\ Keeps(cfg, r.h, next, S)
      /\ next.h = g /\ next.stalls # -1 /\ next.fatal = FALSE /\ next.saved = {}
  <2>1. <<c, "hit_w">> \in Counters
    BY DEF Counters
  <2> QED
    BY <1>4, <2>1, CountContents, CountKeeps, CountChanges
<1>6. t = Then(r, next)
  BY DEF HitWritten, q, n, g
<1> HIDE DEF next, t
<1>7. Keeps(cfg, h, t, S)
  BY <1>5, <1>6, ThenKeeps DEF Passes, Saves
<1>8. r.stalls = -1 => Passes(cfg, h, t, S, addrs)
  BY <1>6 DEF Then
<1>9. r.stalls # -1 => Passes(cfg, h, t, S, addrs)
  <2> SUFFICES ASSUME r.stalls # -1
               PROVE  Passes(cfg, h, t, S, addrs)
    OBVIOUS
  <2>1. /\ Then(r, next).h = next.h /\ Then(r, next).saved = next.saved \cup r.saved
        /\ Then(r, next).stalls = -1 <=> next.stalls = -1
    BY <1>5, ThenOutcome
  <2>2. t.h = g /\ t.saved = r.saved /\ t.stalls # -1
    BY <1>5, <1>6, <2>1
  <2> QED
    BY <1>3, <1>7, <2>2 DEF Passes, Saves
<1> QED
  BY <1>8, <1>9 DEF t

LEMMA WriteHitPasses ==
  ASSUME NEW cfg, IsMachine(cfg), NEW top \in Nat, NEW h, Contents(cfg, h, top),
         NEW c \in Caches \ {"l1_i"}, NEW addrs, Min(addrs) \in 0 .. top,
         Find(cfg, h, c, Min(addrs)) = "hit", NEW passed,
         Fine(cfg, h, passed, Path(cfg, Below(cfg, c)), Min(addrs), top),
         Passes(cfg, h, passed, Path(cfg, Below(cfg, c)), addrs)
  PROVE  Passes(cfg, h, WriteHit(cfg, h, c, addrs, passed), Path(cfg, c), addrs)
<1> DEFINE stored == Stored(cfg, h, c, addrs, passed)
           P == Path(cfg, Below(cfg, c))
           S == Path(cfg, c)
           g == Flag(cfg, h, c, Min(addrs), "dirty", 1)
<1>0. P \subseteq S /\ S \subseteq Caches /\ c \in S /\ c \in Caches
  BY PathFacts
<1> HIDE DEF P, S
<1>1. /\ IsAnswer(stored) /\ Contents(cfg, stored.h, top)
      /\ Passes(cfg, h, stored, S, addrs)
  <2>1. CASE cfg[c].write_policy = "through"
    <3>1. stored = passed
      BY <2>1 DEF Stored
    <3>2. Keeps(cfg, h, passed, S)
      BY <1>0, KeepsMore DEF Passes, Saves, P
    <3>3. Dirty(cfg, passed.h, P) \subseteq Dirty(cfg, passed.h, S)
      BY <1>0, DirtyOfMore
    <3>4. Together(cfg, addrs, S) => Together(cfg, addrs, P)
      BY <1>0 DEF Together
    <3>5. Passes(cfg, h, passed, S, addrs)
      BY <3>2, <3>3, <3>4 DEF Passes, Saves, P
    <3> HIDE DEF stored
    <3> QED
      BY <3>1, <3>5 DEF Fine, Touches
  <2>2. CASE cfg[c].write_policy = "back"
    <3>1. Legal("dirty", 1, cfg[c])
      BY DEF Legal, Bit
    <3>2. Touches(cfg, h, g, {c}, Min(addrs), top) /\ StaysDirty(cfg, h, g)
      BY <1>0, <3>1, FlagTouches, FlagStaysDirty
    <3>3. Together(cfg, addrs, S) => addrs \subseteq Dirty(cfg, g, S)
      <4> SUFFICES ASSUME Together(cfg, addrs, S), NEW a \in addrs PROVE a \in Dirty(cfg, g, S)
        OBVIOUS
      <4>1. a \in Nat /\ BlockAddr(a, cfg[c]) = BlockAddr(Min(addrs), cfg[c])
        BY <1>0 DEF Together
      <4>2. a \in DirtyIn(cfg, g, c)
        BY <2>2, <4>1, HitGetsDirty
      <4> QED
        BY <1>0, <4>2 DEF Dirty
    <3>4. stored = Answer(g, 0, {})
      BY <2>2 DEF Stored
    <3> HIDE DEF g, stored
    <3>5. stored.h = g /\ stored.stalls = 0 /\ stored.fatal = FALSE /\ stored.saved = {}
      BY <3>4 DEF Answer
    <3>6. IsAnswer(stored) /\ Keeps(cfg, h, stored, S)
      BY <1>0, <3>2, <3>4, AnswerContents, AnswerKeeps
    <3> QED
      BY <3>2, <3>3, <3>5, <3>6 DEF Touches, Passes, Saves
  <2>3. cfg[c].write_policy \in {"through", "back"}
    BY <1>0 DEF IsMachine, IsGoodCache
  <2> QED
    BY <2>1, <2>2, <2>3
<1> HIDE DEF stored
<1>2. Passes(cfg, h, HitWritten(cfg, stored, c, Min(addrs)), S, addrs)
  BY <1>0, <1>1, HitWrittenPasses
<1> QED
  BY <1>2 DEF WriteHit, stored, S

(* The second write of a miss: a refusal is the end of the program. *)
LEMMA RepeatedPasses ==
  ASSUME NEW cfg, NEW h, NEW c \in Caches, NEW addrs, NEW S, NEW w, IsAnswer(w),
         Find(cfg, h, c, Min(addrs)) = "hit" => Passes(cfg, h, w, S, addrs)
  PROVE  Passes(cfg, h, Repeated(cfg, h, c, addrs, w), S, addrs)
<1> DEFINE p == Count(w, c, "miss_r", -1)
           q == Count(p, c, "hit_w", -1)
<1>1. CASE Find(cfg, h, c, Min(addrs)) # "hit" \/ w.stalls = -1
  BY <1>1, FatalSaves DEF Repeated
<1>2. CASE Find(cfg, h, c, Min(addrs)) = "hit" /\ w.stalls # -1
  <2>1. <<c, "miss_r">> \in Counters /\ <<c, "hit_w">> \in Counters
    BY DEF Counters
  <2>2. IsAnswer(p) /\ Passes(cfg, h, p, S, addrs)
    BY <1>2, <2>1, CountContents, CountPasses
  <2> HIDE DEF p
  <2>3. IsAnswer(q) /\ Passes(cfg, h, q, S, addrs)
    BY <2>1, <2>2, CountContents, CountPasses
  <2> HIDE DEF q
  <2>4. Passes(cfg, h, Corrected(w, c), S, addrs)
    BY <2>3, CountPasses DEF Corrected, q, p
  <2> QED
    BY <1>2, <2>4 DEF Repeated
<1> QED
  BY <1>1, <1>2

(* A write that misses and is passed on. *)
LEMMA PassedOnPasses ==
  ASSUME NEW cfg, NEW top, NEW h, NEW c \in Caches, NEW addr, NEW addrs, NEW passed,
         Fine(cfg, h, passed, Path(cfg, Below(cfg, c)), addr, top),
         Passes(cfg, h, passed, Path(cfg, Below(cfg, c)), addrs)
  PROVE  Passes(cfg, h, MissWritten(passed, c), Path(cfg, c), addrs)
<1> DEFINE P == Path(cfg, Below(cfg, c))
           S == Path(cfg, c)
<1>0. P \subseteq S /\ S \subseteq Caches
  BY PathFacts
<1> HIDE DEF P, S
<1>1. Keeps(cfg, h, passed, S)
  BY <1>0, KeepsMore DEF Passes, Saves, P
<1>2. Dirty(cfg, passed.h, P) \subseteq Dirty(cfg, passed.h, S)
  BY <1>0, DirtyOfMore
<1>3. Together(cfg, addrs, S) => Together(cfg, addrs, P)
  BY <1>0 DEF Together
<1>4. Passes(cfg, h, passed, S, addrs)
  BY <1>1, <1>2, <1>3 DEF Passes, Saves, P
<1> QED
  BY <1>4, CountPasses DEF MissWritten, Fine, S

LEMMA WriteInPasses ==
  ASSUME NEW cfg, IsMachine(cfg), NEW top \in Nat, NEW h, Contents(cfg, h, top),
         NEW c \in Caches \ {"l1_i"}, cfg[c].write_miss_policy # "allocate",
         NEW addrs, Min(addrs) \in 0 .. top, NEW passed,
         Fine(cfg, h, passed, Path(cfg, Below(cfg, c)), Min(addrs), top),
         Passes(cfg, h, passed, Path(cfg, Below(cfg, c)), addrs), NEW allocated
  PROVE  Passes(cfg, h, WriteIn(cfg, h, c, addrs, passed, allocated), Path(cfg, c), addrs)
<1> DEFINE outcome == Find(cfg, h, c, Min(addrs))
           r == WriteIn(cfg, h, c, addrs, passed, allocated)
<1>1. outcome \in {"hit", "busy", "free", "full"}
  BY LinesInv, FindOutcomes DEF Find
<1>2. CASE outcome = "busy"
  BY <1>2, FatalSaves DEF WriteIn
<1>3. CASE outcome = "hit"
  BY <1>3, WriteHitPasses DEF WriteIn
<1>4. CASE outcome \in {"full", "free"}
  <2>1. Passes(cfg, h, MissWritten(passed, c), Path(cfg, c), addrs)
    BY PassedOnPasses
  <2>2. r = MissWritten(passed, c)
    BY <1>4 DEF WriteIn
  <2> QED
    BY <2>1, <2>2
<1> QED
  BY <1>1, <1>2, <1>3, <1>4

LEMMA WriteInSaves ==
  ASSUME NEW cfg, IsMachine(cfg), NEW top \in Nat, NEW h, Contents(cfg, h, top),
         NEW c \in Caches \ {"l1_i"}, NEW addrs, Min(addrs) \in 0 .. top, NEW passed,
         Fine(cfg, h, passed, Path(cfg, Below(cfg, c)), Min(addrs), top),
         Passes(cfg, h, passed, Path(cfg, Below(cfg, c)), addrs),
         NEW allocated, Saves(cfg, h, allocated, Path(cfg, c), addrs)
  PROVE  Saves(cfg, h, WriteIn(cfg, h, c, addrs, passed, allocated), Path(cfg, c), addrs)
<1> DEFINE outcome == Find(cfg, h, c, Min(addrs))
           allocates == cfg[c].write_miss_policy = "allocate"
           r == WriteIn(cfg, h, c, addrs, passed, allocated)
<1>1. outcome \in {"hit", "busy", "free", "full"}
  BY LinesInv, FindOutcomes DEF Find
<1>2. CASE outcome = "busy"
  BY <1>2, FatalSaves DEF WriteIn, Passes
<1>3. CASE outcome = "hit"
  BY <1>3, WriteHitPasses DEF WriteIn, Passes
<1>4. CASE outcome = "full" /\ allocates
  <2>1. Keeps(cfg, h, Answer(h, -1, {}), Path(cfg, c))
    BY PathFacts, NothingChanges, AnswerKeeps
  <2>2. Answer(h, -1, {}).stalls = -1
    BY DEF Answer
  <2>3. r = Answer(h, -1, {})
    BY <1>4 DEF WriteIn
  <2> QED
    BY <2>1, <2>2, <2>3 DEF Saves
<1>5. CASE outcome = "free" /\ allocates
  BY <1>5 DEF WriteIn
<1>6. CASE outcome \in {"full", "free"} /\ ~allocates
  <2>1. Passes(cfg, h, MissWritten(passed, c), Path(cfg, c), addrs)
    BY PassedOnPasses
  <2>2. r = MissWritten(passed, c)
    BY <1>6 DEF WriteIn
  <2> QED
    BY <2>1, <2>2 DEF Passes
<1> QED
  BY <1>1, <1>2, <1>3, <1>4, <1>5, <1>6

-----------------------------------------------------------------------------
(* A block of one level is within a block of the level below.              *)

LEMMA BlocksNest ==
  ASSUME NEW s, IsCache(s), NEW t, IsCache(t), NEW k \in Nat, t.block = k * s.block,
         NEW a \in Nat, NEW b \in Nat, BlockAddr(a, s) = BlockAddr(b, s)
  PROVE  BlockAddr(a, t) = BlockAddr(b, t)
<1> DEFINE n == s.block
           q == a \div n
           r == q % k
           u == q \div k
<1>1. n \in Nat \ {0} /\ t.block = k * n /\ k \in Nat \ {0}
  BY DEF IsCache
<1>2. b \div n = q
  BY BlockAddrFacts
<1> HIDE DEF n
<1>3. q \in Nat /\ a \div n = q
  BY <1>1
<1> HIDE DEF q
<1>4. r \in Nat /\ r < k /\ u \in Nat /\ q = k * u + r
  BY <1>1, <1>3
<1> HIDE DEF r, u
<1>5. ASSUME NEW x \in Nat, x \div n = q
      PROVE  BlockAddr(x, t) = k * n * u
  <2> DEFINE e == x % n
  <2>1. e \in Nat /\ e < n /\ x = n * q + e
    BY <1>1, <1>5
  <2> HIDE DEF e
  <2>2. x = (k * n) * u + (n * r + e)
    BY <1>1, <1>3, <1>4, <2>1
  <2>3. n * r \in Nat /\ n * r + n <= k * n
    <3>1. r + 1 <= k
      BY <1>1, <1>4
    <3>2. n * (r + 1) <= n * k
      BY <1>1, <1>4, <3>1
    <3> QED
      BY <1>1, <1>4, <3>2
  <2> DEFINE d == k * n
             o == n * r + e
  <2>4. d \in Nat \ {0} /\ o \in Nat /\ o < d /\ x = d * u + o /\ t.block = d
    <3>1. k * n \in Nat \ {0}
      BY <1>1
    <3> QED
      BY <1>1, <2>1, <2>2, <2>3, <3>1
  <2> HIDE DEF d, o
  <2>5. (d * u + o) \div d = u
    BY <1>4, <2>4, DivisionIsUnique
  <2>6. BlockAddr(x, t) = d * u
    BY <2>4, <2>5, BlockAddrFacts
  <2> QED
    BY <2>6 DEF d
<1> QED
  BY <1>2, <1>3, <1>5 DEF n

(* The blocks of a level above another are as large as its, or larger: a   *)
(* whole number of them.                                                   *)
Nested(cfg) ==
  \A c \in {"l1_d", "l2"} : Below(cfg, c) # "dram" =>
    \E k \in Nat : cfg[Below(cfg, c)].block = k * cfg[c].block

LEMMA NestedBelow ==
  ASSUME NEW cfg, IsMachine(cfg), Nested(cfg), NEW c \in {"l1_d", "l2"}, Below(cfg, c) # "dram",
         NEW a \in Nat, NEW b \in Nat, BlockAddr(a, cfg[c]) = BlockAddr(b, cfg[c])
  PROVE  BlockAddr(a, cfg[Below(cfg, c)]) = BlockAddr(b, cfg[Below(cfg, c)])
<1>1. c \in Caches /\ Below(cfg, c) \in Caches
  BY BelowFacts DEF Caches
<1>2. IsCache(cfg[c]) /\ IsCache(cfg[Below(cfg, c)])
  BY <1>1 DEF IsMachine, IsGoodCache, IsCache
<1>3. PICK k \in Nat : cfg[Below(cfg, c)].block = k * cfg[c].block
  BY DEF Nested
<1> QED
  BY <1>2, <1>3, BlocksNest

(* So what a level writes back is within one block of each level below.    *)
LEMMA OneBlockBelow ==
  ASSUME NEW cfg, IsMachine(cfg), Nested(cfg), NEW c \in Caches \ {"l1_i"},
         NEW a \in Nat, NEW b \in Nat, BlockAddr(a, cfg[c]) = BlockAddr(b, cfg[c]),
         NEW d \in Path(cfg, Below(cfg, c))
  PROVE  BlockAddr(a, cfg[d]) = BlockAddr(b, cfg[d])
<1>1. Below(cfg, "l2") \in {"l3", "dram"} /\ Below(cfg, "l1_d") \in {"l2", "dram"}
      /\ Below(cfg, "l3") = "dram" /\ Below(cfg, "dram") = "dram"
  BY BelowFacts
<1>2. Path(cfg, "dram") = {}
  BY <1>1 DEF Path, Caches
<1>3. c \in {"l1_d", "l2"} /\ Below(cfg, c) # "dram"
  BY <1>1, <1>2 DEF Caches
<1>4. BlockAddr(a, cfg[Below(cfg, c)]) = BlockAddr(b, cfg[Below(cfg, c)])
  BY <1>3, NestedBelow
<1>5. CASE c = "l2"
  <2>1. d = "l3"
    BY <1>1, <1>3, <1>5 DEF Path, Caches
  <2> QED
    BY <1>1, <1>3, <1>4, <1>5, <2>1
<1>6. CASE c = "l1_d"
  <2>1. Below(cfg, c) = "l2"
    BY <1>1, <1>3, <1>6
  <2>2. d = "l2" \/ (d = "l3" /\ Below(cfg, "l2") = "l3")
    BY <1>1, <2>1 DEF Path, Caches
  <2>3. CASE d = "l2"
    BY <1>4, <2>1, <2>3
  <2>4. CASE d = "l3" /\ Below(cfg, "l2") = "l3"
    <3>1. BlockAddr(a, cfg["l2"]) = BlockAddr(b, cfg["l2"])
      BY <1>4, <2>1
    <3> QED
      BY <2>4, <3>1, NestedBelow
  <2> QED
    BY <2>2, <2>3, <2>4
<1> QED
  BY <1>3, <1>5, <1>6

LEMMA EvictedTogether ==
  ASSUME NEW cfg, IsMachine(cfg), Nested(cfg), NEW top \in Nat, NEW h, Contents(cfg, h, top),
         NEW c \in Caches \ {"l1_i"}, NEW addr \in 0 .. top, Find(cfg, h, c, addr) = "free"
  PROVE  Together(cfg, Evicted(cfg, h, c, addr), Path(cfg, Below(cfg, c)))
<1> DEFINE lines == Lines(cfg, h, c, addr)
           a == lines[Victim(lines)].addr
           s == cfg[c]
<1>1. IsGoodCache(s) /\ IsCache(s)
  BY DEF IsMachine, IsGoodCache, IsCache
<1>2. SetInv(lines, Index(addr, s), s, top) /\ find_block(lines, addr, s) = "free"
  BY LinesInv DEF Find
<1> HIDE DEF lines
<1>3. lines \in SetsOf(s.ways) /\ s.ways \in Nat
  BY <1>1, <1>2, SetsAreSets DEF IsGoodCache
<1>4. Victim(lines) \in 1 .. s.ways
  BY <1>2, <1>3, VictimIsAWay
<1>5. a \in Nat
  BY <1>2, <1>4, SetTypes
<1>6. Evicted(cfg, h, c, addr) = Block(a, s)
  BY DEF Evicted, lines
<1> HIDE DEF a, s
<1>7. Min(Block(a, s)) = BlockAddr(a, s) /\ BlockAddr(a, s) \in Nat
      /\ BlockAddr(BlockAddr(a, s), s) = BlockAddr(a, s)
  BY <1>1, <1>5, FirstOfBlock, BlockAddrFacts
<1>8. ASSUME NEW x \in Block(a, s)
      PROVE  x \in Nat /\ BlockAddr(x, s) = BlockAddr(a, s)
  <2> DEFINE n == s.block
             q == a \div n
             o == x - n * q
  <2>1. n \in Nat \ {0} /\ BlockAddr(a, s) = n * q
    BY <1>1, <1>5, BlockAddrFacts DEF IsCache
  <2>2. x \in n * q .. n * q + n - 1
    BY <2>1 DEF Block, n
  <2> HIDE DEF n
  <2>3. q \in Nat
    BY <1>5, <2>1
  <2> HIDE DEF q
  <2>4. n * q \in Nat
    BY <2>1, <2>3
  <2>5. o \in Nat /\ o < n /\ x = n * q + o /\ x \in Nat
    BY <2>1, <2>2, <2>4
  <2> HIDE DEF o
  <2>6. x \div n = q
    BY <2>1, <2>3, <2>5, DivisionIsUnique
  <2>7. BlockAddr(x, s) = s.block * (x \div s.block)
    BY <1>1, <2>5, BlockAddrFacts
  <2> QED
    BY <2>1, <2>5, <2>6, <2>7 DEF n
<1> QED
  BY <1>6, <1>7, <1>8, OneBlockBelow DEF Together, s

-----------------------------------------------------------------------------
(* The levels lose nothing, from the DRAM up. *)

LEMMA ToDramPasses ==
  ASSUME NEW cfg, IsMachine(cfg), NEW h, NEW S, S \subseteq Caches, NEW addrs
  PROVE  Passes(cfg, h, ToDram(cfg, h, addrs), S, addrs)
<1> DEFINE r == ToDram(cfg, h, addrs)
<1>1. Keeps(cfg, h, r, S)
  BY NothingChanges, AnswerKeeps DEF ToDram, IsMachine
<1>2. r.saved = addrs /\ r.stalls # -1
  BY DEF ToDram, Answer, IsMachine
<1> QED
  BY <1>1, <1>2 DEF Saves, Passes

LEMMA FromDramKeeps ==
  ASSUME NEW cfg, IsMachine(cfg), NEW h, NEW S, S \subseteq Caches
  PROVE  Keeps(cfg, h, FromDram(cfg, h), S)
BY NothingChanges, AnswerKeeps DEF FromDram, IsMachine

(* The block has come from below and replaces another one. *)
LEMMA PlacedKeeps ==
  ASSUME NEW cfg, NEW top, NEW h, NEW c \in Caches, NEW addr,
         NEW r, Fine(cfg, h, r, Path(cfg, Below(cfg, c)), addr, top),
         Keeps(cfg, h, r, Path(cfg, Below(cfg, c))),
         NEW next, Fine(cfg, r.h, next, Path(cfg, c), addr, top), Keeps(cfg, r.h, next, Path(cfg, c))
  PROVE  IsAnswer(Then(r, next)) /\ Keeps(cfg, h, Then(r, next), Path(cfg, c))
<1>1. Path(cfg, Below(cfg, c)) \subseteq Path(cfg, c) /\ Path(cfg, c) \subseteq Caches
  BY PathFacts
<1>2. Keeps(cfg, h, r, Path(cfg, c)) /\ Fine(cfg, h, r, Path(cfg, c), addr, top)
  BY <1>1, KeepsMore, FineOfMore
<1>3. Fine(cfg, h, Then(r, next), Path(cfg, c), addr, top)
  BY <1>2, ThenIsFine
<1> QED
  BY <1>2, <1>3, ThenKeeps DEF Fine

LEMMA AllocatedSaves ==
  ASSUME NEW cfg, IsMachine(cfg), NEW top \in Nat, NEW h, NEW c \in Caches, NEW addrs,
         Min(addrs) \in 0 .. top, NEW r, IsAnswer(r), Contents(cfg, r.h, top),
         Keeps(cfg, h, r, Path(cfg, c)), NEW next, IsAnswer(next),
         Saves(cfg, Done(cfg, r.h, c, Min(addrs)), next, Path(cfg, c), addrs)
  PROVE  Saves(cfg, h, Then(r, next), Path(cfg, c), addrs)
<1> DEFINE g == Done(cfg, r.h, c, Min(addrs))
           S == Path(cfg, c)
<1>1. S \subseteq Caches
  BY PathFacts
<1>2. StaysDirty(cfg, r.h, g)
  BY DoneStaysDirty
<1> HIDE DEF g
<1>3. Dirty(cfg, r.h, S) \subseteq Dirty(cfg, g, S)
  BY <1>1, <1>2, StaysInAll
<1>4. Saves(cfg, r.h, next, S, addrs)
  BY <1>3 DEF Saves, Keeps, g
<1> QED
  BY <1>4, ThenSaves

LEMMA ThirdEvictKeepsAll ==
  ASSUME NEW cfg, IsMachine(cfg), Bypasses(cfg), Nested(cfg), NEW top \in Nat, NEW h,
         Contents(cfg, h, top), NEW addr \in 0 .. top
  PROVE  Keeps(cfg, h, l3_evict(cfg, h, addr), Path(cfg, "l3"))
<1> DEFINE w == ToDram(cfg, h, Evicted(cfg, h, "l3", addr))
           block == Evicted(cfg, h, "l3", addr)
           P == Path(cfg, Below(cfg, "l3"))
<1>0. "l3" \in Caches /\ P \subseteq Caches
  BY PathFacts DEF Caches
<1>1. ASSUME Find(cfg, h, "l3", addr) = "free"
      PROVE  Fine(cfg, h, w, P, Min(block), top) /\ Passes(cfg, h, w, P, block)
  <2>1. Min(block) \in 0 .. top
    BY <1>0, <1>1, EvictedIsABlock
  <2> HIDE DEF block
  <2>2. w = ToDram(cfg, h, block)
    BY DEF block
  <2> QED
    BY <1>0, <2>1, <2>2, ToDramIsFine, ToDramPasses
<1>2. Find(cfg, h, "l3", addr) = "free" /\ "l3" # "l1_i" => Together(cfg, block, P)
  BY <1>0, EvictedTogether
<1> HIDE DEF w
<1>3. Keeps(cfg, h, evict(cfg, h, "l3", addr, w), Path(cfg, "l3"))
  BY <1>0, <1>1, <1>2, EvictKeeps
<1> QED
  BY <1>3 DEF l3_evict, w

LEMMA ThirdReadKeepsAll ==
  ASSUME NEW cfg, IsMachine(cfg), Bypasses(cfg), Nested(cfg), NEW top \in Nat, NEW h,
         Contents(cfg, h, top), NEW addr \in 0 .. top
  PROVE  Keeps(cfg, h, l3_read(cfg, h, addr), Path(cfg, "l3"))
<1> DEFINE r == FromDram(cfg, h)
           next == l3_evict(cfg, r.h, addr)
           placed == l3_placed(cfg, r, addr)
<1>0. "l3" \in Caches /\ Path(cfg, "l3") \subseteq Caches
      /\ Path(cfg, Below(cfg, "l3")) \subseteq Caches
  BY PathFacts DEF Caches
<1>1. /\ Fine(cfg, h, r, Path(cfg, Below(cfg, "l3")), addr, top)
      /\ Keeps(cfg, h, r, Path(cfg, Below(cfg, "l3")))
  BY <1>0, FromDramIsFine, FromDramKeeps
<1> HIDE DEF r
<1>2. Contents(cfg, r.h, top)
  BY <1>1 DEF Fine, Touches
<1>3. Fine(cfg, r.h, next, Path(cfg, "l3"), addr, top) /\ Keeps(cfg, r.h, next, Path(cfg, "l3"))
  BY <1>2, ThirdEvictIsFine, ThirdEvictKeepsAll
<1> HIDE DEF next
<1>4. IsAnswer(Then(r, next)) /\ Keeps(cfg, h, Then(r, next), Path(cfg, "l3"))
  BY <1>0, <1>1, <1>3, PlacedKeeps
<1>5. IsAnswer(placed) /\ Keeps(cfg, h, placed, Path(cfg, "l3"))
  BY <1>4 DEF l3_placed, next
<1> HIDE DEF placed
<1>6. Keeps(cfg, h, ReadIn(cfg, h, "l3", addr, placed), Path(cfg, "l3"))
  BY <1>0, <1>5, ReadInKeeps
<1> QED
  BY <1>6 DEF l3_read, placed, r

LEMMA ThirdWritePasses ==
  ASSUME NEW cfg, IsMachine(cfg), Bypasses(cfg), Nested(cfg), NEW top \in Nat, NEW h,
         Contents(cfg, h, top), cfg["l3"].write_miss_policy # "allocate",
         NEW addrs, Min(addrs) \in 0 .. top
  PROVE  Passes(cfg, h, l3_write(cfg, h, addrs), Path(cfg, "l3"), addrs)
<1> DEFINE passed == ToDram(cfg, h, addrs)
           allocated == l3_allocated(cfg, l3_read(cfg, h, Min(addrs)), addrs)
<1>0. "l3" \in Caches \ {"l1_i"} /\ Path(cfg, Below(cfg, "l3")) \subseteq Caches
  BY PathFacts DEF Caches
<1>1. /\ Fine(cfg, h, passed, Path(cfg, Below(cfg, "l3")), Min(addrs), top)
      /\ Passes(cfg, h, passed, Path(cfg, Below(cfg, "l3")), addrs)
  BY <1>0, ToDramIsFine, ToDramPasses
<1> HIDE DEF passed, allocated
<1>2. Passes(cfg, h, WriteIn(cfg, h, "l3", addrs, passed, allocated), Path(cfg, "l3"), addrs)
  BY <1>0, <1>1, WriteInPasses
<1> QED
  BY <1>2 DEF l3_write, passed, allocated

LEMMA SecondFetchKeepsAll ==
  ASSUME NEW cfg, IsMachine(cfg), Bypasses(cfg), Nested(cfg), NEW top \in Nat, NEW h,
         Contents(cfg, h, top), NEW addr \in 0 .. top
  PROVE  Keeps(cfg, h, l2_fetch(cfg, h, addr), Path(cfg, Below(cfg, "l2")))
<1>0. "l3" \in Caches /\ "l2" \in Caches
  BY DEF Caches
<1>1. Below(cfg, "l2") \in {"l3", "dram"}
  BY BelowFacts
<1>2. CASE Below(cfg, "l2") = "l3"
  BY <1>2, ThirdReadKeepsAll DEF l2_fetch
<1>3. CASE Below(cfg, "l2") = "dram"
  BY <1>0, <1>3, PathFacts, FromDramKeeps DEF l2_fetch
<1> QED
  BY <1>1, <1>2, <1>3

LEMMA SecondPassPasses ==
  ASSUME NEW cfg, IsMachine(cfg), Bypasses(cfg), Nested(cfg), NEW top \in Nat, NEW h,
         Contents(cfg, h, top), NEW addrs, Min(addrs) \in 0 .. top
  PROVE  Passes(cfg, h, l2_pass(cfg, h, addrs), Path(cfg, Below(cfg, "l2")), addrs)
<1>0. "l3" \in Caches /\ "l2" \in Caches
  BY DEF Caches
<1>1. Below(cfg, "l2") \in {"l3", "dram"}
  BY BelowFacts
<1>2. CASE Below(cfg, "l2") = "l3"
  <2>1. cfg["l3"].write_miss_policy # "allocate"
    BY <1>2 DEF Bypasses, Caches
  <2> QED
    BY <1>2, <2>1, ThirdWritePasses DEF l2_pass
<1>3. CASE Below(cfg, "l2") = "dram"
  BY <1>0, <1>3, PathFacts, ToDramPasses DEF l2_pass
<1> QED
  BY <1>1, <1>2, <1>3

LEMMA SecondEvictKeepsAll ==
  ASSUME NEW cfg, IsMachine(cfg), Bypasses(cfg), Nested(cfg), NEW top \in Nat, NEW h,
         Contents(cfg, h, top), NEW addr \in 0 .. top
  PROVE  Keeps(cfg, h, l2_evict(cfg, h, addr), Path(cfg, "l2"))
<1> DEFINE w == l2_pass(cfg, h, Evicted(cfg, h, "l2", addr))
           block == Evicted(cfg, h, "l2", addr)
           P == Path(cfg, Below(cfg, "l2"))
<1>0. "l2" \in Caches /\ P \subseteq Caches
  BY PathFacts DEF Caches
<1>1. ASSUME Find(cfg, h, "l2", addr) = "free"
      PROVE  Fine(cfg, h, w, P, Min(block), top) /\ Passes(cfg, h, w, P, block)
  <2>1. Min(block) \in 0 .. top
    BY <1>0, <1>1, EvictedIsABlock
  <2> HIDE DEF block
  <2>2. w = l2_pass(cfg, h, block)
    BY DEF block
  <2> QED
    BY <1>0, <2>1, <2>2, SecondPassIsFine, SecondPassPasses
<1>2. Find(cfg, h, "l2", addr) = "free" /\ "l2" # "l1_i" => Together(cfg, block, P)
  BY <1>0, EvictedTogether
<1> HIDE DEF w
<1>3. Keeps(cfg, h, evict(cfg, h, "l2", addr, w), Path(cfg, "l2"))
  BY <1>0, <1>1, <1>2, EvictKeeps
<1> QED
  BY <1>3 DEF l2_evict, w

LEMMA SecondReadKeepsAll ==
  ASSUME NEW cfg, IsMachine(cfg), Bypasses(cfg), Nested(cfg), NEW top \in Nat, NEW h,
         Contents(cfg, h, top), NEW addr \in 0 .. top
  PROVE  Keeps(cfg, h, l2_read(cfg, h, addr), Path(cfg, "l2"))
<1> DEFINE r == l2_fetch(cfg, h, addr)
           next == l2_evict(cfg, r.h, addr)
           placed == l2_placed(cfg, r, addr)
<1>0. "l2" \in Caches /\ Path(cfg, "l2") \subseteq Caches
      /\ Path(cfg, Below(cfg, "l2")) \subseteq Caches
  BY PathFacts DEF Caches
<1>1. /\ Fine(cfg, h, r, Path(cfg, Below(cfg, "l2")), addr, top)
      /\ Keeps(cfg, h, r, Path(cfg, Below(cfg, "l2")))
  BY <1>0, SecondFetchIsFine, SecondFetchKeepsAll
<1> HIDE DEF r
<1>2. Contents(cfg, r.h, top)
  BY <1>1 DEF Fine, Touches
<1>3. Fine(cfg, r.h, next, Path(cfg, "l2"), addr, top) /\ Keeps(cfg, r.h, next, Path(cfg, "l2"))
  BY <1>2, SecondEvictIsFine, SecondEvictKeepsAll
<1> HIDE DEF next
<1>4. IsAnswer(Then(r, next)) /\ Keeps(cfg, h, Then(r, next), Path(cfg, "l2"))
  BY <1>0, <1>1, <1>3, PlacedKeeps
<1>5. IsAnswer(placed) /\ Keeps(cfg, h, placed, Path(cfg, "l2"))
  BY <1>4 DEF l2_placed, next
<1> HIDE DEF placed
<1>6. Keeps(cfg, h, ReadIn(cfg, h, "l2", addr, placed), Path(cfg, "l2"))
  BY <1>0, <1>5, ReadInKeeps
<1> QED
  BY <1>6 DEF l2_read, placed, r

LEMMA SecondWritePasses ==
  ASSUME NEW cfg, IsMachine(cfg), Bypasses(cfg), Nested(cfg), NEW top \in Nat, NEW h,
         Contents(cfg, h, top), cfg["l2"].write_miss_policy # "allocate",
         NEW addrs, Min(addrs) \in 0 .. top
  PROVE  Passes(cfg, h, l2_write(cfg, h, addrs), Path(cfg, "l2"), addrs)
<1> DEFINE passed == l2_pass(cfg, h, addrs)
           allocated == l2_allocated(cfg, l2_read(cfg, h, Min(addrs)), addrs)
<1>0. "l2" \in Caches \ {"l1_i"} /\ Path(cfg, Below(cfg, "l2")) \subseteq Caches
  BY PathFacts DEF Caches
<1>1. /\ Fine(cfg, h, passed, Path(cfg, Below(cfg, "l2")), Min(addrs), top)
      /\ Passes(cfg, h, passed, Path(cfg, Below(cfg, "l2")), addrs)
  BY <1>0, SecondPassIsFine, SecondPassPasses
<1> HIDE DEF passed, allocated
<1>2. Passes(cfg, h, WriteIn(cfg, h, "l2", addrs, passed, allocated), Path(cfg, "l2"), addrs)
  BY <1>0, <1>1, WriteInPasses
<1> QED
  BY <1>2 DEF l2_write, passed, allocated

LEMMA FirstFetchKeepsAll ==
  ASSUME NEW cfg, IsMachine(cfg), Bypasses(cfg), Nested(cfg), NEW top \in Nat, NEW h,
         Contents(cfg, h, top), NEW c \in {"l1_i", "l1_d"}, NEW addr \in 0 .. top
  PROVE  Keeps(cfg, h, l1_fetch(cfg, h, c, addr), Path(cfg, Below(cfg, c)))
<1>0. "l2" \in Caches /\ c \in Caches
  BY DEF Caches
<1>1. Below(cfg, c) \in {"l2", "dram"}
  BY BelowFacts
<1>2. CASE Below(cfg, c) = "l2"
  BY <1>2, SecondReadKeepsAll DEF l1_fetch
<1>3. CASE Below(cfg, c) = "dram"
  BY <1>0, <1>3, PathFacts, FromDramKeeps DEF l1_fetch
<1> QED
  BY <1>1, <1>2, <1>3

LEMMA FirstPassPasses ==
  ASSUME NEW cfg, IsMachine(cfg), Bypasses(cfg), Nested(cfg), NEW top \in Nat, NEW h,
         Contents(cfg, h, top), NEW c \in {"l1_i", "l1_d"}, NEW addrs, Min(addrs) \in 0 .. top
  PROVE  Passes(cfg, h, l1_pass(cfg, h, c, addrs), Path(cfg, Below(cfg, c)), addrs)
<1>0. "l2" \in Caches /\ c \in Caches
  BY DEF Caches
<1>1. Below(cfg, c) \in {"l2", "dram"}
  BY BelowFacts
<1>2. CASE Below(cfg, c) = "l2"
  <2>1. cfg["l2"].write_miss_policy # "allocate"
    BY <1>2 DEF Bypasses, Caches
  <2> QED
    BY <1>2, <2>1, SecondWritePasses DEF l1_pass
<1>3. CASE Below(cfg, c) = "dram"
  BY <1>0, <1>3, PathFacts, ToDramPasses DEF l1_pass
<1> QED
  BY <1>1, <1>2, <1>3

LEMMA FirstEvictKeepsAll ==
  ASSUME NEW cfg, IsMachine(cfg), Bypasses(cfg), Nested(cfg), NEW top \in Nat, NEW h,
         Contents(cfg, h, top), NEW c \in {"l1_i", "l1_d"}, NEW addr \in 0 .. top
  PROVE  Keeps(cfg, h, l1_evict(cfg, h, c, addr), Path(cfg, c))
<1> DEFINE w == l1_pass(cfg, h, c, Evicted(cfg, h, c, addr))
           block == Evicted(cfg, h, c, addr)
           P == Path(cfg, Below(cfg, c))
<1>0. c \in Caches /\ P \subseteq Caches
  BY PathFacts DEF Caches
<1>1. ASSUME Find(cfg, h, c, addr) = "free"
      PROVE  Fine(cfg, h, w, P, Min(block), top) /\ Passes(cfg, h, w, P, block)
  <2>1. Min(block) \in 0 .. top
    BY <1>0, <1>1, EvictedIsABlock
  <2> HIDE DEF block
  <2>2. w = l1_pass(cfg, h, c, block)
    BY DEF block
  <2> QED
    BY <1>0, <2>1, <2>2, FirstPassIsFine, FirstPassPasses
<1>2. Find(cfg, h, c, addr) = "free" /\ c # "l1_i" => Together(cfg, block, P)
  BY <1>0, EvictedTogether
<1> HIDE DEF w
<1>3. Keeps(cfg, h, evict(cfg, h, c, addr, w), Path(cfg, c))
  BY <1>0, <1>1, <1>2, EvictKeeps
<1> QED
  BY <1>3 DEF l1_evict, w

LEMMA FirstReadKeepsAll ==
  ASSUME NEW cfg, IsMachine(cfg), Bypasses(cfg), Nested(cfg), NEW top \in Nat, NEW h,
         Contents(cfg, h, top), NEW c \in {"l1_i", "l1_d"}, NEW addr \in 0 .. top
  PROVE  Keeps(cfg, h, l1_read(cfg, h, c, addr), Path(cfg, c))
<1> DEFINE r == l1_fetch(cfg, h, c, addr)
           next == l1_evict(cfg, r.h, c, addr)
           placed == l1_placed(cfg, r, c, addr)
<1>0. c \in Caches /\ Path(cfg, c) \subseteq Caches
      /\ Path(cfg, Below(cfg, c)) \subseteq Caches
  BY PathFacts DEF Caches
<1>1. /\ Fine(cfg, h, r, Path(cfg, Below(cfg, c)), addr, top)
      /\ Keeps(cfg, h, r, Path(cfg, Below(cfg, c)))
  BY <1>0, FirstFetchIsFine, FirstFetchKeepsAll
<1> HIDE DEF r
<1>2. Contents(cfg, r.h, top)
  BY <1>1 DEF Fine, Touches
<1>3. Fine(cfg, r.h, next, Path(cfg, c), addr, top) /\ Keeps(cfg, r.h, next, Path(cfg, c))
  BY <1>2, FirstEvictIsFine, FirstEvictKeepsAll
<1> HIDE DEF next
<1>4. IsAnswer(Then(r, next)) /\ Keeps(cfg, h, Then(r, next), Path(cfg, c))
  BY <1>0, <1>1, <1>3, PlacedKeeps
<1>5. IsAnswer(placed) /\ Keeps(cfg, h, placed, Path(cfg, c))
  BY <1>4 DEF l1_placed, next
<1> HIDE DEF placed
<1>6. Keeps(cfg, h, ReadIn(cfg, h, c, addr, placed), Path(cfg, c))
  BY <1>0, <1>5, ReadInKeeps
<1> QED
  BY <1>6 DEF l1_read, placed, r

LEMMA FirstWriteSaves ==
  ASSUME NEW cfg, IsMachine(cfg), Bypasses(cfg), Nested(cfg), NEW top \in Nat, NEW h,
         Contents(cfg, h, top), NEW addrs, Min(addrs) \in 0 .. top
  PROVE  Saves(cfg, h, l1_write(cfg, h, "l1_d", addrs), Path(cfg, "l1_d"), addrs)
<1> DEFINE addr == Min(addrs)
           S == Path(cfg, "l1_d")
           P == Path(cfg, Below(cfg, "l1_d"))
           passed == l1_pass(cfg, h, "l1_d", addrs)
           r == l1_read(cfg, h, "l1_d", addr)
           g == Done(cfg, r.h, "l1_d", addr)
           again_passed == l1_pass(cfg, g, "l1_d", addrs)
           hit == WriteHit(cfg, g, "l1_d", addrs, again_passed)
           again == l1_again(cfg, g, "l1_d", addrs)
           allocated == l1_allocated(cfg, r, "l1_d", addrs)
<1>0. "l1_d" \in Caches \ {"l1_i"} /\ "l1_d" \in {"l1_i", "l1_d"}
  BY DEF Caches
<1>1. Fine(cfg, h, passed, P, addr, top) /\ Passes(cfg, h, passed, P, addrs)
  BY <1>0, FirstPassIsFine, FirstPassPasses
<1>2. Fine(cfg, h, r, S, addr, top) /\ Keeps(cfg, h, r, S)
  BY <1>0, FirstReadIsFine, FirstReadKeepsAll
<1> HIDE DEF r, passed
<1>3. Contents(cfg, r.h, top) /\ IsAnswer(r)
  BY <1>2 DEF Fine, Touches
<1>4. Contents(cfg, g, top)
  BY <1>0, <1>2, CompletingTouches DEF Touches
<1> HIDE DEF g
<1>5. Fine(cfg, g, again_passed, P, addr, top) /\ Passes(cfg, g, again_passed, P, addrs)
  BY <1>0, <1>4, FirstPassIsFine, FirstPassPasses
<1> HIDE DEF again_passed
<1>6. Fine(cfg, g, hit, S, addr, top)
  BY <1>0, <1>4, <1>5, WriteHitIsFine
<1>7. Find(cfg, g, "l1_d", addr) = "hit" => Passes(cfg, g, hit, S, addrs)
  BY <1>0, <1>4, <1>5, WriteHitPasses
<1> HIDE DEF hit
<1>8. IsAnswer(again) /\ Saves(cfg, g, again, S, addrs)
  <2>1. again = Repeated(cfg, g, "l1_d", addrs, hit)
    BY DEF l1_again, hit, again_passed
  <2>2. Fine(cfg, g, again, S, addr, top)
    BY <1>0, <1>4, <1>6, <2>1, RepeatedIsFine
  <2>3. IsAnswer(hit)
    BY <1>6 DEF Fine
  <2>4. Passes(cfg, g, again, S, addrs)
    BY <1>0, <1>7, <2>1, <2>3, RepeatedPasses
  <2> QED
    BY <2>2, <2>4 DEF Fine, Passes
<1> HIDE DEF again
<1>9. Saves(cfg, h, Then(r, again), S, addrs)
  BY <1>0, <1>2, <1>3, <1>8, AllocatedSaves DEF g
<1>10. Saves(cfg, h, allocated, S, addrs)
  BY <1>9 DEF l1_allocated, again, g
<1> HIDE DEF allocated
<1>11. Saves(cfg, h, WriteIn(cfg, h, "l1_d", addrs, passed, allocated), S, addrs)
  BY <1>0, <1>1, <1>10, WriteInSaves
<1> QED
  BY <1>11 DEF l1_write, passed, allocated, r

-----------------------------------------------------------------------------
(* No store is lost. *)

(* What an access to a machine with Bypasses and Nested must do. *)
Careful(port, addr, r, S) ==
  /\ Fine(config, caches, r, S, addr, Top)
  /\ Keeps(config, caches, r, S)
  /\ port = "w" => Saves(config, caches, r, S, {addr})

StoresInv == unsaved \subseteq Dirty(config, caches, Caches)

LEMMA OneTogether ==
  ASSUME NEW cfg, NEW S, NEW addr \in Nat
  PROVE  Together(cfg, {addr}, S)
<1>1. Min({addr}) = addr
  BY MinIsUnique
<1> QED
  BY <1>1 DEF Together

LEMMA CachelessIsCareful ==
  ASSUME CachesInv, NEW port, NEW addr, NEW S, S \subseteq Caches
  PROVE  LET saved == IF port = "w" THEN {addr} ELSE {}
         IN  /\ Careful(port, addr, Answer(caches, 1, saved), S)
             /\ Careful(port, addr, Answer(caches, config.DRAM_READ_LATENCY, saved), S)
             /\ Careful(port, addr, Answer(caches, config.DRAM_WRITE_LATENCY, saved), S)
<1> DEFINE saved == IF port = "w" THEN {addr} ELSE {}
<1>1. config.DRAM_READ_LATENCY \in Nat /\ config.DRAM_WRITE_LATENCY \in Nat
  BY MachineFacts DEF CachesInv, IsMachine
<1>2. ASSUME NEW n \in Nat, Fine(config, caches, Answer(caches, n, saved), S, addr, Top)
      PROVE  Careful(port, addr, Answer(caches, n, saved), S)
  <2> DEFINE r == Answer(caches, n, saved)
  <2>1. Keeps(config, caches, r, S)
    BY NothingChanges, AnswerKeeps
  <2>2. r.saved = saved
    BY DEF Answer
  <2> QED
    BY <1>2, <2>1, <2>2 DEF Careful, Saves
<1>3. /\ Fine(config, caches, Answer(caches, 1, saved), S, addr, Top)
      /\ Fine(config, caches, Answer(caches, config.DRAM_READ_LATENCY, saved), S, addr, Top)
      /\ Fine(config, caches, Answer(caches, config.DRAM_WRITE_LATENCY, saved), S, addr, Top)
  BY CachelessIsFine
<1> HIDE DEF saved
<1>4. /\ Careful(port, addr, Answer(caches, 1, saved), S)
      /\ Careful(port, addr, Answer(caches, config.DRAM_READ_LATENCY, saved), S)
      /\ Careful(port, addr, Answer(caches, config.DRAM_WRITE_LATENCY, saved), S)
  BY <1>1, <1>2, <1>3
<1> QED
  BY <1>4 DEF saved

LEMMA CallLosesNothing ==
  ASSUME CachesInv, StoresInv, NEW port \in {"i", "r", "w"}, NEW addr \in 0 .. Top,
         NEW S, S \subseteq Caches, NEW asked, Careful(port, addr, asked, S),
         Call(port, addr, asked).result # "fatal"
  PROVE  Call(port, addr, asked).unsaved \subseteq Dirty(config, Call(port, addr, asked).h, Caches)
<1> DEFINE r == IF counter[port] < 0 THEN asked ELSE Answer(caches, 1, {})
           call == Call(port, addr, asked)
           new == IF port = "w" /\ counter[port] < 0 /\ r.stalls # -1 THEN {addr} ELSE {}
<1>1. call = Outcome(port, addr, r, Attempt(counter[port], r.stalls))
  BY DEF Call, Attempted
<1>2. Keeps(config, caches, r, Caches)
  <2>1. Keeps(config, caches, asked, Caches)
    BY KeepsMore DEF Careful
  <2>2. Keeps(config, caches, Answer(caches, 1, {}), Caches)
    BY NothingChanges, AnswerKeeps
  <2> QED
    BY <2>1, <2>2
<1>3. new \subseteq Dirty(config, r.h, Caches) \cup r.saved
  <2> SUFFICES ASSUME port = "w", counter[port] < 0, r.stalls # -1
               PROVE  addr \in Dirty(config, r.h, Caches) \cup r.saved
    OBVIOUS
  <2>1. r = asked
    OBVIOUS
  <2>2. Together(config, {addr}, S)
    BY OneTogether
  <2>3. {addr} \subseteq Dirty(config, asked.h, S) \cup asked.saved
    BY <2>1, <2>2 DEF Careful, Saves
  <2> QED
    BY <2>1, <2>3, DirtyOfMore
<1> HIDE DEF r
<1>4. ~r.fatal /\ call.h = r.h /\ call.unsaved = (unsaved \cup new) \ r.saved
  BY <1>1, <1>2 DEF Outcome, Keeps
<1> HIDE DEF call, new
<1>5. call.unsaved \subseteq Dirty(config, call.h, Caches)
  BY <1>2, <1>3, <1>4 DEF Keeps, StoresInv
<1> QED
  BY <1>5 DEF call

LEMMA DataCallLosesNothing ==
  ASSUME CachesInv, StoresInv, Bypasses(config), Nested(config), NEW a \in Accesses,
         DataCall(a).result # "fatal"
  PROVE  DataCall(a).unsaved \subseteq Dirty(config, DataCall(a).h, Caches)
<1>1. a.port \in {"r", "w"} /\ a.addr \in 0 .. Top
  BY MachineFacts DEF Accesses, CachesInv
<1>2. /\ IsMachine(config) /\ Top \in Nat /\ Contents(config, caches, Top)
      /\ "l1_d" \in {"l1_i", "l1_d"} /\ "l1_d" \in Caches
  BY MachineFacts DEF CachesInv, Caches
<1> DEFINE S == Path(config, "l1_d")
<1>3. S \subseteq Caches
  BY <1>2, PathFacts
<1>4. Careful("r", a.addr, set_read_counter(a.addr), S)
  <2>1. Careful("r", a.addr, l1_read(config, caches, "l1_d", a.addr), S)
    BY <1>1, <1>2, FirstReadIsFine, FirstReadKeepsAll DEF Careful
  <2> HIDE DEF S
  <2> QED
    BY <1>3, <2>1, CachelessIsCareful DEF set_read_counter
<1>5. Careful("w", a.addr, set_write_counter(a.addr), S)
  <2>1. Min({a.addr}) = a.addr
    BY <1>1, MinIsUnique
  <2>2. Careful("w", a.addr, l1_write(config, caches, "l1_d", {a.addr}), S)
    <3> DEFINE r == l1_write(config, caches, "l1_d", {a.addr})
    <3>1. Fine(config, caches, r, S, a.addr, Top)
      BY <1>1, <1>2, <2>1, FirstWriteIsFine
    <3>2. Saves(config, caches, r, S, {a.addr})
      BY <1>1, <1>2, <2>1, FirstWriteSaves
    <3> HIDE DEF r, S
    <3>3. Careful("w", a.addr, r, S)
      BY <3>1, <3>2 DEF Careful, Saves
    <3> QED
      BY <3>3 DEF r
  <2> HIDE DEF S
  <2> QED
    BY <1>3, <2>2, CachelessIsCareful DEF set_write_counter
<1> HIDE DEF S
<1>6. CASE a.port = "r"
  <2>1. DataCall(a) = Call("r", a.addr, set_read_counter(a.addr))
    BY <1>6 DEF DataCall
  <2> QED
    BY <1>1, <1>3, <1>4, <2>1, CallLosesNothing
<1>7. CASE a.port = "w"
  <2>1. DataCall(a) = Call("w", a.addr, set_write_counter(a.addr))
    BY <1>7 DEF DataCall
  <2> QED
    BY <1>1, <1>3, <1>5, <2>1, CallLosesNothing
<1> QED
  BY <1>1, <1>6, <1>7

LEMMA FetchCallLosesNothing ==
  ASSUME CachesInv, StoresInv, Bypasses(config), Nested(config), NEW addr \in config.text,
         FetchCall(addr).result # "fatal"
  PROVE  FetchCall(addr).unsaved \subseteq Dirty(config, FetchCall(addr).h, Caches)
<1>1. addr \in 0 .. Top
  BY MachineFacts DEF CachesInv
<1>2. /\ IsMachine(config) /\ Top \in Nat /\ Contents(config, caches, Top)
      /\ "l1_i" \in {"l1_i", "l1_d"} /\ "l1_i" \in Caches
  BY MachineFacts DEF CachesInv, Caches
<1> DEFINE S == Path(config, "l1_i")
<1>3. S \subseteq Caches
  BY <1>2, PathFacts
<1>4. Careful("i", addr, l1_read(config, caches, "l1_i", addr), S)
  BY <1>1, <1>2, FirstReadIsFine, FirstReadKeepsAll DEF Careful
<1> HIDE DEF S
<1>5. Careful("i", addr, set_read_i_counter(addr), S)
  BY <1>3, <1>4, CachelessIsCareful DEF set_read_i_counter
<1>6. FetchCall(addr) = Call("i", addr, set_read_i_counter(addr))
  BY DEF FetchCall
<1> QED
  BY <1>1, <1>3, <1>5, <1>6, CallLosesNothing

(* After the call, the flags and the references change, no block. *)
LEMMA NextLosesNothing ==
  ASSUME CachesInv, StoresInv, Bypasses(config), Nested(config), [Next]_vars
  PROVE  StoresInv'
<1>1. IsMachine(config) /\ Top \in Nat /\ Contents(config, caches, Top) /\ mar_i \in 0 .. Top
  BY MachineFacts DEF CachesInv, PortsInv
<1>2. CASE Transfer
  <2>1. PICK a \in NextAccesses : /\ DataDone(a, DataCall(a)) \/ DataPending(DataCall(a))
                                  /\ Accessed(a, DataCall(a))
    BY <1>2 DEF Transfer
  <2>2. a \in Accesses
    BY DEF NextAccesses, CachesInv, PortsInv
  <2>3. a.addr \in 0 .. Top
    BY <2>2, MachineFacts DEF Accesses, CachesInv
  <2> DEFINE call == DataCall(a)
  <2>4. /\ call.result # "fatal" /\ unsaved' = call.unsaved /\ config' = config
        /\ \/ caches' = Done(config, call.h, First(config, "l1_d"), a.addr)
           \/ caches' = Tick(call.h)
    BY <1>2, <2>1 DEF Transfer, Runs, DataDone, DataPending, Accessed, complete_read, complete_write
  <2>5. GoodCall(a.port, a.addr, call, DataPath) /\ unsaved' \subseteq Dirty(config, call.h, Caches)
    BY <2>2, <2>4, DataCallIsGood, DataCallLosesNothing
  <2> HIDE DEF call
  <2>6. StaysDirty(config, call.h, caches')
    BY <1>1, <2>3, <2>4, <2>5, DoneStaysDirty, TickStaysDirty DEF GoodCall, Touches
  <2> QED
    BY <2>4, <2>5, <2>6, StaysInAll DEF StoresInv
<1>3. CASE Fetch
  <2>1. PICK addr \in NextFetches :
          /\ FetchDone(addr, FetchCall(addr)) \/ FetchPending(FetchCall(addr))
          /\ unsaved' = FetchCall(addr).unsaved
    BY <1>3 DEF Fetch
  <2>2. addr \in config.text
    BY DEF NextFetches, CachesInv, PortsInv
  <2>3. addr \in 0 .. Top
    BY <2>2, MachineFacts DEF CachesInv
  <2> DEFINE call == FetchCall(addr)
             done == Done(config, call.h, First(config, "l1_i"), addr)
  <2>4. /\ call.result # "fatal" /\ unsaved' = call.unsaved /\ config' = config
        /\ caches' = Tick(done) \/ caches' = Tick(call.h)
    BY <1>3, <2>1 DEF Fetch, Runs, FetchDone, FetchPending, complete_read_i
  <2>5. GoodCall("i", addr, call, FetchPath) /\ unsaved' \subseteq Dirty(config, call.h, Caches)
    BY <2>2, <2>4, FetchCallIsGood, FetchCallLosesNothing
  <2> HIDE DEF call
  <2>6. Contents(config, call.h, Top)
    BY <2>5 DEF GoodCall, Touches
  <2>7. Contents(config, done, Top) /\ StaysDirty(config, call.h, done)
    BY <1>1, <2>3, <2>6, DoneFrees, DoneStaysDirty DEF Frees
  <2> HIDE DEF done
  <2>8. StaysDirty(config, call.h, caches')
    BY <1>1, <2>4, <2>6, <2>7, TickStaysDirty, StaysTwice
  <2> QED
    BY <2>4, <2>5, <2>8, StaysInAll DEF StoresInv
<1>4. CASE Flush \/ Redirect
  <2>1. caches' = Done(config, caches, First(config, "l1_i"), mar_i) /\ UNCHANGED <<config, unsaved>>
    BY <1>4 DEF Flush, Redirect, Runs, CancelFetch, complete_read_i
  <2>2. StaysDirty(config, caches, caches')
    BY <1>1, <2>1, DoneStaysDirty
  <2> QED
    BY <2>1, <2>2, StaysInAll DEF StoresInv
<1>5. CASE Stall
  <2>1. caches' = Tick(caches) /\ UNCHANGED <<config, unsaved>>
    BY <1>5 DEF Stall, Runs
  <2>2. StaysDirty(config, caches, caches')
    BY <1>1, <2>1, TickStaysDirty
  <2> QED
    BY <2>1, <2>2, StaysInAll DEF StoresInv
<1>6. CASE NoAccess \/ Proceed \/ Exit \/ UNCHANGED vars
  <2>1. UNCHANGED <<config, caches, unsaved>>
    BY <1>6 DEF NoAccess, Proceed, Exit, Runs, vars
  <2> QED
    BY <2>1 DEF StoresInv
<1> QED
  BY <1>2, <1>3, <1>4, <1>5, <1>6 DEF Next, Stopped

(* Whatever was stored has been charged to the DRAM or is in a dirty block *)
(* of the data cache, the second or the third level, through evictions,    *)
(* bypassed levels and refused accesses: when write misses bypass the      *)
(* second and the third level, and the blocks of a level are no smaller    *)
(* than those above it and hold a whole number of them.  A larger block    *)
(* above is written back to the first of the blocks it covers only.        *)
THEOREM StoresAreKept ==
  ASSUME \A cfg \in Configs : Bypasses(cfg) /\ Nested(cfg)
  PROVE  Spec => []NoStoreLost
<1>1. Init => StoresInv
  BY DEF Init, StoresInv
<1>2. CachesInv /\ StoresInv /\ [Next]_vars => StoresInv'
  BY NextLosesNothing DEF CachesInv
<1>3. CachesInv /\ StoresInv => NoStoreLost
  <2> SUFFICES ASSUME CachesInv, StoresInv, NEW a \in unsaved
               PROVE  \E p \in Places : /\ p[1] # "l1_i"
                                        /\ LineAt(p).valid = 1 /\ LineAt(p).dirty = 1
                                        /\ a \in Block(LineAt(p).addr, config[p[1]])
    BY DEF NoStoreLost
  <2>1. PICK c \in Caches : a \in DirtyIn(config, caches, c)
    BY DEF StoresInv, Dirty
  <2>2. PICK i, w : IsDirty(config, caches, c, i, w) /\ a \in Block(caches[c][i][w].addr, config[c])
    BY <2>1 DEF DirtyIn
  <2> DEFINE p == <<c, i, w>>
  <2>3. p \in {c} \X (0 .. config[c].sets - 1) \X (1 .. config[c].ways)
    BY <2>2 DEF IsDirty
  <2>4. p \in Places
    BY <2>3 DEF Places
  <2>5. p[1] = c /\ LineAt(p) = caches[c][i][w]
    BY DEF LineAt
  <2> HIDE DEF p
  <2> QED
    BY <2>2, <2>4, <2>5 DEF IsDirty
<1> QED
  BY <1>1, <1>2, <1>3, CachesInvariant, PTL DEF Spec

-----------------------------------------------------------------------------
(* No access ends the program: text and data are in different blocks, and  *)
(* the blocks of two lines of a set never meet in one block further below. *)

Data(cfg) == cfg.loads \cup cfg.stores

(* What may be written back is a block of the data. *)
DirtyIsData(cfg, h) ==
  \A c \in Caches : \A i \in 0 .. cfg[c].sets - 1 : \A w \in 1 .. cfg[c].ways :
    h[c][i][w].valid = 1 /\ h[c][i][w].dirty = 1 =>
      c # "l1_i" /\ \E y \in Data(cfg) : h[c][i][w].addr = BlockAddr(y, cfg[c])

LEMMA SameDirtIsData ==
  ASSUME NEW cfg, NEW h, DirtyIsData(cfg, h), NEW g, SameDirt(cfg, h, g)
  PROVE  DirtyIsData(cfg, g)
BY DEF DirtyIsData, SameDirt

(* An address in a block of the data, in the caches of S. *)
OfData(cfg, addr, S) ==
  \E y \in Data(cfg) : \A d \in S : BlockAddr(addr, cfg[d]) = BlockAddr(y, cfg[d])

LEMMA FlagDirtyIsData ==
  ASSUME NEW cfg, IsMachine(cfg), NEW top \in Nat, NEW h, Contents(cfg, h, top),
         NEW c \in Caches \ {"l1_i"}, NEW addr \in 0 .. top, Has(cfg, h, c, addr),
         DirtyIsData(cfg, h), NEW S, c \in S, OfData(cfg, addr, S)
  PROVE  DirtyIsData(cfg, Flag(cfg, h, c, addr, "dirty", 1))
<1> DEFINE lines == Lines(cfg, h, c, addr)
           s == cfg[c]
           i == Index(addr, s)
           new == SetFlag(lines, addr, s, "dirty", 1)
           g == WithSet(h, c, i, new)
<1>1. /\ SetInv(lines, i, s, top) /\ i \in 0 .. s.sets - 1 /\ IsGoodCache(s)
      /\ lines = h[c][i] /\ Legal("dirty", 1, s) /\ c \in Caches
  BY LinesInv DEF IsMachine, Lines, Legal, Bit
<1>2. Flag(cfg, h, c, addr, "dirty", 1) = g
  BY DEF Flag, WithSet
<1>3. PICK m \in 1 .. s.ways :
        /\ OneFlagChanges(lines, new, s, top, m, "dirty", 1)
        /\ lines[m].valid = 1 /\ lines[m].addr = BlockAddr(addr, s)
  <2>1. PICK m \in 1 .. cfg[c].ways : Reaches(cfg, h, c, addr, top, "dirty", 1, m)
    BY <1>1, FlagOnTheBlock
  <2> QED
    BY <2>1 DEF Reaches
<1>4. PICK y \in Data(cfg) : BlockAddr(addr, s) = BlockAddr(y, s)
  BY DEF OfData
<1> HIDE DEF lines, i, s
<1>5. SetInv(new, i, s, top)
  BY <1>1, SetFlagInv
<1>6. \A w \in 1 .. s.ways : new[w].valid = 1 /\ new[w].dirty = 1 =>
        \E z \in Data(cfg) : new[w].addr = BlockAddr(z, s)
  <2> SUFFICES ASSUME NEW w \in 1 .. s.ways, new[w].valid = 1, new[w].dirty = 1
               PROVE  \E z \in Data(cfg) : new[w].addr = BlockAddr(z, s)
    OBVIOUS
  <2>1. CASE w = m
    BY <1>3, <1>4, <2>1 DEF OneFlagChanges
  <2>2. CASE w # m
    <3>1. new[w] = lines[w]
      BY <1>3, <2>2 DEF OneFlagChanges
    <3> QED
      BY <1>1, <3>1 DEF DirtyIsData, s
  <2> QED
    BY <2>1, <2>2
<1> HIDE DEF new
<1>7. /\ \A d \in Caches \ {c} : g[d] = h[d]
      /\ g[c][i] = new /\ \A j \in (0 .. s.sets - 1) \ {i} : g[c][j] = h[c][j]
  BY <1>1, <1>5, SetChanges DEF s
<1> HIDE DEF g
<1>8. DirtyIsData(cfg, g)
  BY <1>1, <1>6, <1>7 DEF DirtyIsData, s
<1> QED
  BY <1>2, <1>8

(* The lines of a block that is there, and its outcomes. *)
LEMMA BusyIsInUse ==
  ASSUME NEW cfg, IsMachine(cfg), NEW top \in Nat, NEW h, Contents(cfg, h, top),
         NEW c \in Caches, NEW addr \in 0 .. top, Find(cfg, h, c, addr) = "busy"
  PROVE  BlockAddr(addr, cfg[c]) \in InUse(h, c)
<1> DEFINE lines == Lines(cfg, h, c, addr)
           s == cfg[c]
           i == Index(addr, s)
           found == Matching(lines, addr, s) \cap Valid(lines)
<1>1. /\ SetInv(lines, i, s, top) /\ IsGoodCache(s) /\ IsCache(s) /\ addr \in Nat
      /\ i \in DOMAIN h[c] /\ lines = h[c][i] /\ find_block(lines, addr, s) = "busy"
  <2>1. SetInv(lines, i, s, top) /\ i \in 0 .. s.sets - 1
    BY LinesInv
  <2>2. IsGoodCache(s) /\ IsCache(s) /\ addr \in Nat
    BY DEF IsMachine, IsGoodCache, IsCache
  <2>3. DOMAIN h[c] = 0 .. s.sets - 1
    BY DEF Contents
  <2>4. lines = h[c][i] /\ find_block(lines, addr, s) = "busy"
    BY DEF Lines, Find
  <2> QED
    BY <2>1, <2>2, <2>3, <2>4
<1> HIDE DEF lines, i, s
<1>2. found # {} /\ lines[Min(found)].done = 0
  BY <1>1 DEF find_block
<1>3. found \subseteq 1 .. s.ways
  BY <1>1, SetsAreSets DEF Valid
<1>4. Min(found) \in found
  BY <1>1, <1>2, <1>3, MinIsLeast DEF IsGoodCache
<1> DEFINE m == Min(found)
<1>5. m \in Valid(lines) /\ m \in Locked(lines) /\ m \in 1 .. s.ways
      /\ get_tag(lines[m].addr, s) = get_tag(addr, s)
  BY <1>2, <1>3, <1>4 DEF Locked, Matching
<1> HIDE DEF m, found
<1>6. lines[m].addr = BlockAddr(addr, s)
  <2>1. /\ BlockAddr(lines[m].addr, s) = lines[m].addr /\ Index(lines[m].addr, s) = Index(addr, s)
        /\ lines[m].addr \in Nat
    <3>1. lines[m].addr \in 0 .. top
      BY <1>1, <1>5, SetTypes
    <3>2. BlockAddr(lines[m].addr, s) = lines[m].addr /\ Index(lines[m].addr, s) = i
      BY <1>1, <1>5 DEF SetInv
    <3> QED
      BY <3>1, <3>2 DEF i
  <2> QED
    BY <1>1, <1>5, <2>1, TagNamesTheBlock
<1>7. BlockAddr(addr, s) \in LockedBlocks(h[c][i])
  BY <1>1, <1>5, <1>6 DEF LockedBlocks
<1> QED
  BY <1>1, <1>7 DEF InUse, s

LEMMA UnusedHits ==
  ASSUME NEW cfg, IsMachine(cfg), NEW top \in Nat, NEW h, Contents(cfg, h, top),
         NEW c \in Caches, NEW addr \in 0 .. top, Has(cfg, h, c, addr),
         BlockAddr(addr, cfg[c]) \notin InUse(h, c)
  PROVE  Find(cfg, h, c, addr) = "hit"
<1> DEFINE lines == Lines(cfg, h, c, addr)
           s == cfg[c]
           found == Matching(lines, addr, s) \cap Valid(lines)
<1>1. SetInv(lines, Index(addr, s), s, top) /\ IsGoodCache(s) /\ found # {}
  BY LinesInv DEF IsMachine, Has
<1>2. find_block(lines, addr, s) # "busy"
  BY BusyIsInUse DEF Find
<1> HIDE DEF lines, s
<1>3. found \subseteq 1 .. s.ways
  BY <1>1, SetsAreSets DEF Valid
<1>4. Min(found) \in 1 .. s.ways
  BY <1>1, <1>3, MinIsLeast DEF IsGoodCache
<1>5. lines[Min(found)].done \in Bit
  BY <1>1, <1>4, SetTypes
<1>6. find_block(lines, addr, s) = "hit"
  BY <1>1, <1>2, <1>5 DEF find_block, Bit
<1> QED
  BY <1>6 DEF Find, lines, s

LEMMA StillThere ==
  ASSUME NEW cfg, IsMachine(cfg), NEW top \in Nat, NEW h, Contents(cfg, h, top),
         NEW g, Contents(cfg, g, top), SameDirt(cfg, h, g),
         NEW c \in Caches, NEW addr \in 0 .. top, Has(cfg, h, c, addr)
  PROVE  Has(cfg, g, c, addr)
<1> DEFINE s == cfg[c]
           i == Index(addr, s)
           lines == Lines(cfg, h, c, addr)
           new == Lines(cfg, g, c, addr)
<1>1. /\ SetInv(lines, i, s, top) /\ SetInv(new, i, s, top) /\ IsGoodCache(s)
      /\ \A w \in 1 .. s.ways : new[w].addr = lines[w].addr /\ new[w].valid = lines[w].valid
  BY LinesInv DEF IsMachine, SameDirt, Lines
<1>2. PICK v : v \in Matching(lines, addr, s) /\ v \in Valid(lines)
  BY DEF Has
<1> HIDE DEF lines, new, s, i
<1>3. DOMAIN lines = 1 .. s.ways /\ DOMAIN new = 1 .. s.ways
  BY <1>1, SetsAreSets
<1>4. v \in Matching(new, addr, s) /\ v \in Valid(new)
  BY <1>1, <1>2, <1>3 DEF Matching, Valid
<1> QED
  BY <1>4 DEF Has, new, s

(* Two blocks of one set of cache s are too far apart for a block of t.    *)
LEMMA BlocksOfASet ==
  ASSUME NEW s, IsCache(s), NEW t, IsCache(t), t.block <= s.block * s.sets,
         NEW a \in Nat, NEW b \in Nat, Index(a, s) = Index(b, s),
         get_tag(a, s) < get_tag(b, s),
         BlockAddr(BlockAddr(a, s), t) = BlockAddr(a, t),
         BlockAddr(BlockAddr(b, s), t) = BlockAddr(b, t)
  PROVE  BlockAddr(a, t) # BlockAddr(b, t)
<1> DEFINE n == s.block
           k == s.sets
           i == Index(a, s)
           p == get_tag(a, s)
           q == get_tag(b, s)
           x == BlockAddr(a, s)
           y == BlockAddr(b, s)
           m == t.block
<1>1. n \in Nat \ {0} /\ k \in Nat \ {0} /\ m \in Nat \ {0} /\ m <= n * k
  BY DEF IsCache
<1>2. p \in Nat /\ q \in Nat /\ p < q /\ i \in Nat
  <2>1. n * k \in Nat \ {0}
    BY <1>1
  <2>2. i \in Nat
    BY IndexIsOfASet, <1>1
  <2> QED
    BY <2>1, <2>2 DEF get_tag
<1>3. x = n * (k * p + i) /\ y = n * (k * q + i)
  BY TagAndIndex, BlockAddrFacts
<1>4. BlockAddr(x, t) = BlockAddr(a, t) /\ BlockAddr(y, t) = BlockAddr(b, t)
  OBVIOUS
<1>5. x \in Nat /\ y \in Nat
  BY BlockAddrFacts
<1> HIDE DEF n, k, i, p, q
<1>6. y >= x + n * k
  <2>1. k * q >= k * p + k
    <3>1. q >= p + 1
      BY <1>2
    <3>2. k * q >= k * (p + 1)
      BY <1>1, <1>2, <3>1
    <3> QED
      BY <1>1, <1>2, <3>2
  <2>2. k * q + i >= (k * p + i) + k
    BY <1>1, <1>2, <2>1
  <2> DEFINE u == k * p + i
             v == k * q + i
  <2>3. u \in Nat /\ v \in Nat /\ v >= u + k
    BY <1>1, <1>2, <2>2
  <2>4. x = n * u /\ y = n * v
    BY <1>3
  <2> HIDE DEF u, v
  <2>5. n * v >= n * (u + k)
    BY <1>1, <2>3
  <2>6. n * (u + k) = n * u + n * k
    BY <1>1, <2>3
  <2> QED
    BY <2>4, <2>5, <2>6
<1> HIDE DEF x, y
<1>7. BlockAddr(x, t) <= x /\ x < BlockAddr(x, t) + m /\ y < BlockAddr(y, t) + m
      /\ BlockAddr(x, t) \in Nat /\ BlockAddr(y, t) \in Nat
  <2>1. x \in Block(x, t) /\ y \in Block(y, t) /\ BlockAddr(x, t) \in Nat /\ BlockAddr(y, t) \in Nat
    BY <1>5, BlockAddrFacts
  <2> QED
    BY <1>1, <1>5, <2>1 DEF Block
<1>8. n * k \in Nat
  BY <1>1
<1> QED
  BY <1>1, <1>4, <1>5, <1>6, <1>7, <1>8

(* The caches below the first level hold no block of text and data.        *)
Apart(cfg) ==
  \A d \in Path(cfg, Below(cfg, "l1_d")) : \A x \in cfg.text : \A y \in Data(cfg) :
    BlockAddr(x, cfg[d]) # BlockAddr(y, cfg[d])

(* A way of a cache holds at least a block of those below.                 *)
Roomy(cfg) ==
  \A c \in {"l1_d", "l2"} : \A d \in Path(cfg, Below(cfg, c)) :
    cfg[d].block <= cfg[c].block * cfg[c].sets

Separates(cfg, top) ==
  Bypasses(cfg) /\ Nested(cfg) /\ Apart(cfg) /\ Roomy(cfg) /\ Addresses(cfg) \subseteq 0 .. top

LEMMA BelowTheFirst ==
  ASSUME NEW cfg, IsMachine(cfg), NEW c \in Caches
  PROVE  Path(cfg, Below(cfg, c)) \subseteq Path(cfg, Below(cfg, "l1_d"))
<1>1. Below(cfg, "dram") = "dram" /\ Below(cfg, "l3") = "dram"
  BY BelowFacts
<1>2. CASE c \in {"l1_i", "l1_d"}
  BY <1>2 DEF Below
<1>3. CASE c = "l3"
  BY <1>1, <1>3 DEF Path, Caches
<1>4. CASE c = "l2"
  <2>1. CASE Below(cfg, "l2") = "dram"
    BY <1>1, <1>4, <2>1 DEF Path, Caches
  <2>2. CASE Below(cfg, "l2") # "dram"
    <3>1. Below(cfg, "l2") = "l3" /\ cfg.CACHE_LEVELS > 2
      BY <2>2 DEF Below
    <3>2. Below(cfg, "l1_d") = "l2"
      <4>1. cfg.CACHE_LEVELS > 1
        BY <3>1 DEF IsMachine
      <4> QED
        BY <4>1 DEF Below
    <3> QED
      BY <1>1, <1>4, <3>1, <3>2 DEF Path, Caches
  <2> QED
    BY <2>1, <2>2
<1> QED
  BY <1>2, <1>3, <1>4 DEF Caches

(* The other locks are on blocks of the text, those of a fetch.            *)
TextLocks(cfg, h, addr, S) ==
  \A d \in S : InUse(h, d) \subseteq {BlockAddr(x, cfg[d]) : x \in cfg.text \cup {addr}}

Unused(cfg, h, addr, S) == \A d \in S : BlockAddr(addr, cfg[d]) \notin InUse(h, d)

(* What an eviction writes back is a block of the data, and no access is   *)
(* transferring it below: it is not in the text's blocks, nor, if it was   *)
(* in the set of addr, in the block of addr.                               *)
LEMMA WrittenBackIsUnused ==
  ASSUME NEW cfg, IsMachine(cfg), NEW top \in Nat, Separates(cfg, top),
         NEW h, Contents(cfg, h, top), DirtyIsData(cfg, h),
         NEW c \in Caches, NEW addr \in cfg.text \cup Data(cfg), Find(cfg, h, c, addr) = "free",
         WritesBack(Lines(cfg, h, c, addr), Victim(Lines(cfg, h, c, addr)), cfg[c]),
         NEW g, TextLocks(cfg, g, addr, Path(cfg, Below(cfg, c)))
  PROVE  /\ Unused(cfg, g, Min(Evicted(cfg, h, c, addr)), Path(cfg, Below(cfg, c)))
         /\ OfData(cfg, Min(Evicted(cfg, h, c, addr)), Path(cfg, Below(cfg, c)))
<1> DEFINE lines == Lines(cfg, h, c, addr)
           s == cfg[c]
           i == Index(addr, s)
           way == Victim(lines)
           e == lines[way].addr
           P == Path(cfg, Below(cfg, c))
<1>0. /\ addr \in 0 .. top /\ addr \in Nat
      /\ \A x \in cfg.text \cup Data(cfg) : x \in Nat
  BY DEF Separates, Addresses, Data
<1>1. /\ SetInv(lines, i, s, top) /\ i \in 0 .. s.sets - 1 /\ IsGoodCache(s) /\ IsCache(s)
      /\ lines = h[c][i] /\ find_block(lines, addr, s) = "free"
  BY <1>0, LinesInv DEF IsMachine, IsGoodCache, IsCache, Lines, Find
<1>2. WritesBack(lines, way, s)
  OBVIOUS
<1>3. Evicted(cfg, h, c, addr) = Block(e, s)
  BY DEF Evicted
<1> HIDE DEF lines
<1>4. way \in 1 .. s.ways
  <2>1. lines \in SetsOf(s.ways)
    BY <1>1, SetsAreSets
  <2> QED
    BY <1>1, <2>1, VictimIsAWay DEF IsGoodCache
<1> HIDE DEF way
<1>5. lines[way].valid = 1 /\ lines[way].dirty = 1 /\ way \in Valid(lines)
  <2>1. Valid(lines) = DOMAIN lines /\ lines[way].dirty = 1
    BY <1>2 DEF WritesBack
  <2>2. way \in Valid(lines)
    BY <1>1, <1>4, <2>1, SetsAreSets
  <2> QED
    BY <2>1, <2>2 DEF Valid
<1>6. PICK y \in Data(cfg) : c # "l1_i" /\ e = BlockAddr(y, s)
  BY <1>1, <1>4, <1>5 DEF DirtyIsData, s
<1>7. e \in Nat /\ Index(e, s) = i /\ BlockAddr(e, s) = e
  <2>1. lines[way].addr \in 0 .. top
    BY <1>1, <1>4, SetTypes
  <2>2. BlockAddr(lines[way].addr, s) = lines[way].addr /\ Index(lines[way].addr, s) = i
    BY <1>1, <1>5 DEF SetInv
  <2> QED
    BY <2>1, <2>2
<1>8. get_tag(e, s) # get_tag(addr, s)
  <2>1. Matching(lines, addr, s) \cap Valid(lines) = {}
    BY <1>1, FreeIsAMiss
  <2>2. way \in DOMAIN lines
    BY <1>5 DEF Valid
  <2> QED
    BY <1>5, <2>1, <2>2 DEF Matching
<1> HIDE DEF s, i, e
<1>9. Min(Evicted(cfg, h, c, addr)) = e
  BY <1>1, <1>3, <1>7, FirstOfBlock
<1>10. \A d \in P : BlockAddr(e, cfg[d]) = BlockAddr(y, cfg[d])
  <2>1. BlockAddr(e, cfg[c]) = BlockAddr(y, cfg[c])
    BY <1>6, <1>7 DEF s
  <2> QED
    BY <1>0, <1>6, <1>7, <2>1, OneBlockBelow DEF Separates
<1>11. ASSUME NEW d \in P, NEW x \in cfg.text
       PROVE  BlockAddr(e, cfg[d]) # BlockAddr(x, cfg[d])
  <2>1. d \in Path(cfg, Below(cfg, "l1_d"))
    BY BelowTheFirst
  <2> QED
    BY <1>10, <2>1 DEF Separates, Apart
<1>12. ASSUME NEW d \in P, addr \in Data(cfg)
       PROVE  BlockAddr(e, cfg[d]) # BlockAddr(addr, cfg[d])
  <2> DEFINE t == cfg[d]
  <2>1. d \in Caches
    BY DEF Path
  <2>2. IsCache(t)
    BY <2>1 DEF IsMachine, IsGoodCache, IsCache
  <2>3. c \in {"l1_d", "l2"}
    <3>1. c # "l3"
      <4>1. Below(cfg, "l3") = "dram" /\ Below(cfg, "dram") = "dram"
        BY BelowFacts
      <4> QED
        BY <4>1 DEF Path, Caches
    <3> QED
      BY <1>6, <3>1 DEF Caches
  <2>4. t.block <= s.block * s.sets
    BY <2>3 DEF Separates, Roomy, s
  <2>5. BlockAddr(BlockAddr(addr, s), t) = BlockAddr(addr, t)
        /\ BlockAddr(BlockAddr(e, s), t) = BlockAddr(e, t)
    <3>1. BlockAddr(addr, s) \in Nat /\ BlockAddr(BlockAddr(addr, s), s) = BlockAddr(addr, s)
      BY <1>0, <1>1, BlockAddrFacts
    <3> QED
      BY <1>0, <1>6, <1>7, <3>1, OneBlockBelow DEF Separates, s
  <2> HIDE DEF t
  <2>6. get_tag(e, s) \in Nat /\ get_tag(addr, s) \in Nat /\ Index(addr, s) = i
    <3>1. get_tag(e, s) \in Nat /\ get_tag(addr, s) \in Nat
      <4>1. s.block * s.sets \in Nat \ {0}
        BY <1>1 DEF IsCache
      <4> QED
        BY <1>0, <1>7, <4>1 DEF get_tag
    <3> QED
      BY <3>1 DEF i
  <2>7. CASE get_tag(e, s) < get_tag(addr, s)
    BY <1>0, <1>1, <1>7, <2>2, <2>4, <2>5, <2>6, <2>7, BlocksOfASet DEF t
  <2>8. CASE get_tag(addr, s) < get_tag(e, s)
    BY <1>0, <1>1, <1>7, <2>2, <2>4, <2>5, <2>6, <2>8, BlocksOfASet DEF t
  <2> QED
    BY <1>8, <2>6, <2>7, <2>8
<1>13. Unused(cfg, g, e, P)
  <2> SUFFICES ASSUME NEW d \in P, BlockAddr(e, cfg[d]) \in InUse(g, d) PROVE FALSE
    BY DEF Unused
  <2>1. PICK x \in cfg.text \cup {addr} : BlockAddr(e, cfg[d]) = BlockAddr(x, cfg[d])
    BY DEF TextLocks
  <2> QED
    BY <1>11, <1>12, <2>1
<1>14. OfData(cfg, e, P)
  BY <1>10 DEF OfData
<1> QED
  BY <1>9, <1>13, <1>14 DEF P

(* A write below the first level, and an eviction: they are never refused. *)
Goes(cfg, r) == r.stalls # -1 /\ ~r.fatal /\ DirtyIsData(cfg, r.h)

(* An access that may be refused, but changes nothing then.                *)
Waits(cfg, h, r) == ~r.fatal /\ DirtyIsData(cfg, r.h) /\ (r.stalls = -1 => r.h = h)

(* Unless it is, it leaves the block of addr in cache c.                   *)
Brings(cfg, h, r, c, addr) ==
  Waits(cfg, h, r) /\ (r.stalls # -1 => Has(cfg, r.h, c, addr))

LEMMA CountGoes ==
  ASSUME NEW cfg, NEW r, IsAnswer(r), Goes(cfg, r), NEW c, NEW what, NEW k
  PROVE  Goes(cfg, Count(r, c, what, k))
BY CountChanges DEF Goes

LEMMA AnswerGoes ==
  ASSUME NEW cfg, NEW h, DirtyIsData(cfg, h), NEW n \in Nat, NEW saved
  PROVE  Goes(cfg, Answer(h, n, saved))
<1>1. Answer(h, n, saved).h = h /\ Answer(h, n, saved).stalls = n
      /\ Answer(h, n, saved).fatal = FALSE
  BY DEF Answer
<1> QED
  BY <1>1 DEF Goes

LEMMA ThenGoes ==
  ASSUME NEW cfg, NEW r, IsAnswer(r), Goes(cfg, r), NEW next, IsAnswer(next), Goes(cfg, next)
  PROVE  Goes(cfg, Then(r, next))
BY ThenOutcome DEF Goes

LEMMA ThenBrings ==
  ASSUME NEW cfg, NEW h, NEW c, NEW addr, NEW r, IsAnswer(r), Waits(cfg, h, r),
         NEW next, IsAnswer(next),
         r.stalls # -1 => Goes(cfg, next) /\ Has(cfg, next.h, c, addr)
  PROVE  Brings(cfg, h, Then(r, next), c, addr)
<1>1. CASE r.stalls = -1
  BY <1>1 DEF Then, Brings
<1>2. CASE r.stalls # -1
  BY <1>2, ThenOutcome DEF Goes, Brings, Waits
<1> QED
  BY <1>1, <1>2

LEMMA ThenWaits ==
  ASSUME NEW cfg, NEW h, NEW r, IsAnswer(r), Waits(cfg, h, r), NEW next, IsAnswer(next),
         r.stalls # -1 => Goes(cfg, next)
  PROVE  Waits(cfg, h, Then(r, next))
<1>1. CASE r.stalls = -1
  BY <1>1 DEF Then
<1>2. CASE r.stalls # -1
  BY <1>2, ThenOutcome DEF Goes, Waits
<1> QED
  BY <1>1, <1>2

LEMMA ReadInBrings ==
  ASSUME NEW cfg, IsMachine(cfg), NEW top \in Nat, NEW h, Contents(cfg, h, top),
         NEW c \in Caches, NEW addr \in 0 .. top, DirtyIsData(cfg, h),
         BlockAddr(addr, cfg[c]) \notin InUse(h, c), NEW placed,
         Find(cfg, h, c, addr) = "free" => IsAnswer(placed) /\ Brings(cfg, h, placed, c, addr)
  PROVE  Brings(cfg, h, ReadIn(cfg, h, c, addr, placed), c, addr)
<1> DEFINE outcome == Find(cfg, h, c, addr)
           r == ReadIn(cfg, h, c, addr, placed)
           n == cfg[c].read_latency
<1>1. n \in Nat
  BY DEF IsMachine, IsGoodCache
<1> HIDE DEF n
<1>2. outcome \in {"hit", "free", "full"}
  <2>1. outcome \in {"hit", "busy", "free", "full"}
    BY LinesInv, FindOutcomes DEF Find
  <2>2. outcome # "busy"
    BY BusyIsInUse
  <2> QED
    BY <2>1, <2>2
<1>3. CASE outcome = "hit"
  <2> DEFINE g == Use(cfg, h, c, addr)
             q == Answer(g, n, {})
  <2>1. SameDirt(cfg, h, g)
    BY UseStaysDirty
  <2>2. Contents(cfg, g, top)
    <3>1. Touches(cfg, h, g, {c}, addr, top)
      BY UseTouches
    <3> QED
      BY <3>1 DEF Touches
  <2>3. r = Count(q, c, "hit_r", 1)
    BY <1>3 DEF ReadIn, ReadHit, n
  <2> HIDE DEF g, r
  <2>4. Has(cfg, g, c, addr)
    BY <1>3, <2>1, <2>2, HitsAreThere, StillThere
  <2>5. DirtyIsData(cfg, g)
    BY <2>1, SameDirtIsData
  <2>6. IsAnswer(q) /\ Goes(cfg, q) /\ q.h = g
    BY <1>1, <2>5, AnswerContents, AnswerGoes
  <2> HIDE DEF q
  <2>7. Goes(cfg, r) /\ r.h = g
    BY <2>3, <2>6, CountGoes, CountChanges
  <2>8. Brings(cfg, h, r, c, addr)
    BY <2>4, <2>7 DEF Brings, Waits, Goes
  <2> QED
    BY <2>8 DEF r
<1>4. CASE outcome = "full"
  <2>1. r = Answer(h, -1, {})
    BY <1>4 DEF ReadIn
  <2>2. r.h = h /\ r.stalls = -1 /\ r.fatal = FALSE
    BY <2>1 DEF Answer
  <2> HIDE DEF r
  <2>3. Brings(cfg, h, r, c, addr)
    BY <2>2 DEF Brings, Waits
  <2> QED
    BY <2>3 DEF r
<1>5. CASE outcome = "free"
  <2> DEFINE q == Answer(placed.h, n, {})
             next == Count(q, c, "miss_r", 1)
  <2>1. IsAnswer(q) /\ q.h = placed.h /\ Goes(cfg, q)
    <3>1. DirtyIsData(cfg, placed.h)
      BY <1>5 DEF Brings, Waits
    <3> QED
      BY <1>1, <3>1, AnswerContents, AnswerGoes
  <2>2. r = Then(placed, next)
    BY <1>5 DEF ReadIn, ReadMiss, n
  <2> HIDE DEF q
  <2>3. IsAnswer(next) /\ Goes(cfg, next) /\ next.h = placed.h
    <3>1. <<c, "miss_r">> \in Counters
      BY DEF Counters
    <3> QED
      BY <2>1, <3>1, CountContents, CountGoes, CountChanges
  <2> HIDE DEF next, r
  <2>4. Brings(cfg, h, r, c, addr)
    BY <1>5, <2>2, <2>3, ThenBrings DEF Brings
  <2> QED
    BY <2>4 DEF r
<1> QED
  BY <1>2, <1>3, <1>4, <1>5

LEMMA WriteBackGoes ==
  ASSUME NEW cfg, IsMachine(cfg), NEW top \in Nat, NEW h, NEW c \in Caches,
         NEW w, NEW block, Min(block) \in 0 .. top,
         Fine(cfg, h, w, Path(cfg, Below(cfg, c)), Min(block), top), Goes(cfg, w)
  PROVE  Goes(cfg, WriteBack(cfg, w, c, block))
<1> DEFINE g == Done(cfg, w.h, Below(cfg, c), Min(block))
           q == [w EXCEPT !.h = g]
           k == IF c = "l2" /\ Below(cfg, c) = "dram" THEN 0 ELSE 1
<1>1. SameDirt(cfg, w.h, g)
  BY DoneStaysDirty DEF Fine, Touches
<1>2. DirtyIsData(cfg, g)
  BY <1>1, SameDirtIsData DEF Goes
<1> HIDE DEF g, k
<1>3. q = [h |-> g, stalls |-> w.stalls, saved |-> w.saved, counted |-> w.counted,
           fatal |-> w.fatal]
  BY DEF Fine, IsAnswer
<1>4. IsAnswer(q)
  BY <1>3 DEF Fine, IsAnswer
<1>5. Goes(cfg, q)
  BY <1>2, <1>3 DEF Goes
<1> HIDE DEF q
<1>6. Goes(cfg, Count(q, c, "writebacks", k))
  BY <1>4, <1>5, CountGoes
<1> QED
  BY <1>6 DEF WriteBack, q, k, g

LEMMA ReplaceGoes ==
  ASSUME NEW cfg, IsMachine(cfg), NEW top \in Nat, NEW h, Contents(cfg, h, top),
         DirtyIsData(cfg, h),
         NEW c \in Caches, NEW addr \in 0 .. top, Find(cfg, h, c, addr) = "free",
         NEW w, Fine(cfg, h, w, Path(cfg, Below(cfg, c)), Min(Evicted(cfg, h, c, addr)), top),
         WritesBack(Lines(cfg, h, c, addr), Victim(Lines(cfg, h, c, addr)), cfg[c]) => Goes(cfg, w)
  PROVE  LET r == Replace(cfg, h, c, addr, w, Victim(Lines(cfg, h, c, addr)))
         IN  Goes(cfg, r) /\ Has(cfg, r.h, c, addr)
<1> DEFINE s == cfg[c]
           i == Index(addr, s)
           lines == Lines(cfg, h, c, addr)
           way == Victim(lines)
           block == Evicted(cfg, h, c, addr)
           back == WriteBack(cfg, w, c, block)
           r == IF WritesBack(lines, way, s) THEN back ELSE Answer(h, 0, {})
           P == Path(cfg, Below(cfg, c))
           new == Place(lines, way, addr, s, s.ways)
           g == WithSet(r.h, c, i, new)
           q == Replace(cfg, h, c, addr, w, way)
<1>0. c \notin P
  BY PathFacts
<1>1. Fine(cfg, h, r, P, addr, top) /\ Goes(cfg, r)
  <2>0. Min(block) \in 0 .. top
    BY EvictedIsABlock
  <2>1. Fine(cfg, h, back, P, addr, top)
    BY <2>0, WriteBackIsFine
  <2>2. Fine(cfg, h, Answer(h, 0, {}), P, addr, top) /\ Goes(cfg, Answer(h, 0, {}))
    BY TouchesNothing, AnswerIsFine, AnswerGoes
  <2>3. WritesBack(lines, way, s) => Goes(cfg, back)
    BY <2>0, WriteBackGoes
  <2> HIDE DEF back, P, block
  <2>4. CASE WritesBack(lines, way, s)
    BY <2>1, <2>3, <2>4
  <2>5. CASE ~WritesBack(lines, way, s)
    BY <2>2, <2>5
  <2> QED
    BY <2>4, <2>5
<1>2. q = [r EXCEPT !.h[c][i] = Place(@, way, addr, s, s.ways)]
  BY DEF Replace, Now
<1> HIDE DEF r, P, q, block, back
<1>4. Contents(cfg, r.h, top) /\ r.h[c] = h[c] /\ IsAnswer(r)
  BY <1>0, <1>1 DEF Fine, Touches
<1>5. r.h[c][i] = lines /\ h[c][i] = lines
  BY <1>4 DEF Lines
<1>6. /\ SetInv(lines, i, s, top) /\ IsGoodCache(s) /\ find_block(lines, addr, s) = "free"
      /\ i \in 0 .. s.sets - 1 /\ addr \in Nat /\ IsCache(s)
  BY LinesInv DEF Find, IsMachine, IsGoodCache, IsCache
<1> HIDE DEF lines
<1>7. way \in 1 .. s.ways /\ DOMAIN lines = 1 .. s.ways
  BY <1>6, SetsAreSets, VictimIsAWay DEF IsGoodCache
<1>9. SetInv(new, i, s, top)
  BY <1>6, PlaceInv
<1> HIDE DEF i
<1>10. /\ \A v \in 1 .. s.ways : v # way => new[v] = lines[v]
       /\ new[way].addr = BlockAddr(addr, s) /\ new[way].valid = 1 /\ new[way].dirty = 0
       /\ way \in DOMAIN new
  <2> HIDE DEF way
  <2> QED
    BY <1>7 DEF Place
<1> HIDE DEF new
<1>11. /\ \A d \in Caches \ {c} : g[d] = r.h[d]
       /\ g[c][i] = new /\ \A j \in (0 .. s.sets - 1) \ {i} : g[c][j] = h[c][j]
  BY <1>4, <1>6, <1>9, SetChanges
<1>12. q = [r EXCEPT !.h = g]
  BY <1>2, <1>5 DEF IsAnswer, WithSet, new
<1> HIDE DEF g, way
<1>13. q.h = g /\ q.stalls = r.stalls /\ q.fatal = r.fatal
  BY <1>4, <1>12 DEF IsAnswer
<1>14. DirtyIsData(cfg, g)
  <2> SUFFICES ASSUME NEW d \in Caches, NEW j \in 0 .. cfg[d].sets - 1, NEW v \in 1 .. cfg[d].ways,
                      g[d][j][v].valid = 1, g[d][j][v].dirty = 1
               PROVE  d # "l1_i" /\ \E y \in Data(cfg) : g[d][j][v].addr = BlockAddr(y, cfg[d])
    BY DEF DirtyIsData
  <2>1. g[d][j][v] = r.h[d][j][v]
    BY <1>4, <1>5, <1>10, <1>11
  <2> QED
    BY <1>1, <2>1 DEF Goes, DirtyIsData
<1>15. Has(cfg, g, c, addr)
  <2>1. Lines(cfg, g, c, addr) = new
    BY <1>11 DEF Lines, i, s
  <2>2. get_tag(BlockAddr(addr, s), s) = get_tag(addr, s)
    BY <1>6, BlockHasTheTag
  <2>3. way \in Matching(new, addr, s) /\ way \in Valid(new)
    BY <1>10, <2>2 DEF Matching, Valid
  <2> QED
    BY <2>1, <2>3 DEF Has, s
<1>16. Goes(cfg, q) /\ Has(cfg, q.h, c, addr)
  BY <1>1, <1>13, <1>14, <1>15 DEF Goes
<1> QED
  BY <1>16 DEF q, way, lines

LEMMA EvictGoes ==
  ASSUME NEW cfg, IsMachine(cfg), NEW top \in Nat, NEW h, Contents(cfg, h, top),
         DirtyIsData(cfg, h),
         NEW c \in Caches, NEW addr \in 0 .. top, Find(cfg, h, c, addr) = "free",
         NEW w, Fine(cfg, h, w, Path(cfg, Below(cfg, c)), Min(Evicted(cfg, h, c, addr)), top),
         WritesBack(Lines(cfg, h, c, addr), Victim(Lines(cfg, h, c, addr)), cfg[c]) => Goes(cfg, w)
  PROVE  Goes(cfg, evict(cfg, h, c, addr, w)) /\ Has(cfg, evict(cfg, h, c, addr, w).h, c, addr)
<1>1. evict(cfg, h, c, addr, w) = Replace(cfg, h, c, addr, w, Victim(Lines(cfg, h, c, addr)))
  <2>1. cfg[c].replacement_policy \in {"FIFO", "LRU"}
    BY DEF IsMachine, IsGoodCache
  <2> QED
    BY <2>1 DEF evict, evict_lru, evict_fifo
<1> QED
  BY <1>1, ReplaceGoes

LEMMA HitWrittenGoes ==
  ASSUME NEW cfg, IsMachine(cfg), NEW top \in Nat, NEW c \in Caches, NEW addr \in 0 .. top,
         NEW r, IsAnswer(r), Contents(cfg, r.h, top), Goes(cfg, r)
  PROVE  Goes(cfg, HitWritten(cfg, r, c, addr))
<1> DEFINE g == Use(cfg, r.h, c, addr)
           n == cfg[c].write_latency
           q == Answer(g, n, {})
           next == Count(q, c, "hit_w", 1)
           t == HitWritten(cfg, r, c, addr)
<1>1. n \in Nat
  BY DEF IsMachine, IsGoodCache
<1>2. DirtyIsData(cfg, g)
  <2>1. SameDirt(cfg, r.h, g)
    BY UseStaysDirty
  <2> QED
    BY <2>1, SameDirtIsData DEF Goes
<1> HIDE DEF g, n
<1>3. IsAnswer(q) /\ Goes(cfg, q)
  BY <1>1, <1>2, AnswerContents, AnswerGoes
<1> HIDE DEF q
<1>4. IsAnswer(next) /\ Goes(cfg, next)
  <2>1. <<c, "hit_w">> \in Counters
    BY DEF Counters
  <2> QED
    BY <1>3, <2>1, CountContents, CountGoes
<1>5. t = Then(r, next)
  BY DEF HitWritten, q, n, g
<1> HIDE DEF next, t
<1>6. Goes(cfg, t)
  BY <1>4, <1>5, ThenGoes
<1> QED
  BY <1>6 DEF t

LEMMA WriteHitGoes ==
  ASSUME NEW cfg, IsMachine(cfg), NEW top \in Nat, NEW h, Contents(cfg, h, top),
         DirtyIsData(cfg, h), NEW c \in Caches \ {"l1_i"}, NEW addrs, Min(addrs) \in 0 .. top,
         Find(cfg, h, c, Min(addrs)) = "hit", NEW S, c \in S, OfData(cfg, Min(addrs), S),
         NEW passed, Fine(cfg, h, passed, Path(cfg, Below(cfg, c)), Min(addrs), top),
         Goes(cfg, passed)
  PROVE  Goes(cfg, WriteHit(cfg, h, c, addrs, passed))
<1> DEFINE stored == Stored(cfg, h, c, addrs, passed)
           g == Flag(cfg, h, c, Min(addrs), "dirty", 1)
<1>0. c \in Caches /\ cfg[c].write_policy \in {"through", "back"}
  BY DEF IsMachine, IsGoodCache
<1>1. IsAnswer(stored) /\ Contents(cfg, stored.h, top) /\ Goes(cfg, stored)
  <2>1. CASE cfg[c].write_policy = "through"
    <3>1. stored = passed
      BY <2>1 DEF Stored
    <3> QED
      BY <3>1 DEF Fine, Touches
  <2>2. CASE cfg[c].write_policy = "back"
    <3>1. Has(cfg, h, c, Min(addrs))
      BY <1>0, HitsAreThere
    <3>2. DirtyIsData(cfg, g)
      BY <3>1, FlagDirtyIsData
    <3>3. Legal("dirty", 1, cfg[c])
      BY DEF Legal, Bit
    <3>4. Touches(cfg, h, g, {c}, Min(addrs), top)
      BY <1>0, <3>3, FlagTouches
    <3>5. stored = Answer(g, 0, {})
      BY <2>2 DEF Stored
    <3> HIDE DEF g, stored
    <3>6. IsAnswer(stored) /\ stored.h = g /\ Goes(cfg, stored)
      BY <3>2, <3>5, AnswerContents, AnswerGoes
    <3> QED
      BY <3>4, <3>6 DEF Touches
  <2> QED
    BY <1>0, <2>1, <2>2
<1> HIDE DEF stored
<1>2. Goes(cfg, HitWritten(cfg, stored, c, Min(addrs)))
  BY <1>0, <1>1, HitWrittenGoes
<1> QED
  BY <1>2 DEF WriteHit, stored

LEMMA RepeatedGoes ==
  ASSUME NEW cfg, NEW h, NEW c \in Caches, NEW addrs, NEW w, IsAnswer(w), Goes(cfg, w),
         Find(cfg, h, c, Min(addrs)) = "hit"
  PROVE  Goes(cfg, Repeated(cfg, h, c, addrs, w))
<1> DEFINE p == Count(w, c, "miss_r", -1)
           q == Count(p, c, "hit_w", -1)
<1>1. <<c, "miss_r">> \in Counters /\ <<c, "hit_w">> \in Counters
  BY DEF Counters
<1>2. IsAnswer(p) /\ Goes(cfg, p)
  BY <1>1, CountContents, CountGoes
<1> HIDE DEF p
<1>3. IsAnswer(q) /\ Goes(cfg, q)
  BY <1>1, <1>2, CountContents, CountGoes
<1> HIDE DEF q
<1>4. Goes(cfg, Corrected(w, c))
  BY <1>3, CountGoes DEF Corrected, q, p
<1> QED
  BY <1>4 DEF Repeated, Goes

LEMMA MissWrittenGoes ==
  ASSUME NEW cfg, NEW passed, IsAnswer(passed), Goes(cfg, passed), NEW c
  PROVE  Goes(cfg, MissWritten(passed, c))
BY CountGoes DEF MissWritten

LEMMA WriteInGoes ==
  ASSUME NEW cfg, IsMachine(cfg), NEW top \in Nat, NEW h, Contents(cfg, h, top),
         DirtyIsData(cfg, h), NEW c \in Caches \ {"l1_i"}, cfg[c].write_miss_policy # "allocate",
         NEW addrs, Min(addrs) \in 0 .. top, NEW S, c \in S, OfData(cfg, Min(addrs), S),
         Unused(cfg, h, Min(addrs), S),
         NEW passed, Fine(cfg, h, passed, Path(cfg, Below(cfg, c)), Min(addrs), top),
         Goes(cfg, passed), NEW allocated
  PROVE  Goes(cfg, WriteIn(cfg, h, c, addrs, passed, allocated))
<1> DEFINE outcome == Find(cfg, h, c, Min(addrs))
           r == WriteIn(cfg, h, c, addrs, passed, allocated)
<1>1. outcome \in {"hit", "free", "full"}
  <2>1. outcome \in {"hit", "busy", "free", "full"}
    BY LinesInv, FindOutcomes DEF Find
  <2>2. outcome # "busy"
    BY BusyIsInUse DEF Unused
  <2> QED
    BY <2>1, <2>2
<1>2. CASE outcome = "hit"
  BY <1>2, WriteHitGoes DEF WriteIn
<1>3. CASE outcome \in {"full", "free"}
  <2>1. Goes(cfg, MissWritten(passed, c))
    BY MissWrittenGoes DEF Fine
  <2>2. r = MissWritten(passed, c)
    BY <1>3 DEF WriteIn
  <2> QED
    BY <2>1, <2>2
<1> QED
  BY <1>1, <1>2, <1>3

LEMMA WriteInWaits ==
  ASSUME NEW cfg, IsMachine(cfg), NEW top \in Nat, NEW h, Contents(cfg, h, top),
         DirtyIsData(cfg, h), NEW c \in Caches \ {"l1_i"},
         NEW addrs, Min(addrs) \in 0 .. top, NEW S, c \in S, OfData(cfg, Min(addrs), S),
         Unused(cfg, h, Min(addrs), S),
         NEW passed, Fine(cfg, h, passed, Path(cfg, Below(cfg, c)), Min(addrs), top),
         Goes(cfg, passed), NEW allocated, Waits(cfg, h, allocated)
  PROVE  Waits(cfg, h, WriteIn(cfg, h, c, addrs, passed, allocated))
<1> DEFINE outcome == Find(cfg, h, c, Min(addrs))
           allocates == cfg[c].write_miss_policy = "allocate"
           r == WriteIn(cfg, h, c, addrs, passed, allocated)
<1>1. outcome \in {"hit", "free", "full"}
  <2>1. outcome \in {"hit", "busy", "free", "full"}
    BY LinesInv, FindOutcomes DEF Find
  <2>2. outcome # "busy"
    BY BusyIsInUse DEF Unused
  <2> QED
    BY <2>1, <2>2
<1>2. CASE outcome = "hit"
  <2>1. r = WriteHit(cfg, h, c, addrs, passed)
    BY <1>2 DEF WriteIn
  <2>2. Goes(cfg, WriteHit(cfg, h, c, addrs, passed))
    BY <1>2, WriteHitGoes
  <2> QED
    BY <2>1, <2>2 DEF Goes, Waits
<1>3. CASE outcome \in {"full", "free"} /\ ~allocates
  <2>1. Goes(cfg, MissWritten(passed, c))
    BY MissWrittenGoes DEF Fine
  <2>2. r = MissWritten(passed, c)
    BY <1>3 DEF WriteIn
  <2> QED
    BY <2>1, <2>2 DEF Goes, Waits
<1>4. CASE outcome = "full" /\ allocates
  <2>1. Answer(h, -1, {}).h = h /\ Answer(h, -1, {}).fatal = FALSE
    BY DEF Answer
  <2>2. r = Answer(h, -1, {})
    BY <1>4 DEF WriteIn
  <2> QED
    BY <2>1, <2>2 DEF Waits
<1>5. CASE outcome = "free" /\ allocates
  BY <1>5 DEF WriteIn
<1> QED
  BY <1>1, <1>2, <1>3, <1>4, <1>5

(* Where an access for addr finds the caches of S: its own block is not in *)
(* use, and of the others only blocks of the text.                         *)
Clear(cfg, h, addr, S) ==
  DirtyIsData(cfg, h) /\ TextLocks(cfg, h, addr, S) /\ Unused(cfg, h, addr, S)

LEMMA ToDramGoes ==
  ASSUME NEW cfg, IsMachine(cfg), NEW h, DirtyIsData(cfg, h), NEW addrs
  PROVE  Goes(cfg, ToDram(cfg, h, addrs))
BY AnswerGoes DEF ToDram, IsMachine

LEMMA FromDramWaits ==
  ASSUME NEW cfg, IsMachine(cfg), NEW h, DirtyIsData(cfg, h)
  PROVE  Waits(cfg, h, FromDram(cfg, h))
<1>1. Goes(cfg, FromDram(cfg, h))
  BY AnswerGoes DEF FromDram, IsMachine
<1> QED
  BY <1>1 DEF Goes, Waits

LEMMA ClearBelow ==
  ASSUME NEW cfg, NEW h, NEW addr, NEW c \in Caches, Clear(cfg, h, addr, Path(cfg, c))
  PROVE  Clear(cfg, h, addr, Path(cfg, Below(cfg, c)))
<1>1. Path(cfg, Below(cfg, c)) \subseteq Path(cfg, c)
  BY PathFacts
<1> QED
  BY <1>1 DEF Clear, TextLocks, Unused

(* What comes from below locks its own block.                              *)
LEMMA FetchedIsClear ==
  ASSUME NEW cfg, NEW top, NEW h, NEW c \in Caches, NEW addr, NEW r,
         Fine(cfg, h, r, Path(cfg, Below(cfg, c)), addr, top), Waits(cfg, h, r),
         Clear(cfg, h, addr, Path(cfg, c)), Find(cfg, h, c, addr) = "free"
  PROVE  /\ Contents(cfg, r.h, top) /\ DirtyIsData(cfg, r.h)
         /\ TextLocks(cfg, r.h, addr, Path(cfg, Below(cfg, c)))
         /\ Find(cfg, r.h, c, addr) = "free"
<1> DEFINE P == Path(cfg, Below(cfg, c))
<1>1. P \subseteq Path(cfg, c) /\ P \subseteq Caches /\ c \notin P
  BY PathFacts
<1> HIDE DEF P
<1>2. r.h[c] = h[c]
  BY <1>1 DEF Fine, Touches, P
<1>3. \A d \in P : InUse(r.h, d) \subseteq {BlockAddr(x, cfg[d]) : x \in cfg.text \cup {addr}}
  <2> SUFFICES ASSUME NEW d \in P, NEW b \in InUse(r.h, d)
               PROVE  \E x \in cfg.text \cup {addr} : b = BlockAddr(x, cfg[d])
    OBVIOUS
  <2>1. b \in InUse(h, d) \/ b = BlockAddr(addr, cfg[d])
    BY <1>1 DEF Fine, Touches
  <2>2. InUse(h, d) \subseteq {BlockAddr(x, cfg[d]) : x \in cfg.text \cup {addr}}
    BY <1>1 DEF Clear, TextLocks
  <2> QED
    BY <2>1, <2>2
<1>4. Find(cfg, r.h, c, addr) = "free"
  BY <1>2 DEF Find, Lines
<1> QED
  BY <1>3, <1>4 DEF Fine, Touches, Waits, TextLocks, P

LEMMA ThirdEvictGoes ==
  ASSUME NEW cfg, IsMachine(cfg), NEW top \in Nat, Separates(cfg, top),
         NEW h, Contents(cfg, h, top), DirtyIsData(cfg, h),
         NEW addr \in cfg.text \cup Data(cfg),
         Find(cfg, h, "l3", addr) = "free",
         TextLocks(cfg, h, addr, Path(cfg, Below(cfg, "l3")))
  PROVE  /\ Goes(cfg, l3_evict(cfg, h, addr))
         /\ Has(cfg, l3_evict(cfg, h, addr).h, "l3", addr)
<1> DEFINE w == ToDram(cfg, h, Evicted(cfg, h, "l3", addr))
           block == Evicted(cfg, h, "l3", addr)
           P == Path(cfg, Below(cfg, "l3"))
           lines == Lines(cfg, h, "l3", addr)
           back == WritesBack(lines, Victim(lines), cfg["l3"])
<1>0. "l3" \in Caches /\ addr \in 0 .. top
  BY DEF Caches, Separates, Addresses, Data
<1>1. Min(block) \in 0 .. top
  BY <1>0, EvictedIsABlock
<1>2. back => Unused(cfg, h, Min(block), P) /\ OfData(cfg, Min(block), P)
  BY <1>0, WrittenBackIsUnused
<1>3. w = ToDram(cfg, h, block)
  OBVIOUS
<1> HIDE DEF w, block, back, lines
<1>4. Fine(cfg, h, w, P, Min(block), top)
  BY <1>0, <1>1, <1>3, ToDramIsFine
<1>5. back => Goes(cfg, w)
  BY <1>0, <1>1, <1>2, <1>3, ToDramGoes
<1>6. /\ Goes(cfg, evict(cfg, h, "l3", addr, w))
      /\ Has(cfg, evict(cfg, h, "l3", addr, w).h, "l3", addr)
  BY <1>0, <1>4, <1>5, EvictGoes DEF back, block, lines
<1> QED
  BY <1>6 DEF l3_evict, w

LEMMA ThirdReadBrings ==
  ASSUME NEW cfg, IsMachine(cfg), NEW top \in Nat, Separates(cfg, top),
         NEW h, Contents(cfg, h, top),
         NEW addr \in cfg.text \cup Data(cfg),
         Clear(cfg, h, addr, Path(cfg, "l3"))
  PROVE  Brings(cfg, h, l3_read(cfg, h, addr), "l3", addr)
<1> DEFINE r == FromDram(cfg, h)
           next == l3_evict(cfg, r.h, addr)
           placed == l3_placed(cfg, r, addr)
<1>0. /\ "l3" \in Caches /\ addr \in 0 .. top
      /\ DirtyIsData(cfg, h) /\ BlockAddr(addr, cfg["l3"]) \notin InUse(h, "l3")
  BY PathFacts DEF Caches, Separates, Addresses, Data, Clear, Unused
<1>1. Fine(cfg, h, r, Path(cfg, Below(cfg, "l3")), addr, top) /\ Waits(cfg, h, r)
  <2>1. Clear(cfg, h, addr, Path(cfg, Below(cfg, "l3")))
    BY <1>0, ClearBelow
  <2> QED
    BY <1>0, <2>1, FromDramIsFine, FromDramWaits
<1> HIDE DEF r
<1>2. ASSUME Find(cfg, h, "l3", addr) = "free"
      PROVE  IsAnswer(placed) /\ Brings(cfg, h, placed, "l3", addr)
  <2>1. /\ Contents(cfg, r.h, top) /\ DirtyIsData(cfg, r.h)
        /\ TextLocks(cfg, r.h, addr, Path(cfg, Below(cfg, "l3")))
        /\ Find(cfg, r.h, "l3", addr) = "free"
    BY <1>0, <1>1, <1>2, FetchedIsClear
  <2>2. Fine(cfg, r.h, next, Path(cfg, "l3"), addr, top)
    BY <1>0, <2>1, ThirdEvictIsFine
  <2>3. Goes(cfg, next) /\ Has(cfg, next.h, "l3", addr)
    BY <2>1, ThirdEvictGoes
  <2> HIDE DEF next
  <2>4. Brings(cfg, h, Then(r, next), "l3", addr)
    BY <1>1, <2>2, <2>3, ThenBrings DEF Fine
  <2>5. IsAnswer(Then(r, next))
    <3>1. Fine(cfg, h, r, Path(cfg, "l3"), addr, top)
      BY <1>0, <1>1, PathFacts, FineOfMore
    <3>2. Fine(cfg, h, Then(r, next), Path(cfg, "l3"), addr, top)
      BY <2>2, <3>1, ThenIsFine
    <3> QED
      BY <3>2 DEF Fine
  <2> QED
    BY <2>4, <2>5 DEF l3_placed, next
<1> HIDE DEF placed
<1>3. Brings(cfg, h, ReadIn(cfg, h, "l3", addr, placed), "l3", addr)
  BY <1>0, <1>2, ReadInBrings
<1> QED
  BY <1>3 DEF l3_read, placed, r

LEMMA ThirdWriteGoes ==
  ASSUME NEW cfg, IsMachine(cfg), NEW top \in Nat, Separates(cfg, top),
         NEW h, Contents(cfg, h, top), DirtyIsData(cfg, h),
         cfg["l3"].write_miss_policy # "allocate", NEW addrs, Min(addrs) \in 0 .. top,
         Unused(cfg, h, Min(addrs), Path(cfg, "l3")), OfData(cfg, Min(addrs), Path(cfg, "l3"))
  PROVE  Goes(cfg, l3_write(cfg, h, addrs))
<1> DEFINE P == Path(cfg, Below(cfg, "l3"))
           S == Path(cfg, "l3")
           passed == ToDram(cfg, h, addrs)
           allocated == l3_allocated(cfg, l3_read(cfg, h, Min(addrs)), addrs)
<1>0. "l3" \in Caches /\ "l3" \in Caches \ {"l1_i"} /\ P \subseteq S /\ "l3" \in S
  BY PathFacts DEF Caches
<1> HIDE DEF P, S
<1>1. Unused(cfg, h, Min(addrs), P) /\ OfData(cfg, Min(addrs), P)
  BY <1>0 DEF Unused, OfData, S
<1>2. Fine(cfg, h, passed, P, Min(addrs), top) /\ Goes(cfg, passed)
  BY <1>0, <1>1, ToDramIsFine, ToDramGoes DEF P
<1> HIDE DEF passed, allocated
<1>3. Goes(cfg, WriteIn(cfg, h, "l3", addrs, passed, allocated))
  BY <1>0, <1>2, WriteInGoes DEF P, S
<1> QED
  BY <1>3 DEF l3_write, passed, allocated

LEMMA SecondFetchWaits ==
  ASSUME NEW cfg, IsMachine(cfg), NEW top \in Nat, Separates(cfg, top),
         NEW h, Contents(cfg, h, top),
         NEW addr \in cfg.text \cup Data(cfg),
         Clear(cfg, h, addr, Path(cfg, Below(cfg, "l2")))
  PROVE  Waits(cfg, h, l2_fetch(cfg, h, addr))
<1>1. Below(cfg, "l2") \in {"l3", "dram"}
  BY BelowFacts
<1>2. CASE Below(cfg, "l2") = "l3"
  BY <1>2, ThirdReadBrings DEF l2_fetch, Brings
<1>3. CASE Below(cfg, "l2") = "dram"
  BY <1>3, FromDramWaits DEF l2_fetch, Clear
<1> QED
  BY <1>1, <1>2, <1>3

LEMMA SecondPassGoes ==
  ASSUME NEW cfg, IsMachine(cfg), NEW top \in Nat, Separates(cfg, top),
         NEW h, Contents(cfg, h, top), DirtyIsData(cfg, h), NEW addrs,
         Min(addrs) \in 0 .. top, Unused(cfg, h, Min(addrs), Path(cfg, Below(cfg, "l2"))),
         OfData(cfg, Min(addrs), Path(cfg, Below(cfg, "l2")))
  PROVE  Goes(cfg, l2_pass(cfg, h, addrs))
<1>0. "l3" \in Caches /\ "l2" \in Caches
  BY DEF Caches
<1>1. Below(cfg, "l2") \in {"l3", "dram"}
  BY BelowFacts
<1>2. CASE Below(cfg, "l2") = "l3"
  <2>1. cfg["l3"].write_miss_policy # "allocate"
    BY <1>0, <1>2 DEF Separates, Bypasses
  <2> QED
    BY <1>2, <2>1, ThirdWriteGoes DEF l2_pass
<1>3. CASE Below(cfg, "l2") = "dram"
  BY <1>3, ToDramGoes DEF l2_pass
<1> QED
  BY <1>1, <1>2, <1>3

LEMMA SecondEvictGoes ==
  ASSUME NEW cfg, IsMachine(cfg), NEW top \in Nat, Separates(cfg, top),
         NEW h, Contents(cfg, h, top), DirtyIsData(cfg, h),
         NEW addr \in cfg.text \cup Data(cfg),
         Find(cfg, h, "l2", addr) = "free",
         TextLocks(cfg, h, addr, Path(cfg, Below(cfg, "l2")))
  PROVE  /\ Goes(cfg, l2_evict(cfg, h, addr))
         /\ Has(cfg, l2_evict(cfg, h, addr).h, "l2", addr)
<1> DEFINE w == l2_pass(cfg, h, Evicted(cfg, h, "l2", addr))
           block == Evicted(cfg, h, "l2", addr)
           P == Path(cfg, Below(cfg, "l2"))
           lines == Lines(cfg, h, "l2", addr)
           back == WritesBack(lines, Victim(lines), cfg["l2"])
<1>0. "l2" \in Caches /\ addr \in 0 .. top
  BY DEF Caches, Separates, Addresses, Data
<1>1. Min(block) \in 0 .. top
  BY <1>0, EvictedIsABlock
<1>2. back => Unused(cfg, h, Min(block), P) /\ OfData(cfg, Min(block), P)
  BY <1>0, WrittenBackIsUnused
<1>3. w = l2_pass(cfg, h, block)
  OBVIOUS
<1> HIDE DEF w, block, back, lines
<1>4. Fine(cfg, h, w, P, Min(block), top)
  BY <1>0, <1>1, <1>3, SecondPassIsFine
<1>5. back => Goes(cfg, w)
  BY <1>0, <1>1, <1>2, <1>3, SecondPassGoes
<1>6. /\ Goes(cfg, evict(cfg, h, "l2", addr, w))
      /\ Has(cfg, evict(cfg, h, "l2", addr, w).h, "l2", addr)
  BY <1>0, <1>4, <1>5, EvictGoes DEF back, block, lines
<1> QED
  BY <1>6 DEF l2_evict, w

LEMMA SecondReadBrings ==
  ASSUME NEW cfg, IsMachine(cfg), NEW top \in Nat, Separates(cfg, top),
         NEW h, Contents(cfg, h, top),
         NEW addr \in cfg.text \cup Data(cfg),
         Clear(cfg, h, addr, Path(cfg, "l2"))
  PROVE  Brings(cfg, h, l2_read(cfg, h, addr), "l2", addr)
<1> DEFINE r == l2_fetch(cfg, h, addr)
           next == l2_evict(cfg, r.h, addr)
           placed == l2_placed(cfg, r, addr)
<1>0. /\ "l2" \in Caches /\ addr \in 0 .. top
      /\ DirtyIsData(cfg, h) /\ BlockAddr(addr, cfg["l2"]) \notin InUse(h, "l2")
  BY PathFacts DEF Caches, Separates, Addresses, Data, Clear, Unused
<1>1. Fine(cfg, h, r, Path(cfg, Below(cfg, "l2")), addr, top) /\ Waits(cfg, h, r)
  <2>1. Clear(cfg, h, addr, Path(cfg, Below(cfg, "l2")))
    BY <1>0, ClearBelow
  <2> QED
    BY <1>0, <2>1, SecondFetchIsFine, SecondFetchWaits
<1> HIDE DEF r
<1>2. ASSUME Find(cfg, h, "l2", addr) = "free"
      PROVE  IsAnswer(placed) /\ Brings(cfg, h, placed, "l2", addr)
  <2>1. /\ Contents(cfg, r.h, top) /\ DirtyIsData(cfg, r.h)
        /\ TextLocks(cfg, r.h, addr, Path(cfg, Below(cfg, "l2")))
        /\ Find(cfg, r.h, "l2", addr) = "free"
    BY <1>0, <1>1, <1>2, FetchedIsClear
  <2>2. Fine(cfg, r.h, next, Path(cfg, "l2"), addr, top)
    BY <1>0, <2>1, SecondEvictIsFine
  <2>3. Goes(cfg, next) /\ Has(cfg, next.h, "l2", addr)
    BY <2>1, SecondEvictGoes
  <2> HIDE DEF next
  <2>4. Brings(cfg, h, Then(r, next), "l2", addr)
    BY <1>1, <2>2, <2>3, ThenBrings DEF Fine
  <2>5. IsAnswer(Then(r, next))
    <3>1. Fine(cfg, h, r, Path(cfg, "l2"), addr, top)
      BY <1>0, <1>1, PathFacts, FineOfMore
    <3>2. Fine(cfg, h, Then(r, next), Path(cfg, "l2"), addr, top)
      BY <2>2, <3>1, ThenIsFine
    <3> QED
      BY <3>2 DEF Fine
  <2> QED
    BY <2>4, <2>5 DEF l2_placed, next
<1> HIDE DEF placed
<1>3. Brings(cfg, h, ReadIn(cfg, h, "l2", addr, placed), "l2", addr)
  BY <1>0, <1>2, ReadInBrings
<1> QED
  BY <1>3 DEF l2_read, placed, r

LEMMA SecondWriteGoes ==
  ASSUME NEW cfg, IsMachine(cfg), NEW top \in Nat, Separates(cfg, top),
         NEW h, Contents(cfg, h, top), DirtyIsData(cfg, h),
         cfg["l2"].write_miss_policy # "allocate", NEW addrs, Min(addrs) \in 0 .. top,
         Unused(cfg, h, Min(addrs), Path(cfg, "l2")), OfData(cfg, Min(addrs), Path(cfg, "l2"))
  PROVE  Goes(cfg, l2_write(cfg, h, addrs))
<1> DEFINE P == Path(cfg, Below(cfg, "l2"))
           S == Path(cfg, "l2")
           passed == l2_pass(cfg, h, addrs)
           allocated == l2_allocated(cfg, l2_read(cfg, h, Min(addrs)), addrs)
<1>0. "l2" \in Caches /\ "l2" \in Caches \ {"l1_i"} /\ P \subseteq S /\ "l2" \in S
  BY PathFacts DEF Caches
<1> HIDE DEF P, S
<1>1. Unused(cfg, h, Min(addrs), P) /\ OfData(cfg, Min(addrs), P)
  BY <1>0 DEF Unused, OfData, S
<1>2. Fine(cfg, h, passed, P, Min(addrs), top) /\ Goes(cfg, passed)
  BY <1>0, <1>1, SecondPassIsFine, SecondPassGoes DEF P
<1> HIDE DEF passed, allocated
<1>3. Goes(cfg, WriteIn(cfg, h, "l2", addrs, passed, allocated))
  BY <1>0, <1>2, WriteInGoes DEF P, S
<1> QED
  BY <1>3 DEF l2_write, passed, allocated

LEMMA FirstFetchWaits ==
  ASSUME NEW cfg, IsMachine(cfg), NEW top \in Nat, Separates(cfg, top),
         NEW h, Contents(cfg, h, top), NEW c \in {"l1_i", "l1_d"},
         NEW addr \in cfg.text \cup Data(cfg),
         Clear(cfg, h, addr, Path(cfg, Below(cfg, c)))
  PROVE  Waits(cfg, h, l1_fetch(cfg, h, c, addr))
<1>1. Below(cfg, c) \in {"l2", "dram"}
  BY BelowFacts
<1>2. CASE Below(cfg, c) = "l2"
  BY <1>2, SecondReadBrings DEF l1_fetch, Brings
<1>3. CASE Below(cfg, c) = "dram"
  BY <1>3, FromDramWaits DEF l1_fetch, Clear
<1> QED
  BY <1>1, <1>2, <1>3

LEMMA FirstPassGoes ==
  ASSUME NEW cfg, IsMachine(cfg), NEW top \in Nat, Separates(cfg, top),
         NEW h, Contents(cfg, h, top), DirtyIsData(cfg, h), NEW c \in {"l1_i", "l1_d"}, NEW addrs,
         Min(addrs) \in 0 .. top, Unused(cfg, h, Min(addrs), Path(cfg, Below(cfg, c))),
         OfData(cfg, Min(addrs), Path(cfg, Below(cfg, c)))
  PROVE  Goes(cfg, l1_pass(cfg, h, c, addrs))
<1>0. "l2" \in Caches /\ c \in Caches
  BY DEF Caches
<1>1. Below(cfg, c) \in {"l2", "dram"}
  BY BelowFacts
<1>2. CASE Below(cfg, c) = "l2"
  <2>1. cfg["l2"].write_miss_policy # "allocate"
    BY <1>0, <1>2 DEF Separates, Bypasses
  <2> QED
    BY <1>2, <2>1, SecondWriteGoes DEF l1_pass
<1>3. CASE Below(cfg, c) = "dram"
  BY <1>3, ToDramGoes DEF l1_pass
<1> QED
  BY <1>1, <1>2, <1>3

LEMMA FirstEvictGoes ==
  ASSUME NEW cfg, IsMachine(cfg), NEW top \in Nat, Separates(cfg, top),
         NEW h, Contents(cfg, h, top), DirtyIsData(cfg, h), NEW c \in {"l1_i", "l1_d"},
         NEW addr \in cfg.text \cup Data(cfg),
         Find(cfg, h, c, addr) = "free",
         TextLocks(cfg, h, addr, Path(cfg, Below(cfg, c)))
  PROVE  /\ Goes(cfg, l1_evict(cfg, h, c, addr))
         /\ Has(cfg, l1_evict(cfg, h, c, addr).h, c, addr)
<1> DEFINE w == l1_pass(cfg, h, c, Evicted(cfg, h, c, addr))
           block == Evicted(cfg, h, c, addr)
           P == Path(cfg, Below(cfg, c))
           lines == Lines(cfg, h, c, addr)
           back == WritesBack(lines, Victim(lines), cfg[c])
<1>0. c \in Caches /\ addr \in 0 .. top
  BY DEF Caches, Separates, Addresses, Data
<1>1. Min(block) \in 0 .. top
  BY <1>0, EvictedIsABlock
<1>2. back => Unused(cfg, h, Min(block), P) /\ OfData(cfg, Min(block), P)
  BY <1>0, WrittenBackIsUnused
<1>3. w = l1_pass(cfg, h, c, block)
  OBVIOUS
<1> HIDE DEF w, block, back, lines
<1>4. Fine(cfg, h, w, P, Min(block), top)
  BY <1>0, <1>1, <1>3, FirstPassIsFine
<1>5. back => Goes(cfg, w)
  BY <1>0, <1>1, <1>2, <1>3, FirstPassGoes
<1>6. /\ Goes(cfg, evict(cfg, h, c, addr, w))
      /\ Has(cfg, evict(cfg, h, c, addr, w).h, c, addr)
  BY <1>0, <1>4, <1>5, EvictGoes DEF back, block, lines
<1> QED
  BY <1>6 DEF l1_evict, w

LEMMA FirstReadBrings ==
  ASSUME NEW cfg, IsMachine(cfg), NEW top \in Nat, Separates(cfg, top),
         NEW h, Contents(cfg, h, top), NEW c \in {"l1_i", "l1_d"},
         NEW addr \in cfg.text \cup Data(cfg),
         Clear(cfg, h, addr, Path(cfg, c))
  PROVE  Brings(cfg, h, l1_read(cfg, h, c, addr), c, addr)
<1> DEFINE r == l1_fetch(cfg, h, c, addr)
           next == l1_evict(cfg, r.h, c, addr)
           placed == l1_placed(cfg, r, c, addr)
<1>0. /\ c \in Caches /\ addr \in 0 .. top
      /\ DirtyIsData(cfg, h) /\ BlockAddr(addr, cfg[c]) \notin InUse(h, c)
  BY PathFacts DEF Caches, Separates, Addresses, Data, Clear, Unused
<1>1. Fine(cfg, h, r, Path(cfg, Below(cfg, c)), addr, top) /\ Waits(cfg, h, r)
  <2>1. Clear(cfg, h, addr, Path(cfg, Below(cfg, c)))
    BY <1>0, ClearBelow
  <2> QED
    BY <1>0, <2>1, FirstFetchIsFine, FirstFetchWaits
<1> HIDE DEF r
<1>2. ASSUME Find(cfg, h, c, addr) = "free"
      PROVE  IsAnswer(placed) /\ Brings(cfg, h, placed, c, addr)
  <2>1. /\ Contents(cfg, r.h, top) /\ DirtyIsData(cfg, r.h)
        /\ TextLocks(cfg, r.h, addr, Path(cfg, Below(cfg, c)))
        /\ Find(cfg, r.h, c, addr) = "free"
    BY <1>0, <1>1, <1>2, FetchedIsClear
  <2>2. Fine(cfg, r.h, next, Path(cfg, c), addr, top)
    BY <1>0, <2>1, FirstEvictIsFine
  <2>3. Goes(cfg, next) /\ Has(cfg, next.h, c, addr)
    BY <2>1, FirstEvictGoes
  <2> HIDE DEF next
  <2>4. Brings(cfg, h, Then(r, next), c, addr)
    BY <1>1, <2>2, <2>3, ThenBrings DEF Fine
  <2>5. IsAnswer(Then(r, next))
    <3>1. Fine(cfg, h, r, Path(cfg, c), addr, top)
      BY <1>0, <1>1, PathFacts, FineOfMore
    <3>2. Fine(cfg, h, Then(r, next), Path(cfg, c), addr, top)
      BY <2>2, <3>1, ThenIsFine
    <3> QED
      BY <3>2 DEF Fine
  <2> QED
    BY <2>4, <2>5 DEF l1_placed, next
<1> HIDE DEF placed
<1>3. Brings(cfg, h, ReadIn(cfg, h, c, addr, placed), c, addr)
  BY <1>0, <1>2, ReadInBrings
<1> QED
  BY <1>3 DEF l1_read, placed, r

LEMMA FirstWriteWaits ==
  ASSUME NEW cfg, IsMachine(cfg), NEW top \in Nat, Separates(cfg, top),
         NEW h, Contents(cfg, h, top), NEW addrs, Min(addrs) \in Data(cfg),
         Clear(cfg, h, Min(addrs), Path(cfg, "l1_d"))
  PROVE  Waits(cfg, h, l1_write(cfg, h, "l1_d", addrs))
<1> DEFINE addr == Min(addrs)
           S == Path(cfg, "l1_d")
           P == Path(cfg, Below(cfg, "l1_d"))
           passed == l1_pass(cfg, h, "l1_d", addrs)
           r == l1_read(cfg, h, "l1_d", addr)
           g == Done(cfg, r.h, "l1_d", addr)
           again_passed == l1_pass(cfg, g, "l1_d", addrs)
           hit == WriteHit(cfg, g, "l1_d", addrs, again_passed)
           again == l1_again(cfg, g, "l1_d", addrs)
           allocated == l1_allocated(cfg, r, "l1_d", addrs)
<1>0. /\ "l1_d" \in Caches \ {"l1_i"} /\ "l1_d" \in {"l1_i", "l1_d"} /\ "l1_d" \in Caches
      /\ addr \in 0 .. top /\ addr \in cfg.text \cup Data(cfg)
  BY DEF Caches, Separates, Addresses, Data
<1>1. P \subseteq S /\ "l1_d" \in S
  BY <1>0, PathFacts
<1>2. OfData(cfg, addr, S) /\ OfData(cfg, addr, P)
  BY DEF OfData
<1>3. Unused(cfg, h, addr, S) /\ Unused(cfg, h, addr, P) /\ DirtyIsData(cfg, h)
  BY <1>1 DEF Clear, Unused
<1> HIDE DEF P, S
<1>4. Fine(cfg, h, passed, P, addr, top) /\ Goes(cfg, passed)
  BY <1>0, <1>2, <1>3, FirstPassIsFine, FirstPassGoes DEF P
<1>5. Fine(cfg, h, r, S, addr, top) /\ Brings(cfg, h, r, "l1_d", addr)
  BY <1>0, FirstReadIsFine, FirstReadBrings DEF S
<1> HIDE DEF r, passed
<1>6. Contents(cfg, r.h, top) /\ IsAnswer(r) /\ DirtyIsData(cfg, r.h)
  BY <1>5 DEF Fine, Touches, Brings, Waits
<1>7. Contents(cfg, g, top) /\ Unused(cfg, g, addr, S) /\ Unused(cfg, g, addr, P)
  <2>1. Frees(cfg, r.h, g, S, addr, top)
    BY <1>0, <1>6, DoneFrees DEF S
  <2> QED
    BY <1>1, <2>1 DEF Frees, Unused
<1>8. SameDirt(cfg, r.h, g) /\ DirtyIsData(cfg, g)
  BY <1>0, <1>6, DoneStaysDirty, SameDirtIsData
<1> HIDE DEF g
<1>9. Fine(cfg, g, again_passed, P, addr, top) /\ Goes(cfg, again_passed)
  BY <1>0, <1>2, <1>7, <1>8, FirstPassIsFine, FirstPassGoes DEF P
<1> HIDE DEF again_passed
<1>10. Fine(cfg, g, hit, S, addr, top)
  BY <1>0, <1>7, <1>9, WriteHitIsFine DEF P, S
<1>11. ASSUME r.stalls # -1
       PROVE  Find(cfg, g, "l1_d", addr) = "hit" /\ Goes(cfg, hit)
  <2>1. Has(cfg, g, "l1_d", addr)
    BY <1>0, <1>5, <1>6, <1>7, <1>8, <1>11, StillThere DEF Brings
  <2>2. Find(cfg, g, "l1_d", addr) = "hit"
    BY <1>0, <1>1, <1>7, <2>1, UnusedHits DEF Unused
  <2>3. Goes(cfg, hit)
    BY <1>0, <1>1, <1>2, <1>7, <1>8, <1>9, <2>2, WriteHitGoes DEF P
  <2> QED
    BY <2>2, <2>3
<1> HIDE DEF hit
<1>12. again = Repeated(cfg, g, "l1_d", addrs, hit)
  BY DEF l1_again, hit, again_passed
<1>13. IsAnswer(again)
  <2>1. Fine(cfg, g, again, S, addr, top)
    BY <1>0, <1>7, <1>10, <1>12, RepeatedIsFine DEF S
  <2> QED
    BY <2>1 DEF Fine
<1>14. r.stalls # -1 => Goes(cfg, again)
  <2>1. IsAnswer(hit)
    BY <1>10 DEF Fine
  <2> QED
    BY <1>0, <1>11, <1>12, <2>1, RepeatedGoes
<1> HIDE DEF again
<1>15. Waits(cfg, h, Then(r, again))
  BY <1>5, <1>6, <1>13, <1>14, ThenWaits DEF Brings
<1>16. Waits(cfg, h, allocated)
  BY <1>15 DEF l1_allocated, again, g
<1> HIDE DEF allocated
<1>17. Waits(cfg, h, WriteIn(cfg, h, "l1_d", addrs, passed, allocated))
  BY <1>0, <1>1, <1>2, <1>3, <1>4, <1>16, WriteInWaits DEF P
<1> QED
  BY <1>17 DEF l1_write, passed, allocated, r

-----------------------------------------------------------------------------
(* The two ports, when no access ends the program *)

(* What an access asks the caches for, if it does not wait for them.       *)
Running(c) ==
  (IF counter.i >= 0 THEN FetchHeld(c) ELSE {}) \cup
  (IF counter[access.port] >= 0 THEN DataHeld(c) ELSE {})

(* A refused access locks nothing, and MA has completed when IF fetches.   *)
RunInv ==
  /\ status = "running"
  /\ DirtyIsData(config, caches)
  /\ phase # "MA" => mfc = "COMPLETED"
  /\ \A c \in Caches : InUse(caches, c) \subseteq {BlockAddr(x, config[c]) : x \in Running(c)}

LEMMA AttemptRuns ==
  ASSUME NEW c \in {-2, -1} \cup Nat, NEW lat \in {-1} \cup Nat
  PROVE  /\ Attempt(c, lat).result # "fatal"
         /\ Attempt(c, lat).result = "pending" /\ Attempt(c, lat).counter < 0
              => c < 0 /\ lat = -1
<1> DEFINE n == IF c < 0 THEN lat - 1 ELSE c
<1>1. n \in {-2, -1} \cup Nat
  OBVIOUS
<1>2. CASE n > 0
  BY <1>1, <1>2 DEF Attempt
<1>3. CASE n = 0
  BY <1>3 DEF Attempt
<1>4. CASE n = -1
  BY <1>4 DEF Attempt
<1>5. CASE n < -1
  <2>1. c < 0 /\ lat = -1
    BY <1>5
  <2> QED
    BY <1>1, <1>5, <2>1 DEF Attempt
<1> QED
  BY <1>1, <1>2, <1>3, <1>4, <1>5

(* What a call of a port does, if the caches do not end the program.       *)
RunningCall(port, call) ==
  /\ call.result # "fatal" /\ DirtyIsData(config, call.h)
  /\ \A p \in {"i", "r", "w"} \ {port} : call.counter[p] = counter[p]
  /\ call.result = "pending" /\ call.counter[port] < 0 => call.h = caches /\ counter[port] < 0

LEMMA CallRuns ==
  ASSUME CachesInv, DirtyIsData(config, caches), NEW port \in {"i", "r", "w"}, NEW addr, NEW asked,
         counter[port] < 0 => IsAnswer(asked) /\ Waits(config, caches, asked)
  PROVE  RunningCall(port, Call(port, addr, asked))
<1> DEFINE r == IF counter[port] < 0 THEN asked ELSE Answer(caches, 1, {})
           attempt == Attempt(counter[port], r.stalls)
           call == Call(port, addr, asked)
<1>1. /\ ~r.fatal /\ DirtyIsData(config, r.h) /\ r.stalls \in {-1} \cup Nat
      /\ r.stalls = -1 => r.h = caches
  <2>1. CASE counter[port] < 0
    BY <2>1 DEF Waits, IsAnswer
  <2>2. CASE ~(counter[port] < 0)
    BY <2>2 DEF Answer
  <2> QED
    BY <2>1, <2>2
<1>2. counter[port] \in {-2, -1} \cup Nat /\ DOMAIN counter = {"i", "r", "w"}
  BY DEF CachesInv, PortsInv
<1>3. call = Outcome(port, addr, r, attempt)
  BY DEF Call, Attempted
<1>4. /\ attempt.result # "fatal"
      /\ attempt.result = "pending" /\ attempt.counter < 0 => counter[port] < 0 /\ r.stalls = -1
  BY <1>1, <1>2, AttemptRuns
<1> HIDE DEF r, attempt, call
<1>5. /\ call.h = r.h /\ call.counter = [counter EXCEPT ![port] = attempt.counter]
      /\ call.result = attempt.result
  BY <1>1, <1>3 DEF Outcome
<1>6. RunningCall(port, call)
  <2>1. call.counter[port] = attempt.counter
        /\ \A p \in {"i", "r", "w"} \ {port} : call.counter[p] = counter[p]
    BY <1>2, <1>5
  <2> QED
    BY <1>1, <1>4, <1>5, <2>1 DEF RunningCall
<1> QED
  BY <1>6 DEF call

LEMMA CachelessWaits ==
  ASSUME CachesInv, DirtyIsData(config, caches), NEW saved
  PROVE  \A n \in {1, config.DRAM_READ_LATENCY, config.DRAM_WRITE_LATENCY} :
           Waits(config, caches, Answer(caches, n, saved))
<1> TAKE n \in {1, config.DRAM_READ_LATENCY, config.DRAM_WRITE_LATENCY}
<1>1. n \in Nat
  BY MachineFacts DEF CachesInv, IsMachine
<1>2. Goes(config, Answer(caches, n, saved))
  BY <1>1, AnswerGoes
<1> QED
  BY <1>2 DEF Goes, Waits

(* An access of MA finds the blocks of a fetch in use, and no others.      *)
LEMMA DataIsClear ==
  ASSUME CachesInv, RunInv, Separates(config, Top), NEW a \in NextAccesses, counter[a.port] < 0
  PROVE  Clear(config, caches, a.addr, Path(config, "l1_d"))
<1> DEFINE P == Path(config, "l1_d")
<1>1. a \in Accesses /\ (mfc = "NOT_COMPLETED" => access = a) /\ a.addr \in Data(config)
  BY DEF NextAccesses, Accesses, Data, CachesInv, PortsInv
<1>2. P \subseteq Caches /\ \A d \in P \ {"l1_d"} : d \in Path(config, Below(config, "l1_d"))
  BY PathFacts DEF Caches
<1> HIDE DEF P
<1>3. ASSUME NEW d \in P, NEW b \in InUse(caches, d)
      PROVE  \E x \in config.text : b = BlockAddr(x, config[d]) /\ b # BlockAddr(a.addr, config[d])
  <2>0. d \in Caches /\ counter[a.port] \in {-2, -1} \cup Nat
    BY <1>1, <1>2, <1>3 DEF Accesses, CachesInv, PortsInv
  <2>1. PICK x \in Running(d) : b = BlockAddr(x, config[d])
    BY <1>3, <2>0 DEF RunInv
  <2>2. x \in FetchHeld(d)
    <3>1. counter[access.port] >= 0 => DataHeld(d) = {}
      <4>1. CASE mfc = "NOT_COMPLETED"
        BY <1>1, <2>0, <4>1
      <4>2. CASE mfc # "NOT_COMPLETED"
        BY <4>2 DEF DataHeld
      <4> QED
        BY <4>1, <4>2
    <3> QED
      BY <2>1, <3>1 DEF Running
  <2>3. x = mar_i /\ x \in config.text /\ d \in Path(config, First(config, "l1_i"))
    BY <2>2 DEF FetchHeld, CachesInv, PortsInv
  <2>4. d # "l1_d"
    BY <2>3, BelowFacts DEF Path, First, Caches
  <2>5. b # BlockAddr(a.addr, config[d])
    BY <1>1, <1>2, <2>1, <2>3, <2>4 DEF Separates, Apart
  <2> QED
    BY <2>1, <2>3, <2>5
<1>4. TextLocks(config, caches, a.addr, P)
  BY <1>3 DEF TextLocks
<1>5. Unused(config, caches, a.addr, P)
  BY <1>3 DEF Unused
<1> QED
  BY <1>4, <1>5 DEF Clear, RunInv, P

LEMMA DataCallRuns ==
  ASSUME CachesInv, RunInv, Separates(config, Top), NEW a \in NextAccesses
  PROVE  RunningCall(a.port, DataCall(a))
<1>1. a \in Accesses /\ a.port \in {"r", "w"} /\ a.addr \in Data(config) /\ a.addr \in 0 .. Top
      /\ DirtyIsData(config, caches) /\ Contents(config, caches, Top) /\ IsMachine(config)
      /\ Top \in Nat
  BY MachineFacts DEF NextAccesses, Accesses, Data, CachesInv, PortsInv, RunInv
<1> DEFINE read == set_read_counter(a.addr)
           write == set_write_counter(a.addr)
<1>2. ASSUME counter[a.port] < 0
      PROVE  IsAnswer(read) /\ Waits(config, caches, read)
  <2>1. CASE config.CACHE_LEVELS = -1
    BY <1>1, <2>1, CachelessWaits, CachelessIsFine DEF set_read_counter, Fine
  <2>2. CASE config.CACHE_LEVELS = 0
    BY <1>1, <2>2, CachelessWaits, CachelessIsFine DEF set_read_counter, Fine
  <2>3. CASE config.CACHE_LEVELS \notin {-1, 0}
    <3>1. Clear(config, caches, a.addr, Path(config, "l1_d"))
      BY <1>2, DataIsClear
    <3>2. Brings(config, caches, l1_read(config, caches, "l1_d", a.addr), "l1_d", a.addr)
      BY <1>1, <3>1, FirstReadBrings
    <3>3. IsAnswer(l1_read(config, caches, "l1_d", a.addr))
      BY <1>1, FirstReadIsFine DEF Fine
    <3> QED
      BY <2>3, <3>2, <3>3 DEF Brings, set_read_counter
  <2> QED
    BY <2>1, <2>2, <2>3
<1>3. ASSUME counter[a.port] < 0
      PROVE  IsAnswer(write) /\ Waits(config, caches, write)
  <2>1. CASE config.CACHE_LEVELS = -1
    BY <1>1, <2>1, CachelessWaits, CachelessIsFine DEF set_write_counter, Fine
  <2>2. CASE config.CACHE_LEVELS = 0
    BY <1>1, <2>2, CachelessWaits, CachelessIsFine DEF set_write_counter, Fine
  <2>3. CASE config.CACHE_LEVELS \notin {-1, 0}
    <3>1. Clear(config, caches, a.addr, Path(config, "l1_d"))
      BY <1>3, DataIsClear
    <3>2. Min({a.addr}) = a.addr
      BY <1>1, MinIsUnique
    <3>3. Waits(config, caches, l1_write(config, caches, "l1_d", {a.addr}))
      BY <1>1, <3>1, <3>2, FirstWriteWaits
    <3>4. IsAnswer(l1_write(config, caches, "l1_d", {a.addr}))
      BY <1>1, <3>2, FirstWriteIsFine DEF Fine
    <3> QED
      BY <2>3, <3>3, <3>4 DEF set_write_counter
  <2> QED
    BY <2>1, <2>2, <2>3
<1> DEFINE asked == IF a.port = "r" THEN read ELSE write
<1>4. counter[a.port] < 0 => IsAnswer(asked) /\ Waits(config, caches, asked)
  BY <1>2, <1>3
<1>5. DataCall(a) = Call(a.port, a.addr, asked)
  BY DEF DataCall
<1> HIDE DEF asked
<1> QED
  BY <1>1, <1>4, <1>5, CallRuns

(* MA has completed its access: if the fetch asks, no block is in use.     *)
LEMMA FetchCallRuns ==
  ASSUME CachesInv, RunInv, Separates(config, Top), NEW addr \in config.text, mfc = "COMPLETED"
  PROVE  RunningCall("i", FetchCall(addr))
<1>1. addr \in 0 .. Top /\ DirtyIsData(config, caches) /\ Contents(config, caches, Top)
      /\ IsMachine(config) /\ Top \in Nat
  BY MachineFacts DEF CachesInv, RunInv
<1>2. ASSUME counter["i"] < 0
      PROVE  IsAnswer(set_read_i_counter(addr)) /\ Waits(config, caches, set_read_i_counter(addr))
  <2>1. CASE config.CACHE_LEVELS = -1
    BY <1>1, <2>1, CachelessWaits, CachelessIsFine DEF set_read_i_counter, Fine
  <2>2. CASE config.CACHE_LEVELS = 0
    BY <1>1, <2>2, CachelessWaits, CachelessIsFine DEF set_read_i_counter, Fine
  <2>3. CASE config.CACHE_LEVELS \notin {-1, 0}
    <3>1. \A c \in Caches : InUse(caches, c) = {}
      <4>1. counter.i \in {-2, -1} \cup Nat /\ counter.i < 0
        BY <1>2 DEF CachesInv, PortsInv
      <4>2. \A c \in Caches : Running(c) = {}
        BY <4>1 DEF Running, DataHeld
      <4> QED
        BY <4>2 DEF RunInv
    <3>2. Clear(config, caches, addr, Path(config, "l1_i"))
      BY <1>1, <3>1, PathFacts DEF Clear, TextLocks, Unused, Caches
    <3>3. Brings(config, caches, l1_read(config, caches, "l1_i", addr), "l1_i", addr)
      BY <1>1, <3>2, FirstReadBrings
    <3>4. IsAnswer(l1_read(config, caches, "l1_i", addr))
      BY <1>1, FirstReadIsFine DEF Fine
    <3> QED
      BY <2>3, <3>3, <3>4 DEF Brings, set_read_i_counter
  <2> QED
    BY <2>1, <2>2, <2>3
<1> QED
  BY <1>1, <1>2, CallRuns DEF FetchCall

LEMMA TransferRuns ==
  ASSUME CachesInv, RunInv, Separates(config, Top), Transfer
  PROVE  RunInv'
<1>1. PICK a \in NextAccesses :
        /\ DataDone(a, DataCall(a)) \/ DataPending(DataCall(a))
        /\ Accessed(a, DataCall(a))
  BY DEF Transfer
<1>2. /\ UNCHANGED <<config, status, mfc_i, mar_i>> /\ phase = "MA"
      /\ a \in Accesses /\ (mfc = "NOT_COMPLETED" => access = a)
  BY DEF Transfer, Runs, NextAccesses, CachesInv, PortsInv
<1>3. a.addr \in 0 .. Top /\ a.port \in {"r", "w"}
  BY <1>2, MachineFacts DEF Accesses, CachesInv
<1> DEFINE call == DataCall(a)
<1>4. GoodCall(a.port, a.addr, call, DataPath) /\ RunningCall(a.port, call)
  BY <1>2, DataCallIsGood, DataCallRuns
<1> HIDE DEF call
<1>5. access' = a /\ counter' = call.counter /\ counter'.i = counter.i
  BY <1>1, <1>3, <1>4 DEF Accessed, RunningCall, call
<1>6. IsMachine(config) /\ Top \in Nat /\ Contents(config, call.h, Top)
      /\ DirtyIsData(config, call.h)
  BY <1>4, MachineFacts DEF CachesInv, GoodCall, Touches, RunningCall
<1>7. /\ counter.i \in {-2, -1} \cup Nat
      /\ \A c \in Caches : FetchHeld(c)' = FetchHeld(c)
  BY <1>2 DEF FetchHeld, CachesInv, PortsInv
<1>8. CASE DataDone(a, call)
  <2>1. caches' = Done(config, call.h, First(config, "l1_d"), a.addr) /\ mfc' = "COMPLETED"
    BY <1>8 DEF DataDone, complete_read, complete_write
  <2>2. Frees(config, call.h, caches', DataPath, a.addr, Top)
    BY <1>3, <1>6, <2>1, DoneFrees DEF DataPath
  <2>3. DirtyIsData(config, caches')
    BY <1>3, <1>6, <2>1, DoneStaysDirty, SameDirtIsData
  <2>4. ASSUME NEW c \in Caches
        PROVE  InUse(caches', c) \subseteq {BlockAddr(y, config[c]) : y \in Running(c)'}
    <3>1. DataHeld(c)' = {} /\ Running(c)' = IF counter.i >= 0 THEN FetchHeld(c) ELSE {}
      BY <1>5, <1>7, <2>1 DEF Running, DataHeld
    <3>2. DataHeld(c) \subseteq {a.addr} /\ (c \notin DataPath => DataHeld(c) = {})
      BY <1>2 DEF DataHeld, DataPath, CachesInv, PortsInv
    <3>3. \A x \in InUse(caches', c) : \E y \in Running(c)' : x = BlockAddr(y, config[c])
      <4> TAKE x \in InUse(caches', c)
      <4>1. x \in InUse(caches, c) /\ (c \in DataPath => x # BlockAddr(a.addr, config[c]))
        <5>1. CASE c \in DataPath
          BY <1>4, <2>2, <5>1 DEF GoodCall, Touches, Frees
        <5>2. CASE c \notin DataPath
          BY <1>4, <2>2, <5>2 DEF GoodCall, Touches, Frees, InUse
        <5> QED
          BY <5>1, <5>2
      <4>2. PICK y \in Running(c) : x = BlockAddr(y, config[c])
        BY <4>1 DEF RunInv
      <4>3. y \notin DataHeld(c)
        BY <3>2, <4>1, <4>2
      <4> QED
        BY <3>1, <4>2, <4>3 DEF Running
    <3> QED
      BY <3>3
  <2> QED
    BY <1>2, <2>1, <2>3, <2>4 DEF RunInv
<1>9. CASE DataPending(call)
  <2>1. caches' = Tick(call.h) /\ mfc' = "NOT_COMPLETED" /\ phase' = "MA"
        /\ call.result = "pending"
    BY <1>9 DEF DataPending
  <2>2. \A c \in Caches : InUse(caches', c) = InUse(call.h, c)
    BY <1>6, <2>1, TickKeeps
  <2>3. DirtyIsData(config, caches')
    BY <1>6, <2>1, TickStaysDirty, SameDirtIsData
  <2>4. \A c \in Caches : DataHeld(c)' = IF c \in DataPath THEN {a.addr} ELSE {}
    BY <1>2, <1>5, <2>1 DEF DataHeld, DataPath
  <2>5. counter'[a.port] \in {-2, -1} \cup Nat
    BY <1>3, <1>4, <1>5 DEF GoodCall
  <2>6. ASSUME NEW c \in Caches
        PROVE  InUse(caches', c) \subseteq {BlockAddr(y, config[c]) : y \in Running(c)'}
    <3>1. CASE counter'[a.port] < 0
      <4>1. call.h = caches /\ counter[a.port] < 0
        BY <1>4, <1>5, <2>1, <3>1 DEF RunningCall
      <4>2. counter[a.port] \in {-2, -1} \cup Nat
        BY <1>3 DEF CachesInv, PortsInv
      <4>3. counter[access.port] >= 0 => DataHeld(c) = {}
        BY <1>2, <4>1, <4>2 DEF DataHeld, CachesInv, PortsInv
      <4>4. Running(c) \subseteq Running(c)'
        BY <1>5, <1>7, <4>3 DEF Running
      <4> QED
        BY <2>2, <4>1, <4>4 DEF RunInv
    <3>2. CASE counter'[a.port] >= 0
      <4>1. Running(c)' = (IF counter.i >= 0 THEN FetchHeld(c) ELSE {}) \cup
                          (IF c \in DataPath THEN {a.addr} ELSE {})
        BY <1>5, <1>7, <2>4, <3>2 DEF Running
      <4>2. DataHeld(c) \subseteq {a.addr} /\ (c \notin DataPath => DataHeld(c) = {})
        BY <1>2 DEF DataHeld, DataPath, CachesInv, PortsInv
      <4>3. Running(c) \subseteq Running(c)'
        BY <4>1, <4>2 DEF Running
      <4>4. CASE c \in DataPath
        <5>1. InUse(caches', c) \subseteq InUse(caches, c) \cup {BlockAddr(a.addr, config[c])}
          BY <1>4, <2>2 DEF GoodCall, Touches
        <5> QED
          BY <4>1, <4>3, <4>4, <5>1 DEF RunInv
      <4>5. CASE c \notin DataPath
        <5>1. InUse(caches', c) = InUse(caches, c)
          BY <1>4, <2>2, <4>5 DEF GoodCall, Touches, InUse
        <5> QED
          BY <4>3, <5>1 DEF RunInv
      <4> QED
        BY <4>4, <4>5
    <3> QED
      BY <2>5, <3>1, <3>2
  <2> QED
    BY <1>2, <2>1, <2>3, <2>6 DEF RunInv
<1> QED
  BY <1>1, <1>8, <1>9 DEF call

LEMMA FetchRuns ==
  ASSUME CachesInv, RunInv, Separates(config, Top), Fetch
  PROVE  RunInv'
<1>1. PICK addr \in NextFetches :
        /\ FetchDone(addr, FetchCall(addr)) \/ FetchPending(FetchCall(addr))
        /\ counter' = FetchCall(addr).counter
        /\ mar_i' = addr
  BY DEF Fetch
<1>2. /\ UNCHANGED <<config, status, mfc, access>> /\ phase' = "MA" /\ mfc = "COMPLETED"
      /\ addr \in config.text /\ (mfc_i = "NOT_COMPLETED" => mar_i = addr)
  BY DEF Fetch, Runs, RunInv, NextFetches, CachesInv, PortsInv
<1>3. addr \in 0 .. Top
  BY <1>2, MachineFacts DEF CachesInv
<1> DEFINE call == FetchCall(addr)
<1>4. GoodCall("i", addr, call, FetchPath) /\ RunningCall("i", call)
  BY <1>2, FetchCallIsGood, FetchCallRuns
<1> HIDE DEF call
<1>5. counter' = call.counter
  BY <1>1 DEF call
<1>6. IsMachine(config) /\ Top \in Nat /\ Contents(config, call.h, Top)
      /\ DirtyIsData(config, call.h)
  BY <1>4, MachineFacts DEF CachesInv, GoodCall, Touches, RunningCall
<1>7. /\ \A c \in Caches : Running(c) = IF counter.i >= 0 THEN FetchHeld(c) ELSE {}
      /\ \A c \in Caches : Running(c)' = IF counter'.i >= 0 THEN FetchHeld(c)' ELSE {}
  BY <1>2 DEF Running, DataHeld
<1>8. CASE FetchDone(addr, call)
  <2> DEFINE done == Done(config, call.h, First(config, "l1_i"), addr)
  <2>1. caches' = Tick(done) /\ mfc_i' = "COMPLETED"
    BY <1>8 DEF FetchDone, complete_read_i
  <2>2. Frees(config, call.h, done, FetchPath, addr, Top)
    BY <1>3, <1>6, DoneFrees DEF FetchPath
  <2>3. DirtyIsData(config, done)
    BY <1>3, <1>6, DoneStaysDirty, SameDirtIsData
  <2> HIDE DEF done
  <2>4. DirtyIsData(config, caches') /\ \A c \in Caches : InUse(caches', c) = InUse(done, c)
    BY <1>6, <2>1, <2>2, <2>3, TickKeeps, TickStaysDirty, SameDirtIsData DEF Frees
  <2>5. ASSUME NEW c \in Caches
        PROVE  InUse(caches', c) = {}
    <3> SUFFICES ASSUME NEW x \in InUse(caches', c) PROVE FALSE
      OBVIOUS
    <3>1. x \in InUse(caches, c) /\ (c \in FetchPath => x # BlockAddr(addr, config[c]))
      <4>1. CASE c \in FetchPath
        BY <1>4, <2>2, <2>4, <4>1 DEF GoodCall, Touches, Frees
      <4>2. CASE c \notin FetchPath
        BY <1>4, <2>2, <2>4, <4>2 DEF GoodCall, Touches, Frees, InUse
      <4> QED
        BY <4>1, <4>2
    <3>2. PICK y \in FetchHeld(c) : x = BlockAddr(y, config[c])
      BY <1>7, <3>1 DEF RunInv
    <3>3. y = addr /\ c \in FetchPath
      BY <1>2, <3>2 DEF FetchHeld, FetchPath
    <3> QED
      BY <3>1, <3>2, <3>3
  <2> QED
    BY <1>2, <2>4, <2>5 DEF RunInv
<1>9. CASE FetchPending(call)
  <2>1. caches' = Tick(call.h) /\ mfc_i' = "NOT_COMPLETED" /\ call.result = "pending"
    BY <1>9 DEF FetchPending
  <2>2. \A c \in Caches : InUse(caches', c) = InUse(call.h, c)
    BY <1>6, <2>1, TickKeeps
  <2>3. DirtyIsData(config, caches')
    BY <1>6, <2>1, TickStaysDirty, SameDirtIsData
  <2>4. counter'["i"] \in {-2, -1} \cup Nat /\ counter["i"] \in {-2, -1} \cup Nat
    BY <1>4, <1>5 DEF GoodCall, CachesInv, PortsInv
  <2>5. ASSUME NEW c \in Caches
        PROVE  InUse(caches', c) \subseteq {BlockAddr(y, config[c]) : y \in Running(c)'}
    <3>1. CASE counter'["i"] < 0
      <4>1. call.h = caches /\ counter["i"] < 0
        BY <1>4, <1>5, <2>1, <3>1 DEF RunningCall
      <4>2. Running(c) = {}
        BY <1>7, <2>4, <4>1
      <4> QED
        BY <2>2, <4>1, <4>2 DEF RunInv
    <3>2. CASE counter'["i"] >= 0
      <4>1. Running(c)' = IF c \in FetchPath THEN {addr} ELSE {}
        BY <1>1, <1>2, <1>7, <2>1, <3>2 DEF FetchHeld, FetchPath
      <4>2. Running(c) \subseteq Running(c)'
        BY <1>2, <1>7, <4>1 DEF FetchHeld, FetchPath, CachesInv, PortsInv
      <4>3. CASE c \in FetchPath
        <5>1. InUse(caches', c) \subseteq InUse(caches, c) \cup {BlockAddr(addr, config[c])}
          BY <1>4, <2>2 DEF GoodCall, Touches
        <5> QED
          BY <4>1, <4>2, <4>3, <5>1 DEF RunInv
      <4>4. CASE c \notin FetchPath
        <5>1. InUse(caches', c) = InUse(caches, c)
          BY <1>4, <2>2, <4>4 DEF GoodCall, Touches, InUse
        <5> QED
          BY <4>2, <5>1 DEF RunInv
      <4> QED
        BY <4>3, <4>4
    <3> QED
      BY <2>4, <3>1, <3>2
  <2> QED
    BY <1>2, <2>3, <2>5 DEF RunInv
<1> QED
  BY <1>1, <1>8, <1>9 DEF call

LEMMA CancelRuns ==
  ASSUME CachesInv, RunInv, CancelFetch, mfc = "COMPLETED",
         UNCHANGED <<config, status, mfc, access>>
  PROVE  RunInv'
<1>1. /\ mfc_i' = "COMPLETED" /\ mar_i' = mar_i
      /\ caches' = Done(config, caches, First(config, "l1_i"), mar_i)
  BY DEF CancelFetch, complete_read_i
<1>2. IsMachine(config) /\ Top \in Nat /\ Contents(config, caches, Top) /\ mar_i \in 0 .. Top
  BY MachineFacts DEF CachesInv, PortsInv
<1>3. Frees(config, caches, caches', FetchPath, mar_i, Top) /\ DirtyIsData(config, caches')
  BY <1>1, <1>2, DoneFrees, DoneStaysDirty, SameDirtIsData DEF FetchPath, RunInv
<1>4. ASSUME NEW c \in Caches
      PROVE  InUse(caches', c) = {}
  <2> SUFFICES ASSUME NEW x \in InUse(caches', c) PROVE FALSE
    OBVIOUS
  <2>1. x \in InUse(caches, c) /\ (c \in FetchPath => x # BlockAddr(mar_i, config[c]))
    BY <1>3 DEF Frees
  <2>2. PICK y \in FetchHeld(c) : x = BlockAddr(y, config[c])
    BY <2>1 DEF RunInv, Running, DataHeld
  <2> QED
    BY <2>1, <2>2 DEF FetchHeld, FetchPath
<1> QED
  BY <1>3, <1>4 DEF RunInv

LEMMA QuietRuns ==
  ASSUME CachesInv, RunInv,
         UNCHANGED <<config, status, mfc_i, mar_i, mfc, access, counter>>,
         caches' = caches \/ caches' = Tick(caches),
         mfc = "COMPLETED" \/ phase' = phase
  PROVE  RunInv'
<1>1. IsMachine(config) /\ Top \in Nat /\ Contents(config, caches, Top)
  BY MachineFacts DEF CachesInv
<1>2. \A c \in Caches : InUse(caches', c) = InUse(caches, c)
  BY <1>1, TickKeeps
<1>3. DirtyIsData(config, caches')
  BY <1>1, TickStaysDirty, SameDirtIsData DEF RunInv
<1>4. \A c \in Caches : Running(c)' = Running(c)
  BY DEF Running, FetchHeld, DataHeld
<1> QED
  BY <1>2, <1>3, <1>4 DEF RunInv

LEMMA NextRuns ==
  ASSUME CachesInv, RunInv, Separates(config, Top), [Next]_vars
  PROVE  RunInv'
<1>1. phase \in {"ID", "IF"} => mfc = "COMPLETED"
  BY DEF RunInv
<1>2. CASE Transfer
  BY <1>2, TransferRuns
<1>3. CASE NoAccess
  BY <1>3, QuietRuns DEF NoAccess, Runs
<1>4. CASE Flush
  BY <1>4, CancelRuns DEF Flush, Runs
<1>5. CASE Proceed
  BY <1>1, <1>5, QuietRuns DEF Proceed, Runs
<1>6. CASE Stall
  BY <1>1, <1>6, QuietRuns DEF Stall, Runs
<1>7. CASE Redirect
  BY <1>1, <1>7, CancelRuns DEF Redirect, Runs
<1>8. CASE Fetch
  BY <1>8, FetchRuns
<1>9. CASE Exit
  <2>1. \A a \in NextAccesses : DataCall(a).result # "fatal"
    BY DataCallRuns DEF RunningCall
  <2>2. PICK addr \in NextFetches : phase = "IF" /\ FetchCall(addr).result = "fatal"
    BY <1>9, <2>1 DEF Exit, Runs
  <2>3. addr \in config.text
    BY DEF NextFetches, CachesInv, PortsInv
  <2> QED
    BY <1>1, <2>2, <2>3, FetchCallRuns DEF RunningCall
<1>10. CASE Stopped
  BY <1>10 DEF Stopped, RunInv
<1>11. CASE UNCHANGED vars
  BY <1>11, QuietRuns DEF vars
<1> QED
  BY <1>2, <1>3, <1>4, <1>5, <1>6, <1>7, <1>8, <1>9, <1>10, <1>11 DEF Next

LEMMA InitRuns ==
  ASSUME Init
  PROVE  RunInv
<1>1. config \in Configs /\ caches = Empty(config)
  BY DEF Init
<1>2. \A c \in Caches : InUse(caches, c) = {}
  BY <1>1, MachineFacts, EmptyContents
<1>3. \A c \in Caches : \A i \in 0 .. config[c].sets - 1 : \A w \in 1 .. config[c].ways :
        caches[c][i][w].valid = 0
  BY <1>1 DEF Empty, EmptyLine
<1>4. DirtyIsData(config, caches)
  BY <1>3 DEF DirtyIsData
<1> QED
  BY <1>2, <1>4 DEF RunInv, Init

(* If the caches below the first level are bypassed by write misses, their *)
(* blocks are made of those above and no larger than a way of them, and no *)
(* block there holds both text and data, none of the checks of the caches  *)
(* ends the program: no access, write-back or repeated write finds a block *)
(* that another one is transferring, whatever the geometries, the          *)
(* latencies, and the order of fetches, loads, stores and flushes.         *)
THEOREM NoCheckFails ==
  ASSUME \A cfg \in Configs : Bypasses(cfg) /\ Nested(cfg) /\ Apart(cfg) /\ Roomy(cfg)
  PROVE  Spec => []NeverExits
<1>1. CachesInv => Separates(config, Top)
  <2> SUFFICES ASSUME CachesInv PROVE Separates(config, Top)
    OBVIOUS
  <2>1. config \in Configs /\ Addresses(config) \subseteq 0 .. Top
    BY MachineFacts DEF CachesInv, Addr
  <2> QED
    BY <2>1 DEF Separates
<1>2. Init => RunInv
  BY InitRuns
<1>3. CachesInv /\ RunInv /\ [Next]_vars => RunInv'
  BY <1>1, NextRuns
<1>4. RunInv => NeverExits
  BY DEF RunInv, NeverExits
<1> QED
  BY <1>2, <1>3, <1>4, CachesInvariant, PTL DEF Spec

-----------------------------------------------------------------------------
(* The counters of the report *)

(* Tallies: what was counted, 0 where nothing was. *)
IsTally(f) == \A k : Amount(f, k) \in Int

LEMMA PlusAdds ==
  ASSUME NEW f, NEW g, IsTally(f), IsTally(g)
  PROVE  /\ IsTally(Plus(f, g))
         /\ \A k : Amount(Plus(f, g), k) = Amount(f, k) + Amount(g, k)
<1> DEFINE T == {k \in DOMAIN f \cup DOMAIN g : Amount(f, k) + Amount(g, k) # 0}
           sum(k) == Amount(f, k) + Amount(g, k)
<1>1. Plus(f, g) = [k \in T |-> sum(k)]
  BY Zenon DEF Plus
<1>2. \A k : sum(k) \in Int
  BY DEF IsTally
<1>3. ASSUME NEW k PROVE Amount(Plus(f, g), k) = sum(k)
  <2>1. CASE k \in T
    <3> HIDE DEF sum
    <3> QED
      BY <1>1, <2>1 DEF Amount
  <2>2. CASE k \notin T
    <3>1. k \notin DOMAIN f \cup DOMAIN g => Amount(f, k) = 0 /\ Amount(g, k) = 0
      BY DEF Amount
    <3>2. sum(k) = 0
      BY <2>2, <3>1
    <3> HIDE DEF sum, T
    <3> QED
      BY <1>1, <2>2, <3>2 DEF Amount
  <2> QED
    BY <2>1, <2>2
<1> HIDE DEF sum
<1>4. \A k : Amount(Plus(f, g), k) = sum(k)
  BY <1>3
<1> QED
  BY <1>2, <1>4 DEF IsTally, sum

LEMMA NoAmount == IsTally(Nothing) /\ \A k : Amount(Nothing, k) = 0
BY DEF IsTally, Amount, Nothing

-----------------------------------------------------------------------------
Kinds == {"hit_r", "hit_w", "miss_r", "miss_w", "writebacks"}

(* What f says of the cache c itself. *)
Own(f, c, hr, mr, hw, mw, wb) ==
  /\ Amount(f, <<c, "hit_r">>) = hr /\ Amount(f, <<c, "miss_r">>) = mr
  /\ Amount(f, <<c, "hit_w">>) = hw /\ Amount(f, <<c, "miss_w">>) = mw
  /\ Amount(f, <<c, "writebacks">>) = wb

ReadsOf(f, c) == Amount(f, <<c, "hit_r">>) + Amount(f, <<c, "miss_r">>)

WritesOf(f, c) == Amount(f, <<c, "hit_w">>) + Amount(f, <<c, "miss_w">>)

AllocatedOf(cfg, f, c) ==
  IF cfg[c].write_miss_policy = "allocate" THEN Amount(f, <<c, "miss_w">>) ELSE 0

PassedOnOf(cfg, f, c) ==
  IF cfg[c].write_policy = "through" THEN WritesOf(f, c)
  ELSE Amount(f, <<c, "miss_w">>) - AllocatedOf(cfg, f, c)

(* The level below c was read and written as often as c says. *)
Agrees(cfg, f, c) ==
  Below(cfg, c) # "dram" =>
    /\ ReadsOf(f, Below(cfg, c)) = Amount(f, <<c, "miss_r">>) + AllocatedOf(cfg, f, c)
    /\ WritesOf(f, Below(cfg, c)) = Amount(f, <<c, "writebacks">>) + PassedOnOf(cfg, f, c)

(* x reads and y writes of b, with all they lead to. *)
Reckons(cfg, f, b, x, y) ==
  /\ IsTally(f)
  /\ \A d \in Caches : \A kind \in Kinds : Amount(f, <<d, kind>>) >= 0
  /\ \A d \in Caches \ Path(cfg, b) : Own(f, d, 0, 0, 0, 0, 0)
  /\ \A d \in Path(cfg, b) : Agrees(cfg, f, d)
  /\ b # "dram" => ReadsOf(f, b) = x /\ WritesOf(f, b) = y

(* The same of the level below c, and what has been counted for c.         *)
Partly(cfg, f, c, x, y, hr, mr, hw, mw, wb) ==
  /\ IsTally(f) /\ Own(f, c, hr, mr, hw, mw, wb)
  /\ \A d \in Caches \ {c} : \A kind \in Kinds : Amount(f, <<d, kind>>) >= 0
  /\ \A d \in Caches \ Path(cfg, c) : Own(f, d, 0, 0, 0, 0, 0)
  /\ \A d \in Path(cfg, c) \ {c} : Agrees(cfg, f, d)
  /\ Below(cfg, c) # "dram" => ReadsOf(f, Below(cfg, c)) = x /\ WritesOf(f, Below(cfg, c)) = y

LEMMA PathBelow ==
  ASSUME NEW cfg, NEW c \in Caches
  PROVE  /\ Below(cfg, c) \in {"l2", "l3", "dram"} /\ c # Below(cfg, c)
         /\ Path(cfg, c) = {c} \cup Path(cfg, Below(cfg, c))
         /\ c \notin Path(cfg, Below(cfg, c))
         /\ \A d \in Path(cfg, Below(cfg, c)) : Below(cfg, d) # c
         /\ Path(cfg, "dram") = {} /\ "dram" \notin Caches
BY DEF Path, Below, Caches

LEMMA ReckonsPartly ==
  ASSUME NEW cfg, NEW c \in Caches, NEW f, NEW x, NEW y, Reckons(cfg, f, Below(cfg, c), x, y)
  PROVE  Partly(cfg, f, c, x, y, 0, 0, 0, 0, 0)
BY PathBelow DEF Reckons, Partly

LEMMA NothingPartly ==
  ASSUME NEW cfg, NEW c \in Caches
  PROVE  Partly(cfg, Nothing, c, 0, 0, 0, 0, 0, 0, 0)
<1>1. \A d : Own(Nothing, d, 0, 0, 0, 0, 0)
  BY NoAmount DEF Own
<1>2. \A d : ReadsOf(Nothing, d) = 0 /\ WritesOf(Nothing, d) = 0 /\ Agrees(cfg, Nothing, d)
  BY NoAmount DEF ReadsOf, WritesOf, Agrees, AllocatedOf, PassedOnOf
<1> QED
  BY <1>1, <1>2, NoAmount DEF Partly

LEMMA PartlyAdds ==
  ASSUME NEW cfg, NEW c \in Caches, NEW f, NEW g,
         NEW x1, NEW y1, NEW hr1, NEW mr1, NEW hw1, NEW mw1, NEW wb1,
         NEW x2, NEW y2, NEW hr2, NEW mr2, NEW hw2, NEW mw2, NEW wb2,
         Partly(cfg, f, c, x1, y1, hr1, mr1, hw1, mw1, wb1),
         Partly(cfg, g, c, x2, y2, hr2, mr2, hw2, mw2, wb2)
  PROVE  Partly(cfg, Plus(f, g), c, x1 + x2, y1 + y2, hr1 + hr2, mr1 + mr2, hw1 + hw2,
                mw1 + mw2, wb1 + wb2)
<1> DEFINE s == Plus(f, g)
<1>1. IsTally(f) /\ IsTally(g)
  BY DEF Partly
<1>2. IsTally(s) /\ \A k : Amount(s, k) = Amount(f, k) + Amount(g, k)
  BY <1>1, PlusAdds
<1>3. \A k : Amount(f, k) \in Int /\ Amount(g, k) \in Int
  BY <1>1 DEF IsTally
<1> HIDE DEF s
<1>4. Own(s, c, hr1 + hr2, mr1 + mr2, hw1 + hw2, mw1 + mw2, wb1 + wb2)
  BY <1>2 DEF Partly, Own
<1>5. ASSUME NEW d \in Caches \ {c}, NEW kind \in Kinds
      PROVE  Amount(s, <<d, kind>>) >= 0
  BY <1>2, <1>3 DEF Partly
<1>6. ASSUME NEW d \in Caches \ Path(cfg, c)
      PROVE  Own(s, d, 0, 0, 0, 0, 0)
  BY <1>2 DEF Partly, Own
<1>7. /\ \A d : ReadsOf(s, d) = ReadsOf(f, d) + ReadsOf(g, d)
      /\ \A d : WritesOf(s, d) = WritesOf(f, d) + WritesOf(g, d)
      /\ \A d : AllocatedOf(cfg, s, d) = AllocatedOf(cfg, f, d) + AllocatedOf(cfg, g, d)
      /\ \A d : /\ AllocatedOf(cfg, f, d) \in Int /\ AllocatedOf(cfg, g, d) \in Int
                /\ ReadsOf(f, d) \in Int /\ ReadsOf(g, d) \in Int
                /\ WritesOf(f, d) \in Int /\ WritesOf(g, d) \in Int
  BY <1>2, <1>3 DEF ReadsOf, WritesOf, AllocatedOf
<1>8. \A d : /\ PassedOnOf(cfg, s, d) = PassedOnOf(cfg, f, d) + PassedOnOf(cfg, g, d)
             /\ PassedOnOf(cfg, f, d) \in Int /\ PassedOnOf(cfg, g, d) \in Int
  BY <1>2, <1>3, <1>7 DEF PassedOnOf
<1>9. ASSUME NEW d, Agrees(cfg, f, d), Agrees(cfg, g, d)
      PROVE  Agrees(cfg, s, d)
  <2>1. /\ Amount(s, <<d, "miss_r">>) = Amount(f, <<d, "miss_r">>) + Amount(g, <<d, "miss_r">>)
        /\ Amount(s, <<d, "writebacks">>) = Amount(f, <<d, "writebacks">>) + Amount(g, <<d, "writebacks">>)
        /\ Amount(f, <<d, "miss_r">>) \in Int /\ Amount(g, <<d, "miss_r">>) \in Int
        /\ Amount(f, <<d, "writebacks">>) \in Int /\ Amount(g, <<d, "writebacks">>) \in Int
    BY <1>2, <1>3
  <2> QED
    BY <1>7, <1>8, <1>9, <2>1 DEF Agrees
<1>10. Below(cfg, c) # "dram" => ReadsOf(s, Below(cfg, c)) = x1 + x2 /\ WritesOf(s, Below(cfg, c)) = y1 + y2
  BY <1>7 DEF Partly
<1> QED
  BY <1>2, <1>4, <1>5, <1>6, <1>9, <1>10 DEF Partly, s

(* One counter of c. *)
Single(c, kind, k) == [x \in {<<c, kind>>} |-> k]

LEMMA OnePartly ==
  ASSUME NEW cfg, NEW c \in Caches, NEW kind \in Kinds, NEW k \in Int
  PROVE  Partly(cfg, Single(c, kind, k), c, 0, 0,
                IF kind = "hit_r" THEN k ELSE 0, IF kind = "miss_r" THEN k ELSE 0,
                IF kind = "hit_w" THEN k ELSE 0, IF kind = "miss_w" THEN k ELSE 0,
                IF kind = "writebacks" THEN k ELSE 0)
<1> DEFINE key == <<c, kind>>
           one == [x \in {key} |-> k]
<1>0. Single(c, kind, k) = one
  BY DEF Single
<1>1. IsTally(one) /\ \A y : Amount(one, y) = IF y = <<c, kind>> THEN k ELSE 0
  <2> HIDE DEF key
  <2>1. IsTally(one) /\ \A y : Amount(one, y) = IF y = key THEN k ELSE 0
    BY DEF IsTally, Amount, one
  <2> QED
    BY <2>1 DEF key
<1> HIDE DEF one
<1>2. \A d, what : Amount(one, <<d, what>>) = IF d = c /\ what = kind THEN k ELSE 0
  BY <1>1
<1>3. \A d : d # c => Own(one, d, 0, 0, 0, 0, 0) /\ ReadsOf(one, d) = 0 /\ WritesOf(one, d) = 0
                      /\ AllocatedOf(cfg, one, d) = 0 /\ PassedOnOf(cfg, one, d) = 0
  BY <1>2 DEF Own, ReadsOf, WritesOf, AllocatedOf, PassedOnOf
<1>4. \A d \in Path(cfg, c) \ {c} : Below(cfg, d) # c
  BY PathBelow
<1>5. \A d \in Path(cfg, c) \ {c} : Agrees(cfg, one, d)
  BY <1>2, <1>3, <1>4 DEF Agrees
<1>6. c \in Path(cfg, c) /\ c # Below(cfg, c)
  BY PathBelow
<1>7. Own(one, c, IF kind = "hit_r" THEN k ELSE 0, IF kind = "miss_r" THEN k ELSE 0,
                IF kind = "hit_w" THEN k ELSE 0, IF kind = "miss_w" THEN k ELSE 0,
                IF kind = "writebacks" THEN k ELSE 0)
  BY <1>2 DEF Own, Kinds
<1>8. \A d \in Caches \ {c} : \A what \in Kinds : Amount(one, <<d, what>>) >= 0
  <2> SUFFICES ASSUME NEW d \in Caches \ {c}, NEW what \in Kinds
               PROVE  Amount(one, <<d, what>>) >= 0
    OBVIOUS
  <2>1. Amount(one, <<d, what>>) = 0
    BY <1>2
  <2> QED
    BY <2>1
<1>9. \A d \in Caches \ Path(cfg, c) : Own(one, d, 0, 0, 0, 0, 0)
  BY <1>3, <1>6
<1>10. ReadsOf(one, Below(cfg, c)) = 0 /\ WritesOf(one, Below(cfg, c)) = 0
  BY <1>3, <1>6
<1>11. IsTally(one)
  BY <1>1
<1> HIDE DEF one
<1> QED
  BY <1>0, <1>5, <1>7, <1>8, <1>9, <1>10, <1>11 DEF Partly

LEMMA PartlyReckons ==
  ASSUME NEW cfg, NEW c \in Caches, NEW f,
         NEW x, NEW y, NEW hr \in Nat, NEW mr \in Nat, NEW hw \in Nat, NEW mw \in Nat, NEW wb \in Nat,
         Partly(cfg, f, c, x, y, hr, mr, hw, mw, wb),
         Below(cfg, c) # "dram" =>
           /\ x = mr + (IF cfg[c].write_miss_policy = "allocate" THEN mw ELSE 0)
           /\ y = wb + (IF cfg[c].write_policy = "through" THEN hw + mw
                        ELSE IF cfg[c].write_miss_policy = "allocate" THEN 0 ELSE mw)
  PROVE  Reckons(cfg, f, c, hr + mr, hw + mw)
<1>1. Own(f, c, hr, mr, hw, mw, wb) /\ IsTally(f)
  BY DEF Partly
<1>2. ReadsOf(f, c) = hr + mr /\ WritesOf(f, c) = hw + mw
  BY <1>1 DEF Own, ReadsOf, WritesOf
<1>3. Agrees(cfg, f, c)
  BY <1>1, <1>2 DEF Agrees, Own, Partly, AllocatedOf, PassedOnOf
<1>4. \A kind \in Kinds : Amount(f, <<c, kind>>) >= 0
  BY <1>1 DEF Own, Kinds
<1> QED
  BY <1>1, <1>2, <1>3, <1>4 DEF Reckons, Partly

IsReply(r) == IsAnswer(r) /\ IsTally(r.counted) /\ (r.fatal => r.stalls = -1)

(* An access to b that is carried out unless the program ends.             *)
Accepted(cfg, r, b, x, y) ==
  IsReply(r) /\ (~r.fatal => r.stalls # -1 /\ Reckons(cfg, r.counted, b, x, y))

(* The same on the way through c. *)
Halfway(cfg, r, c, x, y, hr, mr, hw, mw, wb) ==
  IsReply(r) /\ (~r.fatal => r.stalls # -1 /\ Partly(cfg, r.counted, c, x, y, hr, mr, hw, mw, wb))

(* A refused access counts nothing. *)
Told(cfg, r, b, x, y) ==
  IsReply(r) /\ (~r.fatal => IF r.stalls = -1 THEN r.counted = Nothing
                             ELSE Reckons(cfg, r.counted, b, x, y))

LEMMA AnswerReplies ==
  ASSUME NEW h, NEW n \in {-1} \cup Nat, NEW saved
  PROVE  /\ IsReply(Answer(h, n, saved)) /\ Answer(h, n, saved).counted = Nothing
         /\ ~Answer(h, n, saved).fatal /\ Answer(h, n, saved).stalls = n
         /\ Answer(h, n, saved).h = h
<1>1. IsAnswer(Answer(h, n, saved))
  BY AnswerContents
<1>2. /\ Answer(h, n, saved).counted = Nothing /\ Answer(h, n, saved).fatal = FALSE
      /\ Answer(h, n, saved).stalls = n /\ Answer(h, n, saved).h = h
  BY DEF Answer
<1> QED
  BY <1>1, <1>2, NoAmount DEF IsReply

LEMMA FatalReplies ==
  ASSUME NEW h
  PROVE  IsReply(Fatal(h)) /\ Fatal(h).fatal
<1> DEFINE a == Answer(h, -1, {})
<1>1. /\ IsReply(a)
      /\ a = [h |-> a.h, stalls |-> a.stalls, saved |-> a.saved, counted |-> a.counted,
              fatal |-> a.fatal]
  BY AnswerReplies DEF IsReply, IsAnswer
<1>2. a.stalls = -1
  BY AnswerReplies
<1>3. Fatal(h) = [a EXCEPT !.fatal = TRUE]
  BY DEF Fatal
<1> HIDE DEF a
<1>4. Fatal(h) = [h |-> a.h, stalls |-> a.stalls, saved |-> a.saved, counted |-> a.counted, fatal |-> TRUE]
  BY <1>1, <1>3
<1> QED
  BY <1>1, <1>2, <1>4 DEF IsReply, IsAnswer

LEMMA CountReplies ==
  ASSUME NEW r, IsReply(r), NEW c \in Caches, NEW kind \in Kinds, NEW k \in Int
  PROVE  /\ IsReply(Count(r, c, kind, k))
         /\ Count(r, c, kind, k).h = r.h /\ Count(r, c, kind, k).stalls = r.stalls
         /\ Count(r, c, kind, k).fatal = r.fatal
         /\ Count(r, c, kind, k).counted = Plus(r.counted, Single(c, kind, k))
<1> DEFINE one == Single(c, kind, k)
           sum == Plus(r.counted, one)
<1>1. Count(r, c, kind, k) = [r EXCEPT !.counted = sum]
  BY DEF Count, Single
<1>2. IsTally(one)
  BY OnePartly DEF Partly
<1>3. <<c, kind>> \in Counters
  BY DEF Counters, Kinds
<1>4. DOMAIN one \subseteq Counters
  BY <1>3 DEF Single
<1> HIDE DEF one
<1>5. DOMAIN sum \subseteq Counters /\ IsTally(sum)
  BY <1>2, <1>4, PlusCounters, PlusAdds DEF IsReply, IsAnswer
<1> HIDE DEF sum
<1>6. Count(r, c, kind, k) = [h |-> r.h, stalls |-> r.stalls, saved |-> r.saved, counted |-> sum,
                              fatal |-> r.fatal]
  BY <1>1 DEF IsReply, IsAnswer
<1> QED
  BY <1>5, <1>6 DEF IsReply, IsAnswer, sum, one

LEMMA ThenReplies ==
  ASSUME NEW r, IsReply(r), NEW next, IsReply(next), r.stalls # -1
  PROVE  /\ IsReply(Then(r, next))
         /\ Then(r, next).h = next.h /\ Then(r, next).fatal = next.fatal
         /\ Then(r, next).stalls = -1 <=> next.stalls = -1
         /\ Then(r, next).counted = Plus(next.counted, r.counted)
<1> DEFINE stalls == IF next.stalls = -1 THEN -1 ELSE next.stalls + r.stalls
           saved == next.saved \cup r.saved
           sum == Plus(next.counted, r.counted)
<1>1. Then(r, next) = [next EXCEPT !.saved = saved, !.counted = sum, !.stalls = stalls]
  BY DEF Then
<1>2. (stalls = -1 <=> next.stalls = -1) /\ stalls \in {-1} \cup Nat
  BY DEF IsReply, IsAnswer
<1>3. DOMAIN sum \subseteq Counters /\ IsTally(sum)
  BY PlusCounters, PlusAdds DEF IsReply, IsAnswer
<1> HIDE DEF stalls, saved, sum
<1>4. Then(r, next) = [h |-> next.h, stalls |-> stalls, saved |-> saved, counted |-> sum,
                       fatal |-> next.fatal]
  BY <1>1 DEF IsReply, IsAnswer
<1> QED
  BY <1>2, <1>3, <1>4 DEF IsReply, IsAnswer, sum

LEMMA AnswerHalfway ==
  ASSUME NEW cfg, NEW c \in Caches, NEW h, NEW n \in Nat, NEW saved
  PROVE  Halfway(cfg, Answer(h, n, saved), c, 0, 0, 0, 0, 0, 0, 0)
<1>1. n # -1 /\ n \in {-1} \cup Nat
  OBVIOUS
<1> QED
  BY <1>1, AnswerReplies, NothingPartly DEF Halfway

LEMMA CountHalfway ==
  ASSUME NEW cfg, NEW c \in Caches, NEW r, NEW x \in Int, NEW y \in Int, NEW hr \in Int, NEW mr \in Int,
         NEW hw \in Int, NEW mw \in Int, NEW wb \in Int, Halfway(cfg, r, c, x, y, hr, mr, hw, mw, wb),
         NEW k \in Int
  PROVE  /\ Halfway(cfg, Count(r, c, "hit_r", k), c, x, y, hr + k, mr, hw, mw, wb)
         /\ Halfway(cfg, Count(r, c, "miss_r", k), c, x, y, hr, mr + k, hw, mw, wb)
         /\ Halfway(cfg, Count(r, c, "hit_w", k), c, x, y, hr, mr, hw + k, mw, wb)
         /\ Halfway(cfg, Count(r, c, "miss_w", k), c, x, y, hr, mr, hw, mw + k, wb)
         /\ Halfway(cfg, Count(r, c, "writebacks", k), c, x, y, hr, mr, hw, mw, wb + k)
<1>1. IsReply(r)
  BY DEF Halfway
<1>2. ASSUME NEW kind \in Kinds, NEW hr2, NEW mr2, NEW hw2, NEW mw2, NEW wb2,
             hr2 = hr + (IF kind = "hit_r" THEN k ELSE 0), mr2 = mr + (IF kind = "miss_r" THEN k ELSE 0),
             hw2 = hw + (IF kind = "hit_w" THEN k ELSE 0), mw2 = mw + (IF kind = "miss_w" THEN k ELSE 0),
             wb2 = wb + (IF kind = "writebacks" THEN k ELSE 0)
      PROVE  Halfway(cfg, Count(r, c, kind, k), c, x, y, hr2, mr2, hw2, mw2, wb2)
  <2> DEFINE s == Count(r, c, kind, k)
             one == Single(c, kind, k)
             a == IF kind = "hit_r" THEN k ELSE 0
             b == IF kind = "miss_r" THEN k ELSE 0
             d == IF kind = "hit_w" THEN k ELSE 0
             e == IF kind = "miss_w" THEN k ELSE 0
             f == IF kind = "writebacks" THEN k ELSE 0
  <2>1. /\ IsReply(s) /\ s.stalls = r.stalls /\ s.fatal = r.fatal
        /\ s.counted = Plus(r.counted, one)
    BY <1>1, CountReplies
  <2>2. Partly(cfg, one, c, 0, 0, a, b, d, e, f)
    BY OnePartly
  <2>3. hr2 = hr + a /\ mr2 = mr + b /\ hw2 = hw + d /\ mw2 = mw + e /\ wb2 = wb + f
    BY <1>2
  <2> HIDE DEF s, one, a, b, d, e, f
  <2>4. x + 0 = x /\ y + 0 = y
    OBVIOUS
  <2>5. ASSUME ~r.fatal PROVE Partly(cfg, s.counted, c, x, y, hr2, mr2, hw2, mw2, wb2)
    <3>1. Partly(cfg, r.counted, c, x, y, hr, mr, hw, mw, wb)
      BY <2>5 DEF Halfway
    <3>2. Partly(cfg, Plus(r.counted, one), c, x + 0, y + 0, hr + a, mr + b, hw + d, mw + e, wb + f)
      BY <2>2, <3>1, PartlyAdds
    <3> QED
      BY <2>1, <2>3, <2>4, <3>2
  <2> QED
    BY <2>1, <2>5 DEF Halfway, s
<1>3. {"hit_r", "miss_r", "hit_w", "miss_w", "writebacks"} \subseteq Kinds
  BY DEF Kinds
<1>4. hr + 0 = hr /\ mr + 0 = mr /\ hw + 0 = hw /\ mw + 0 = mw /\ wb + 0 = wb
  OBVIOUS
<1>5. Halfway(cfg, Count(r, c, "hit_r", k), c, x, y, hr + k, mr, hw, mw, wb)
  BY <1>2, <1>3, <1>4
<1>6. Halfway(cfg, Count(r, c, "miss_r", k), c, x, y, hr, mr + k, hw, mw, wb)
  BY <1>2, <1>3, <1>4
<1>7. Halfway(cfg, Count(r, c, "hit_w", k), c, x, y, hr, mr, hw + k, mw, wb)
  BY <1>2, <1>3, <1>4
<1>8. Halfway(cfg, Count(r, c, "miss_w", k), c, x, y, hr, mr, hw, mw + k, wb)
  BY <1>2, <1>3, <1>4
<1>9. Halfway(cfg, Count(r, c, "writebacks", k), c, x, y, hr, mr, hw, mw, wb + k)
  BY <1>2, <1>3, <1>4
<1> QED
  BY <1>5, <1>6, <1>7, <1>8, <1>9

LEMMA ThenHalfway ==
  ASSUME NEW cfg, NEW c \in Caches, NEW r, NEW next,
         NEW x1 \in Int, NEW y1 \in Int, NEW hr1 \in Int, NEW mr1 \in Int, NEW hw1 \in Int, NEW mw1 \in Int,
         NEW wb1 \in Int,
         NEW x2 \in Int, NEW y2 \in Int, NEW hr2 \in Int, NEW mr2 \in Int, NEW hw2 \in Int, NEW mw2 \in Int,
         NEW wb2 \in Int,
         Halfway(cfg, r, c, x1, y1, hr1, mr1, hw1, mw1, wb1),
         Halfway(cfg, next, c, x2, y2, hr2, mr2, hw2, mw2, wb2)
  PROVE  Halfway(cfg, Then(r, next), c, x2 + x1, y2 + y1, hr2 + hr1, mr2 + mr1, hw2 + hw1, mw2 + mw1,
                 wb2 + wb1)
<1>1. IsReply(r) /\ IsReply(next)
  BY DEF Halfway
<1>2. CASE r.fatal
  <2>1. Then(r, next) = r
    BY <1>1, <1>2 DEF Then, IsReply
  <2> QED
    BY <1>1, <1>2, <2>1 DEF Halfway
<1>3. CASE ~r.fatal
  <2>1. r.stalls # -1 /\ Partly(cfg, r.counted, c, x1, y1, hr1, mr1, hw1, mw1, wb1)
    BY <1>3 DEF Halfway
  <2> DEFINE s == Then(r, next)
  <2>2. /\ IsReply(s) /\ s.fatal = next.fatal /\ (s.stalls = -1 <=> next.stalls = -1)
        /\ s.counted = Plus(next.counted, r.counted)
    BY <1>1, <2>1, ThenReplies
  <2> HIDE DEF s
  <2>3. ASSUME ~next.fatal
        PROVE  Partly(cfg, s.counted, c, x2 + x1, y2 + y1, hr2 + hr1, mr2 + mr1, hw2 + hw1, mw2 + mw1,
                      wb2 + wb1)
    BY <2>1, <2>2, <2>3, PartlyAdds DEF Halfway
  <2>4. ~next.fatal => next.stalls # -1
    BY DEF Halfway
  <2> QED
    BY <2>2, <2>3, <2>4 DEF Halfway, s
<1> QED
  BY <1>2, <1>3

LEMMA HalfwayAccepted ==
  ASSUME NEW cfg, NEW c \in Caches, NEW r,
         NEW x, NEW y, NEW hr \in Nat, NEW mr \in Nat, NEW hw \in Nat, NEW mw \in Nat, NEW wb \in Nat,
         Halfway(cfg, r, c, x, y, hr, mr, hw, mw, wb),
         Below(cfg, c) # "dram" =>
           /\ x = mr + (IF cfg[c].write_miss_policy = "allocate" THEN mw ELSE 0)
           /\ y = wb + (IF cfg[c].write_policy = "through" THEN hw + mw
                        ELSE IF cfg[c].write_miss_policy = "allocate" THEN 0 ELSE mw)
  PROVE  Accepted(cfg, r, c, hr + mr, hw + mw)
<1>1. ~r.fatal => Partly(cfg, r.counted, c, x, y, hr, mr, hw, mw, wb)
  BY DEF Halfway
<1>2. ~r.fatal => Reckons(cfg, r.counted, c, hr + mr, hw + mw)
  BY <1>1, PartlyReckons
<1> QED
  BY <1>2 DEF Halfway, Accepted

LEMMA AcceptedHalfway ==
  ASSUME NEW cfg, NEW c \in Caches, NEW r, NEW x, NEW y, Accepted(cfg, r, Below(cfg, c), x, y)
  PROVE  /\ Halfway(cfg, r, c, x, y, 0, 0, 0, 0, 0)
         /\ Below(cfg, c) = "dram" => \A z : Halfway(cfg, r, c, x, z, 0, 0, 0, 0, 0)
<1>1. ~r.fatal => Partly(cfg, r.counted, c, x, y, 0, 0, 0, 0, 0)
  BY ReckonsPartly DEF Accepted
<1>2. Below(cfg, c) = "dram" /\ ~r.fatal => \A z : Partly(cfg, r.counted, c, x, z, 0, 0, 0, 0, 0)
  BY <1>1 DEF Partly
<1> QED
  BY <1>1, <1>2 DEF Halfway, Accepted

-----------------------------------------------------------------------------
(* What the parts of an access count, given what the level below counts.   *)

(* A read miss of c that has not been counted as an access to c.           *)
MissTold(cfg, r, c) ==
  IsReply(r) /\ (~r.fatal => IF r.stalls = -1 THEN r.counted = Nothing
                             ELSE \E wb \in Nat : Partly(cfg, r.counted, c, 1, wb, 0, 1, 0, 0, wb))

LEMMA FoundSomething ==
  ASSUME NEW lines, NEW addr, NEW s
  PROVE  find_block(lines, addr, s) \in {"hit", "busy", "free", "full"}
BY DEF find_block

LEMMA DramCounts ==
  ASSUME NEW cfg, IsMachine(cfg), NEW h, NEW addrs
  PROVE  Told(cfg, FromDram(cfg, h), "dram", 1, 0) /\ Accepted(cfg, ToDram(cfg, h, addrs), "dram", 0, 1)
<1>1. \A x, y : Reckons(cfg, Nothing, "dram", x, y)
  <2>1. \A d : Own(Nothing, d, 0, 0, 0, 0, 0)
    BY NoAmount DEF Own
  <2>2. Path(cfg, "dram") = {}
    BY PathFacts DEF Caches
  <2> QED
    BY <2>1, <2>2, NoAmount DEF Reckons
<1> DEFINE n == cfg.DRAM_READ_LATENCY
           m == cfg.DRAM_WRITE_LATENCY
<1>2. n \in {-1} \cup Nat /\ n # -1 /\ m \in {-1} \cup Nat /\ m # -1
  BY DEF IsMachine
<1>3. FromDram(cfg, h) = Answer(h, n, {}) /\ ToDram(cfg, h, addrs) = Answer(h, m, addrs)
  BY DEF FromDram, ToDram
<1> HIDE DEF n, m
<1>4. /\ IsReply(FromDram(cfg, h)) /\ FromDram(cfg, h).counted = Nothing
      /\ FromDram(cfg, h).stalls = n
  BY <1>2, <1>3, AnswerReplies
<1>5. /\ IsReply(ToDram(cfg, h, addrs)) /\ ToDram(cfg, h, addrs).counted = Nothing
      /\ ToDram(cfg, h, addrs).stalls = m
  BY <1>2, <1>3, AnswerReplies
<1> QED
  BY <1>1, <1>2, <1>4, <1>5 DEF Told, Accepted

LEMMA AcceptedTold ==
  ASSUME NEW cfg, NEW r, NEW b, NEW x, NEW y, Accepted(cfg, r, b, x, y)
  PROVE  Told(cfg, r, b, x, y)
BY DEF Accepted, Told

(* The contents are of no account. *)
LEMMA PutHalfway ==
  ASSUME NEW cfg, NEW c, NEW r, NEW x, NEW y, NEW hr, NEW mr, NEW hw, NEW mw, NEW wb,
         Halfway(cfg, r, c, x, y, hr, mr, hw, mw, wb), NEW g
  PROVE  Halfway(cfg, [r EXCEPT !.h = g], c, x, y, hr, mr, hw, mw, wb)
<1> DEFINE q == [r EXCEPT !.h = g]
<1>1. IsReply(r)
  BY DEF Halfway
<1>2. q = [h |-> g, stalls |-> r.stalls, saved |-> r.saved, counted |-> r.counted, fatal |-> r.fatal]
  BY <1>1 DEF IsReply, IsAnswer
<1> HIDE DEF q
<1>3. q.stalls = r.stalls /\ q.counted = r.counted /\ q.fatal = r.fatal
  BY <1>2
<1>4. IsReply(q)
  BY <1>1, <1>2 DEF IsReply, IsAnswer
<1>5. Halfway(cfg, q, c, x, y, hr, mr, hw, mw, wb)
  BY <1>3, <1>4 DEF Halfway
<1> QED
  BY <1>5 DEF q

LEMMA FatalHalfway ==
  ASSUME NEW cfg, NEW c, NEW h
  PROVE  \A x, y, hr, mr, hw, mw, wb : Halfway(cfg, Fatal(h), c, x, y, hr, mr, hw, mw, wb)
BY FatalReplies DEF Halfway

LEMMA ReadHitCounts ==
  ASSUME NEW cfg, IsMachine(cfg), NEW c \in Caches, NEW h, NEW addr
  PROVE  Accepted(cfg, ReadHit(cfg, h, c, addr), c, 1, 0)
<1> DEFINE a == Answer(Use(cfg, h, c, addr), cfg[c].read_latency, {})
           r == Count(a, c, "hit_r", 1)
<1>1. cfg[c].read_latency \in Nat
  BY DEF IsMachine, IsGoodCache
<1>2. Halfway(cfg, a, c, 0, 0, 0, 0, 0, 0, 0)
  BY <1>1, AnswerHalfway
<1> HIDE DEF a
<1>3. 0 + 1 = 1 /\ 0 \in Int /\ 1 \in Int
  OBVIOUS
<1>4. Halfway(cfg, r, c, 0, 0, 0 + 1, 0, 0, 0, 0)
  BY Zenon, <1>2, <1>3, CountHalfway
<1> HIDE DEF r
<1>5. Halfway(cfg, r, c, 0, 0, 1, 0, 0, 0, 0)
  BY <1>3, <1>4
<1>6. Accepted(cfg, r, c, 1 + 0, 0 + 0)
  <2>1. cfg[c].write_policy \in {"through", "back"}
    BY DEF IsMachine, IsGoodCache
  <2>2. /\ 0 = 0 + (IF cfg[c].write_miss_policy = "allocate" THEN 0 ELSE 0)
        /\ 0 = 0 + (IF cfg[c].write_policy = "through" THEN 0 + 0
                    ELSE IF cfg[c].write_miss_policy = "allocate" THEN 0 ELSE 0)
    OBVIOUS
  <2> QED
    BY <1>5, <2>2, HalfwayAccepted
<1>7. 1 + 0 = 1 /\ 0 + 0 = 0
  OBVIOUS
<1>8. Accepted(cfg, r, c, 1, 0)
  BY <1>6, <1>7
<1> QED
  BY <1>8 DEF ReadHit, r, a

LEMMA WriteBackCounts ==
  ASSUME NEW cfg, NEW c \in Caches, NEW w, Accepted(cfg, w, Below(cfg, c), 0, 1), NEW block
  PROVE  \E k \in Nat : Halfway(cfg, WriteBack(cfg, w, c, block), c, 0, k, 0, 0, 0, 0, k)
<1> DEFINE k == IF c = "l2" /\ Below(cfg, c) = "dram" THEN 0 ELSE 1
           g == Done(cfg, w.h, Below(cfg, c), Min(block))
           q == [w EXCEPT !.h = g]
           r == Count(q, c, "writebacks", k)
<1>1. k \in Nat /\ k \in Int /\ 0 + k = k
  OBVIOUS
<1>2. Halfway(cfg, w, c, 0, k, 0, 0, 0, 0, 0)
  BY AcceptedHalfway
<1> HIDE DEF k
<1>3. Halfway(cfg, q, c, 0, k, 0, 0, 0, 0, 0)
  <2> HIDE DEF g
  <2> QED
    BY <1>2, PutHalfway
<1> HIDE DEF q
<1>4. Halfway(cfg, r, c, 0, k, 0, 0, 0, 0, 0 + k)
  BY <1>1, <1>3, CountHalfway
<1> HIDE DEF r
<1>5. Halfway(cfg, r, c, 0, k, 0, 0, 0, 0, k)
  BY <1>1, <1>4
<1>6. WriteBack(cfg, w, c, block) = r
  BY DEF WriteBack, r, q, g, k
<1> QED
  BY <1>1, <1>5, <1>6

LEMMA EvictCounts ==
  ASSUME NEW cfg, IsMachine(cfg), NEW c \in Caches, NEW h, NEW addr,
         NEW w, Accepted(cfg, w, Below(cfg, c), 0, 1)
  PROVE  \E wb \in Nat : Halfway(cfg, evict(cfg, h, c, addr, w), c, 0, wb, 0, 0, 0, 0, wb)
<1> DEFINE lines == Lines(cfg, h, c, addr)
           way == Victim(lines)
           i == Index(addr, cfg[c])
           r == IF WritesBack(lines, way, cfg[c]) THEN WriteBack(cfg, w, c, Evicted(cfg, h, c, addr))
                ELSE Answer(h, 0, {})
           new == Place(r.h[c][i], way, addr, cfg[c], Now(cfg, c))
           g == WithSet(r.h, c, i, new)
           q == [r EXCEPT !.h = g]
<1>1. evict(cfg, h, c, addr, w) = IF Find(cfg, h, c, addr) # "free" THEN Fatal(h)
                                  ELSE Replace(cfg, h, c, addr, w, way)
  <2>1. cfg[c].replacement_policy \in {"FIFO", "LRU"}
    BY DEF IsMachine, IsGoodCache
  <2> QED
    BY <2>1 DEF evict, evict_lru, evict_fifo
<1>2. \E wb \in Nat : Halfway(cfg, r, c, 0, wb, 0, 0, 0, 0, wb)
  <2>1. Halfway(cfg, Answer(h, 0, {}), c, 0, 0, 0, 0, 0, 0, 0) /\ 0 \in Nat
    BY AnswerHalfway
  <2>2. \E wb \in Nat : Halfway(cfg, WriteBack(cfg, w, c, Evicted(cfg, h, c, addr)), c,
                                0, wb, 0, 0, 0, 0, wb)
    BY WriteBackCounts
  <2> QED
    BY <2>1, <2>2
<1>3. Replace(cfg, h, c, addr, w, way) = [r EXCEPT !.h[c][i] = Place(@, way, addr, cfg[c], Now(cfg, c))]
  BY DEF Replace
<1> HIDE DEF r, way, i
<1>4. IsReply(r)
  BY <1>2 DEF Halfway
<1>5. Replace(cfg, h, c, addr, w, way) = q
  BY <1>3, <1>4 DEF WithSet, IsReply, IsAnswer
<1>6. \E wb \in Nat : Halfway(cfg, q, c, 0, wb, 0, 0, 0, 0, wb)
  <2> HIDE DEF g
  <2> QED
    BY <1>2, PutHalfway
<1> HIDE DEF q
<1>7. CASE Find(cfg, h, c, addr) = "free"
  BY <1>1, <1>5, <1>6, <1>7
<1>8. CASE Find(cfg, h, c, addr) # "free"
  <2>1. Halfway(cfg, Fatal(h), c, 0, 0, 0, 0, 0, 0, 0) /\ 0 \in Nat
    BY FatalHalfway
  <2> QED
    BY <1>1, <1>8, <2>1
<1> QED
  BY <1>7, <1>8

(* What has been refused below is refused. *)
LEMMA ReadMissCounts ==
  ASSUME NEW cfg, IsMachine(cfg), NEW c \in Caches,
         NEW fetch, Told(cfg, fetch, Below(cfg, c), 1, 0),
         NEW next, \E wb \in Nat : Halfway(cfg, next, c, 0, wb, 0, 0, 0, 0, wb)
  PROVE  MissTold(cfg, ReadMiss(cfg, Then(fetch, next), c), c)
<1> DEFINE r == Then(fetch, next)
           a == Answer(r.h, cfg[c].read_latency, {})
           m == Count(a, c, "miss_r", 1)
           q == Then(r, m)
<1>1. CASE fetch.stalls = -1
  <2>1. r = fetch /\ q = fetch
    BY <1>1 DEF Then
  <2>2. MissTold(cfg, fetch, c)
    BY <1>1 DEF Told, MissTold
  <2> QED
    BY <2>1, <2>2 DEF ReadMiss
<1>2. CASE fetch.stalls # -1
  <2>1. PICK wb \in Nat : Halfway(cfg, next, c, 0, wb, 0, 0, 0, 0, wb)
    OBVIOUS
  <2>2. Accepted(cfg, fetch, Below(cfg, c), 1, 0)
    BY <1>2 DEF Told, Accepted
  <2>3. Halfway(cfg, fetch, c, 1, 0, 0, 0, 0, 0, 0)
    BY <2>2, AcceptedHalfway
  <2>0. 0 \in Int /\ 1 \in Int /\ wb \in Int
    OBVIOUS
  <2>4. Halfway(cfg, r, c, 0 + 1, wb + 0, 0 + 0, 0 + 0, 0 + 0, 0 + 0, wb + 0)
    BY Zenon, <2>0, <2>1, <2>3, ThenHalfway
  <2>5. cfg[c].read_latency \in Nat
    BY DEF IsMachine, IsGoodCache
  <2> HIDE DEF r
  <2>6. 0 + 1 = 1 /\ wb + 0 = wb /\ 0 + wb = wb /\ 0 + 0 = 0 /\ 1 + 0 = 1
    OBVIOUS
  <2>7. Halfway(cfg, r, c, 1, wb, 0, 0, 0, 0, wb)
    BY <2>4, <2>6
  <2>8. Halfway(cfg, a, c, 0, 0, 0, 0, 0, 0, 0)
    BY <2>5, AnswerHalfway
  <2> HIDE DEF a
  <2>9. Halfway(cfg, m, c, 0, 0, 0, 0 + 1, 0, 0, 0)
    BY Zenon, <2>0, <2>8, CountHalfway
  <2> HIDE DEF m
  <2>10. Halfway(cfg, m, c, 0, 0, 0, 1, 0, 0, 0)
    BY <2>6, <2>9
  <2>11. Halfway(cfg, q, c, 0 + 1, 0 + wb, 0 + 0, 1 + 0, 0 + 0, 0 + 0, 0 + wb)
    BY <2>7, <2>10, ThenHalfway
  <2> HIDE DEF q
  <2>12. Halfway(cfg, q, c, 1, wb, 0, 1, 0, 0, wb)
    BY <2>6, <2>11
  <2>13. MissTold(cfg, q, c)
    BY <2>12 DEF Halfway, MissTold
  <2> QED
    BY <2>13 DEF ReadMiss, q, m, a, r
<1> QED
  BY <1>1, <1>2

LEMMA ReadInCounts ==
  ASSUME NEW cfg, IsMachine(cfg), NEW c \in Caches, NEW h, NEW addr, NEW placed,
         MissTold(cfg, ReadMiss(cfg, placed, c), c)
  PROVE  /\ Told(cfg, ReadIn(cfg, h, c, addr, placed), c, 1, 0)
         /\ Find(cfg, h, c, addr) = "free" => MissTold(cfg, ReadIn(cfg, h, c, addr, placed), c)
<1> DEFINE outcome == Find(cfg, h, c, addr)
           r == ReadIn(cfg, h, c, addr, placed)
           miss == ReadMiss(cfg, placed, c)
<1>1. outcome \in {"hit", "busy", "free", "full"}
  BY FoundSomething DEF Find
<1> HIDE DEF outcome
<1>2. /\ outcome = "hit" => r = ReadHit(cfg, h, c, addr)
      /\ outcome = "busy" => r = Fatal(h)
      /\ outcome = "full" => r = Answer(h, -1, {})
      /\ outcome = "free" => r = miss
  BY <1>1 DEF ReadIn, outcome
<1> HIDE DEF r, miss
<1>3. Told(cfg, ReadHit(cfg, h, c, addr), c, 1, 0)
  BY ReadHitCounts, AcceptedTold
<1>4. Told(cfg, Fatal(h), c, 1, 0)
  BY FatalReplies DEF Told
<1>5. Told(cfg, Answer(h, -1, {}), c, 1, 0)
  BY AnswerReplies DEF Told
<1>6. Told(cfg, miss, c, 1, 0) /\ MissTold(cfg, miss, c)
  <2>0. MissTold(cfg, miss, c)
    BY DEF miss
  <2>1. CASE miss.fatal \/ miss.stalls = -1
    BY <2>0, <2>1 DEF MissTold, Told
  <2>2. CASE ~miss.fatal /\ miss.stalls # -1
    <3>1. PICK wb \in Nat : Partly(cfg, miss.counted, c, 1, wb, 0, 1, 0, 0, wb)
      BY <2>0, <2>2 DEF MissTold
    <3>2. Halfway(cfg, miss, c, 1, wb, 0, 1, 0, 0, wb)
      BY <2>0, <2>2, <3>1 DEF MissTold, Halfway
    <3>3. /\ 1 = 1 + (IF cfg[c].write_miss_policy = "allocate" THEN 0 ELSE 0)
          /\ wb = wb + (IF cfg[c].write_policy = "through" THEN 0 + 0
                        ELSE IF cfg[c].write_miss_policy = "allocate" THEN 0 ELSE 0)
      OBVIOUS
    <3>4. Accepted(cfg, miss, c, 0 + 1, 0 + 0)
      BY <3>2, <3>3, HalfwayAccepted
    <3>5. 0 + 1 = 1 /\ 0 + 0 = 0
      OBVIOUS
    <3>6. Accepted(cfg, miss, c, 1, 0)
      BY <3>4, <3>5
    <3> QED
      BY <2>0, <3>6, AcceptedTold
  <2> QED
    BY <2>1, <2>2
<1>7. Told(cfg, r, c, 1, 0)
  BY <1>1, <1>2, <1>3, <1>4, <1>5, <1>6
<1> QED
  BY <1>2, <1>6, <1>7 DEF r, outcome

(* What a hit of a write passes on. *)
Through(cfg, c) == IF cfg[c].write_policy = "through" THEN 1 ELSE 0

LEMMA WriteHitCounts ==
  ASSUME NEW cfg, IsMachine(cfg), NEW c \in Caches, NEW h, NEW addrs,
         NEW passed, Accepted(cfg, passed, Below(cfg, c), 0, 1)
  PROVE  /\ Halfway(cfg, WriteHit(cfg, h, c, addrs, passed), c, 0, Through(cfg, c), 0, 0, 1, 0, 0)
         /\ Accepted(cfg, WriteHit(cfg, h, c, addrs, passed), c, 0, 1)
<1> DEFINE stored == Stored(cfg, h, c, addrs, passed)
           t == Through(cfg, c)
           a == Answer(Use(cfg, stored.h, c, Min(addrs)), cfg[c].write_latency, {})
           k == Count(a, c, "hit_w", 1)
           r == WriteHit(cfg, h, c, addrs, passed)
<1>0. cfg[c].write_policy \in {"through", "back"} /\ cfg[c].write_latency \in Nat
  BY DEF IsMachine, IsGoodCache
<1>1. t \in Nat /\ t + 0 = t /\ 0 + t = t /\ 0 + 0 = 0 /\ 0 + 1 = 1 /\ 1 + 0 = 1
      /\ 0 \in Int /\ 1 \in Int /\ t \in Int
  BY DEF Through
<1>2. Halfway(cfg, stored, c, 0, t, 0, 0, 0, 0, 0)
  <2>1. CASE cfg[c].write_policy = "through"
    <3>1. stored = passed /\ t = 1
      BY <2>1 DEF Stored, Through
    <3> QED
      BY <3>1, AcceptedHalfway
  <2>2. CASE cfg[c].write_policy = "back"
    <3> DEFINE g == Flag(cfg, h, c, Min(addrs), "dirty", 1)
    <3>1. stored = Answer(g, 0, {}) /\ t = 0
      BY <2>2 DEF Stored, Through
    <3> HIDE DEF stored, t, g
    <3> QED
      BY <3>1, AnswerHalfway
  <2> QED
    BY <1>0, <2>1, <2>2
<1> HIDE DEF stored, t
<1>3. Halfway(cfg, a, c, 0, 0, 0, 0, 0, 0, 0)
  BY <1>0, AnswerHalfway
<1> HIDE DEF a
<1>4. Halfway(cfg, k, c, 0, 0, 0, 0, 0 + 1, 0, 0)
  BY Zenon, <1>1, <1>3, CountHalfway
<1> HIDE DEF k
<1>5. Halfway(cfg, k, c, 0, 0, 0, 0, 1, 0, 0)
  BY <1>1, <1>4
<1>6. Halfway(cfg, Then(stored, k), c, 0 + 0, 0 + t, 0 + 0, 0 + 0, 1 + 0, 0 + 0, 0 + 0)
  BY Zenon, <1>1, <1>2, <1>5, ThenHalfway
<1>7. r = Then(stored, k)
  BY DEF WriteHit, HitWritten, stored, k, a
<1> HIDE DEF r
<1>8. Halfway(cfg, r, c, 0, t, 0, 0, 1, 0, 0)
  BY <1>1, <1>6, <1>7
<1>9. Accepted(cfg, r, c, 0 + 0, 1 + 0)
  <2>1. /\ 0 = 0 + (IF cfg[c].write_miss_policy = "allocate" THEN 0 ELSE 0)
        /\ t = 0 + (IF cfg[c].write_policy = "through" THEN 1 + 0
                    ELSE IF cfg[c].write_miss_policy = "allocate" THEN 0 ELSE 0)
    BY DEF t, Through
  <2> QED
    BY <1>8, <2>1, HalfwayAccepted
<1>10. Accepted(cfg, r, c, 0, 1)
  BY <1>1, <1>9
<1> QED
  BY <1>8, <1>10 DEF r, t

LEMMA MissWrittenCounts ==
  ASSUME NEW cfg, IsMachine(cfg), NEW c \in Caches, cfg[c].write_miss_policy # "allocate",
         NEW passed, Accepted(cfg, passed, Below(cfg, c), 0, 1)
  PROVE  Accepted(cfg, MissWritten(passed, c), c, 0, 1)
<1> DEFINE r == Count(passed, c, "miss_w", 1)
<1>1. CASE passed.stalls = -1
  BY <1>1 DEF Accepted, MissWritten
<1>2. CASE passed.stalls # -1
  <2>1. Halfway(cfg, passed, c, 0, 1, 0, 0, 0, 0, 0)
    BY AcceptedHalfway
  <2>3. 0 + 1 = 1 /\ 0 + 0 = 0 /\ 0 \in Int /\ 1 \in Int
    OBVIOUS
  <2>2. Halfway(cfg, r, c, 0, 1, 0, 0, 0, 0 + 1, 0)
    BY Zenon, <2>1, <2>3, CountHalfway
  <2> HIDE DEF r
  <2>4. Halfway(cfg, r, c, 0, 1, 0, 0, 0, 1, 0)
    BY <2>2, <2>3
  <2>5. /\ 0 = 0 + (IF cfg[c].write_miss_policy = "allocate" THEN 1 ELSE 0)
        /\ 1 = 0 + (IF cfg[c].write_policy = "through" THEN 0 + 1
                    ELSE IF cfg[c].write_miss_policy = "allocate" THEN 0 ELSE 1)
    OBVIOUS
  <2>6. Accepted(cfg, r, c, 0 + 0, 0 + 1)
    BY <2>4, <2>5, HalfwayAccepted
  <2>7. Accepted(cfg, r, c, 0, 1)
    BY <2>3, <2>6
  <2> QED
    BY <1>2, <2>7 DEF MissWritten, r
<1> QED
  BY <1>1, <1>2

LEMMA WriteInCounts ==
  ASSUME NEW cfg, IsMachine(cfg), NEW c \in Caches, NEW h, NEW addrs,
         NEW passed, Accepted(cfg, passed, Below(cfg, c), 0, 1), NEW allocated,
         /\ cfg[c].write_miss_policy = "allocate" /\ Find(cfg, h, c, Min(addrs)) = "free"
         => Told(cfg, allocated, c, 0, 1)
  PROVE  /\ Told(cfg, WriteIn(cfg, h, c, addrs, passed, allocated), c, 0, 1)
         /\ cfg[c].write_miss_policy # "allocate" =>
              Accepted(cfg, WriteIn(cfg, h, c, addrs, passed, allocated), c, 0, 1)
<1> DEFINE outcome == Find(cfg, h, c, Min(addrs))
           allocates == cfg[c].write_miss_policy = "allocate"
           r == WriteIn(cfg, h, c, addrs, passed, allocated)
<1>1. outcome \in {"hit", "busy", "free", "full"}
  BY FoundSomething DEF Find
<1> HIDE DEF outcome
<1>2. /\ outcome = "busy" => r = Fatal(h)
      /\ outcome = "hit" => r = WriteHit(cfg, h, c, addrs, passed)
      /\ outcome = "full" /\ allocates => r = Answer(h, -1, {})
      /\ outcome = "free" /\ allocates => r = allocated
      /\ outcome \in {"full", "free"} /\ ~allocates => r = MissWritten(passed, c)
  BY <1>1 DEF WriteIn, outcome
<1> HIDE DEF r
<1>3. Accepted(cfg, Fatal(h), c, 0, 1)
  BY FatalReplies DEF Accepted
<1>4. Accepted(cfg, WriteHit(cfg, h, c, addrs, passed), c, 0, 1)
  BY WriteHitCounts
<1>5. Told(cfg, Answer(h, -1, {}), c, 0, 1)
  BY AnswerReplies DEF Told
<1>6. ~allocates => Accepted(cfg, MissWritten(passed, c), c, 0, 1)
  BY MissWrittenCounts
<1>7. outcome = "free" /\ allocates => Told(cfg, allocated, c, 0, 1)
  BY DEF outcome
<1> HIDE DEF allocates
<1>8. ~allocates => Accepted(cfg, r, c, 0, 1)
  BY <1>1, <1>2, <1>3, <1>4, <1>6
<1>9. Told(cfg, r, c, 0, 1)
  BY <1>1, <1>2, <1>3, <1>4, <1>5, <1>7, <1>8, AcceptedTold
<1> QED
  BY <1>8, <1>9 DEF r, allocates

(* A write miss that reads the block first: the read's miss and the second *)
(* write's hit are taken back.                                             *)
LEMMA AllocatedCounts ==
  ASSUME NEW cfg, IsMachine(cfg), NEW c \in Caches, cfg[c].write_miss_policy = "allocate",
         NEW h, NEW addrs, NEW r, MissTold(cfg, r, c),
         NEW w, Halfway(cfg, w, c, 0, Through(cfg, c), 0, 0, 1, 0, 0)
  PROVE  Told(cfg, Then(r, Repeated(cfg, h, c, addrs, w)), c, 0, 1)
<1> DEFINE t == Through(cfg, c)
           n == Repeated(cfg, h, c, addrs, w)
           p == Count(w, c, "miss_r", -1)
           q == Count(p, c, "hit_w", -1)
           s == Count(q, c, "miss_w", 1)
           all == Then(r, n)
<1>0. t \in Nat /\ 0 + -1 = -1 /\ 1 + -1 = 0 /\ 0 + 1 = 1 /\ 1 + 0 = 1 /\ 0 + 0 = 0 /\ -1 + 1 = 0
      /\ -1 \in Int /\ 0 \in Int /\ 1 \in Int /\ t \in Int
  BY DEF Through
<1> HIDE DEF t
<1>1. Halfway(cfg, w, c, 0, t, 0, 0, 1, 0, 0)
  BY DEF t
<1>2. Halfway(cfg, s, c, 0, t, 0, -1, 0, 1, 0)
  <2>1. Halfway(cfg, p, c, 0, t, 0, 0 + -1, 1, 0, 0)
    BY <1>0, <1>1, CountHalfway
  <2> HIDE DEF p
  <2>2. Halfway(cfg, p, c, 0, t, 0, -1, 1, 0, 0)
    BY <1>0, <2>1
  <2>3. Halfway(cfg, q, c, 0, t, 0, -1, 1 + -1, 0, 0)
    BY Zenon, <1>0, <2>2, CountHalfway
  <2> HIDE DEF q
  <2>4. Halfway(cfg, q, c, 0, t, 0, -1, 0, 0, 0)
    BY <1>0, <2>3
  <2>5. Halfway(cfg, s, c, 0, t, 0, -1, 0, 0 + 1, 0)
    BY <1>0, <2>4, CountHalfway
  <2> HIDE DEF s
  <2> QED
    BY <1>0, <2>5
<1>3. Halfway(cfg, n, c, 0, t, 0, -1, 0, 1, 0)
  <2>1. CASE Find(cfg, h, c, Min(addrs)) # "hit" \/ w.stalls = -1
    <3>1. n = Fatal(h)
      BY <2>1 DEF Repeated
    <3> QED
      BY <3>1, FatalHalfway
  <2>2. CASE ~(Find(cfg, h, c, Min(addrs)) # "hit" \/ w.stalls = -1)
    <3>1. n = s
      BY <2>2 DEF Repeated, Corrected
    <3> HIDE DEF n, s
    <3> QED
      BY <1>2, <3>1
  <2> QED
    BY <2>1, <2>2
<1> HIDE DEF n
<1>4. CASE r.stalls = -1
  <2>1. all = r
    BY <1>4 DEF Then
  <2>2. Told(cfg, r, c, 0, 1)
    BY <1>4 DEF MissTold, Told
  <2> QED
    BY <2>1, <2>2 DEF n
<1>5. CASE r.stalls # -1
  <2>1. PICK wb \in Nat : ~r.fatal => Partly(cfg, r.counted, c, 1, wb, 0, 1, 0, 0, wb)
    <3>1. CASE r.fatal
      <4>1. 0 \in Nat
        OBVIOUS
      <4> QED
        BY <3>1, <4>1
    <3>2. CASE ~r.fatal
      BY <1>5, <3>2 DEF MissTold
    <3> QED
      BY <3>1, <3>2
  <2>2. Halfway(cfg, r, c, 1, wb, 0, 1, 0, 0, wb)
    BY <1>5, <2>1 DEF MissTold, Halfway
  <2>3. 0 + wb = wb /\ wb \in Int
    OBVIOUS
  <2>4. Halfway(cfg, all, c, 0 + 1, t + wb, 0 + 0, -1 + 1, 0 + 0, 1 + 0, 0 + wb)
    <3>1. ASSUME NEW m \in Int, Halfway(cfg, n, c, 0, t, 0, m, 0, 1, 0)
          PROVE  Halfway(cfg, all, c, 0 + 1, t + wb, 0 + 0, m + 1, 0 + 0, 1 + 0, 0 + wb)
      BY <1>0, <2>2, <2>3, <3>1, ThenHalfway
    <3> HIDE DEF all
    <3> QED
      BY <1>0, <1>3, <3>1
  <2> HIDE DEF all
  <2>5. Halfway(cfg, all, c, 1, t + wb, 0, 0, 0, 1, wb)
    BY <1>0, <2>4, <2>3
  <2>6. /\ 1 = 0 + (IF cfg[c].write_miss_policy = "allocate" THEN 1 ELSE 0)
        /\ t + wb = wb + (IF cfg[c].write_policy = "through" THEN 0 + 1
                          ELSE IF cfg[c].write_miss_policy = "allocate" THEN 0 ELSE 1)
    BY DEF t, Through
  <2>7. Accepted(cfg, all, c, 0 + 0, 0 + 1)
    BY <2>5, <2>6, HalfwayAccepted
  <2>8. Accepted(cfg, all, c, 0, 1)
    BY <1>0, <2>7
  <2>9. Told(cfg, all, c, 0, 1)
    BY <2>8, AcceptedTold
  <2> QED
    BY <2>9 DEF all, n
<1> QED
  BY <1>4, <1>5

-----------------------------------------------------------------------------
(* The levels *)

LEMMA ThirdReadCounts ==
  ASSUME NEW cfg, IsMachine(cfg), NEW h, NEW addr
  PROVE  Told(cfg, l3_read(cfg, h, addr), "l3", 1, 0)
<1> DEFINE fetch == FromDram(cfg, h)
           w == ToDram(cfg, fetch.h, Evicted(cfg, fetch.h, "l3", addr))
           next == evict(cfg, fetch.h, "l3", addr, w)
           placed == Then(fetch, next)
<1>0. "l3" \in Caches /\ Below(cfg, "l3") = "dram"
  BY BelowFacts DEF Caches
<1>1. Told(cfg, fetch, Below(cfg, "l3"), 1, 0)
  BY <1>0, DramCounts
<1>2. Accepted(cfg, w, Below(cfg, "l3"), 0, 1)
  BY <1>0, DramCounts
<1> HIDE DEF w, fetch
<1>3. \E wb \in Nat : Halfway(cfg, next, "l3", 0, wb, 0, 0, 0, 0, wb)
  BY <1>0, <1>2, EvictCounts
<1> HIDE DEF next
<1>4. MissTold(cfg, ReadMiss(cfg, placed, "l3"), "l3")
  BY <1>0, <1>1, <1>3, ReadMissCounts
<1> HIDE DEF placed
<1>5. Told(cfg, ReadIn(cfg, h, "l3", addr, placed), "l3", 1, 0)
  BY <1>0, <1>4, ReadInCounts
<1> QED
  BY <1>5 DEF l3_read, l3_placed, l3_evict, placed, next, w, fetch

LEMMA ThirdWriteCounts ==
  ASSUME NEW cfg, IsMachine(cfg), cfg["l3"].write_miss_policy # "allocate", NEW h, NEW addrs
  PROVE  Accepted(cfg, l3_write(cfg, h, addrs), "l3", 0, 1)
<1> DEFINE passed == ToDram(cfg, h, addrs)
           allocated == l3_allocated(cfg, l3_read(cfg, h, Min(addrs)), addrs)
<1>0. "l3" \in Caches /\ Below(cfg, "l3") = "dram"
  BY BelowFacts DEF Caches
<1>1. Accepted(cfg, passed, Below(cfg, "l3"), 0, 1)
  BY <1>0, DramCounts
<1> HIDE DEF passed, allocated
<1>2. Accepted(cfg, WriteIn(cfg, h, "l3", addrs, passed, allocated), "l3", 0, 1)
  BY <1>0, <1>1, WriteInCounts
<1> QED
  BY <1>2 DEF l3_write, passed, allocated

LEMMA SecondFetchCounts ==
  ASSUME NEW cfg, IsMachine(cfg), NEW h, NEW addr
  PROVE  Told(cfg, l2_fetch(cfg, h, addr), Below(cfg, "l2"), 1, 0)
<1>1. Below(cfg, "l2") \in {"l3", "dram"}
  BY BelowFacts
<1>2. CASE Below(cfg, "l2") = "l3"
  BY <1>2, ThirdReadCounts DEF l2_fetch
<1>3. CASE Below(cfg, "l2") = "dram"
  BY <1>3, DramCounts DEF l2_fetch
<1> QED
  BY <1>1, <1>2, <1>3

LEMMA SecondPassCounts ==
  ASSUME NEW cfg, IsMachine(cfg), Bypasses(cfg), NEW h, NEW addrs
  PROVE  Accepted(cfg, l2_pass(cfg, h, addrs), Below(cfg, "l2"), 0, 1)
<1>1. Below(cfg, "l2") \in {"l3", "dram"} /\ "l2" \in Caches
  BY BelowFacts DEF Caches
<1>2. CASE Below(cfg, "l2") = "l3"
  <2>1. cfg["l3"].write_miss_policy # "allocate"
    BY <1>1, <1>2 DEF Bypasses
  <2> QED
    BY <1>2, <2>1, ThirdWriteCounts DEF l2_pass
<1>3. CASE Below(cfg, "l2") = "dram"
  BY <1>3, DramCounts DEF l2_pass
<1> QED
  BY <1>1, <1>2, <1>3

LEMMA SecondReadCounts ==
  ASSUME NEW cfg, IsMachine(cfg), Bypasses(cfg), NEW h, NEW addr
  PROVE  Told(cfg, l2_read(cfg, h, addr), "l2", 1, 0)
<1> DEFINE fetch == l2_fetch(cfg, h, addr)
           w == l2_pass(cfg, fetch.h, Evicted(cfg, fetch.h, "l2", addr))
           next == evict(cfg, fetch.h, "l2", addr, w)
           placed == Then(fetch, next)
<1>0. "l2" \in Caches
  BY DEF Caches
<1>1. Told(cfg, fetch, Below(cfg, "l2"), 1, 0)
  BY SecondFetchCounts
<1>2. Accepted(cfg, w, Below(cfg, "l2"), 0, 1)
  BY SecondPassCounts
<1> HIDE DEF w, fetch
<1>3. \E wb \in Nat : Halfway(cfg, next, "l2", 0, wb, 0, 0, 0, 0, wb)
  BY <1>0, <1>2, EvictCounts
<1> HIDE DEF next
<1>4. MissTold(cfg, ReadMiss(cfg, placed, "l2"), "l2")
  BY <1>0, <1>1, <1>3, ReadMissCounts
<1> HIDE DEF placed
<1>5. Told(cfg, ReadIn(cfg, h, "l2", addr, placed), "l2", 1, 0)
  BY <1>0, <1>4, ReadInCounts
<1> QED
  BY <1>5 DEF l2_read, l2_placed, l2_evict, placed, next, w, fetch

LEMMA SecondWriteCounts ==
  ASSUME NEW cfg, IsMachine(cfg), Bypasses(cfg), cfg["l2"].write_miss_policy # "allocate",
         NEW h, NEW addrs
  PROVE  Accepted(cfg, l2_write(cfg, h, addrs), "l2", 0, 1)
<1> DEFINE passed == l2_pass(cfg, h, addrs)
           allocated == l2_allocated(cfg, l2_read(cfg, h, Min(addrs)), addrs)
<1>0. "l2" \in Caches
  BY DEF Caches
<1>1. Accepted(cfg, passed, Below(cfg, "l2"), 0, 1)
  BY SecondPassCounts
<1> HIDE DEF passed, allocated
<1>2. Accepted(cfg, WriteIn(cfg, h, "l2", addrs, passed, allocated), "l2", 0, 1)
  BY <1>0, <1>1, WriteInCounts
<1> QED
  BY <1>2 DEF l2_write, passed, allocated

LEMMA FirstFetchCounts ==
  ASSUME NEW cfg, IsMachine(cfg), Bypasses(cfg), NEW h, NEW addr
  PROVE  Told(cfg, l1_fetch(cfg, h, "l1_d", addr), Below(cfg, "l1_d"), 1, 0)
<1>1. Below(cfg, "l1_d") \in {"l2", "dram"}
  BY BelowFacts
<1>2. CASE Below(cfg, "l1_d") = "l2"
  BY <1>2, SecondReadCounts DEF l1_fetch
<1>3. CASE Below(cfg, "l1_d") = "dram"
  BY <1>3, DramCounts DEF l1_fetch
<1> QED
  BY <1>1, <1>2, <1>3

LEMMA FirstPassCounts ==
  ASSUME NEW cfg, IsMachine(cfg), Bypasses(cfg), NEW h, NEW addrs
  PROVE  Accepted(cfg, l1_pass(cfg, h, "l1_d", addrs), Below(cfg, "l1_d"), 0, 1)
<1>1. Below(cfg, "l1_d") \in {"l2", "dram"} /\ "l1_d" \in Caches
  BY BelowFacts DEF Caches
<1>2. CASE Below(cfg, "l1_d") = "l2"
  <2>1. cfg["l2"].write_miss_policy # "allocate"
    BY <1>1, <1>2 DEF Bypasses
  <2> QED
    BY <1>2, <2>1, SecondWriteCounts DEF l1_pass
<1>3. CASE Below(cfg, "l1_d") = "dram"
  BY <1>3, DramCounts DEF l1_pass
<1> QED
  BY <1>1, <1>2, <1>3

LEMMA FirstReadCounts ==
  ASSUME NEW cfg, IsMachine(cfg), Bypasses(cfg), NEW h, NEW addr
  PROVE  /\ Told(cfg, l1_read(cfg, h, "l1_d", addr), "l1_d", 1, 0)
         /\ Find(cfg, h, "l1_d", addr) = "free" =>
              MissTold(cfg, l1_read(cfg, h, "l1_d", addr), "l1_d")
<1> DEFINE fetch == l1_fetch(cfg, h, "l1_d", addr)
           w == l1_pass(cfg, fetch.h, "l1_d", Evicted(cfg, fetch.h, "l1_d", addr))
           next == evict(cfg, fetch.h, "l1_d", addr, w)
           placed == Then(fetch, next)
           r == ReadIn(cfg, h, "l1_d", addr, placed)
<1>0. "l1_d" \in Caches
  BY DEF Caches
<1>1. Told(cfg, fetch, Below(cfg, "l1_d"), 1, 0)
  BY FirstFetchCounts
<1>2. Accepted(cfg, w, Below(cfg, "l1_d"), 0, 1)
  BY FirstPassCounts
<1> HIDE DEF w, fetch
<1>3. \E wb \in Nat : Halfway(cfg, next, "l1_d", 0, wb, 0, 0, 0, 0, wb)
  BY <1>0, <1>2, EvictCounts
<1> HIDE DEF next
<1>4. MissTold(cfg, ReadMiss(cfg, placed, "l1_d"), "l1_d")
  BY <1>0, <1>1, <1>3, ReadMissCounts
<1> HIDE DEF placed
<1>5. /\ Told(cfg, r, "l1_d", 1, 0)
      /\ Find(cfg, h, "l1_d", addr) = "free" => MissTold(cfg, r, "l1_d")
  BY <1>0, <1>4, ReadInCounts
<1>6. l1_read(cfg, h, "l1_d", addr) = r
  BY DEF l1_read, l1_placed, l1_evict, placed, next, w, fetch
<1> HIDE DEF r
<1> QED
  BY <1>5, <1>6

LEMMA FirstWriteCounts ==
  ASSUME NEW cfg, IsMachine(cfg), Bypasses(cfg), NEW h, NEW addrs
  PROVE  Told(cfg, l1_write(cfg, h, "l1_d", addrs), "l1_d", 0, 1)
<1> DEFINE passed == l1_pass(cfg, h, "l1_d", addrs)
           r == l1_read(cfg, h, "l1_d", Min(addrs))
           g == Done(cfg, r.h, "l1_d", Min(addrs))
           hit == WriteHit(cfg, g, "l1_d", addrs, l1_pass(cfg, g, "l1_d", addrs))
           again == Repeated(cfg, g, "l1_d", addrs, hit)
           allocated == Then(r, again)
<1>0. "l1_d" \in Caches
  BY DEF Caches
<1>1. Accepted(cfg, passed, Below(cfg, "l1_d"), 0, 1)
  BY FirstPassCounts
<1>2. Find(cfg, h, "l1_d", Min(addrs)) = "free" => MissTold(cfg, r, "l1_d")
  BY FirstReadCounts
<1>3. Accepted(cfg, l1_pass(cfg, g, "l1_d", addrs), Below(cfg, "l1_d"), 0, 1)
  BY FirstPassCounts
<1> HIDE DEF passed, r, g
<1>4. Halfway(cfg, hit, "l1_d", 0, Through(cfg, "l1_d"), 0, 0, 1, 0, 0)
  BY <1>0, <1>3, WriteHitCounts
<1> HIDE DEF hit
<1>5. cfg["l1_d"].write_miss_policy = "allocate" /\ Find(cfg, h, "l1_d", Min(addrs)) = "free"
      => Told(cfg, allocated, "l1_d", 0, 1)
  BY <1>0, <1>2, <1>4, AllocatedCounts
<1> HIDE DEF again, allocated
<1>6. Told(cfg, WriteIn(cfg, h, "l1_d", addrs, passed, allocated), "l1_d", 0, 1)
  BY <1>0, <1>1, <1>5, WriteInCounts
<1> QED
  BY <1>6 DEF l1_write, l1_allocated, l1_again, passed, allocated, again, hit, g, r

-----------------------------------------------------------------------------
(* The counters of the access MA makes *)

LEMMA SameReckons ==
  ASSUME NEW cfg, NEW f, NEW b, NEW x, NEW y, Reckons(cfg, f, b, x, y),
         NEW g, IsTally(g), \A k : Amount(g, k) = Amount(f, k)
  PROVE  Reckons(cfg, g, b, x, y)
<1>1. \A d : ReadsOf(g, d) = ReadsOf(f, d) /\ WritesOf(g, d) = WritesOf(f, d)
             /\ AllocatedOf(cfg, g, d) = AllocatedOf(cfg, f, d)
  BY DEF ReadsOf, WritesOf, AllocatedOf
<1>2. \A d : PassedOnOf(cfg, g, d) = PassedOnOf(cfg, f, d)
  BY <1>1 DEF PassedOnOf
<1>3. \A d : Agrees(cfg, f, d) => Agrees(cfg, g, d)
  BY <1>1, <1>2 DEF Agrees
<1>4. \A d : Own(f, d, 0, 0, 0, 0, 0) => Own(g, d, 0, 0, 0, 0, 0)
  BY DEF Own
<1> QED
  BY <1>1, <1>3, <1>4 DEF Reckons

LEMMA PlusNothing ==
  ASSUME NEW f, IsTally(f)
  PROVE  /\ IsTally(Plus(f, Nothing)) /\ \A k : Amount(Plus(f, Nothing), k) = Amount(f, k)
         /\ IsTally(Plus(Nothing, f)) /\ \A k : Amount(Plus(Nothing, f), k) = Amount(f, k)
<1>1. \A k : Amount(f, k) \in Int
  BY DEF IsTally
<1> QED
  BY <1>1, PlusAdds, NoAmount

LEMMA NothingPlusNothing == Plus(Nothing, Nothing) = Nothing
<1> DEFINE T == {k \in DOMAIN Nothing \cup DOMAIN Nothing : Amount(Nothing, k) + Amount(Nothing, k) # 0}
<1>1. T = {}
  BY DEF Nothing
<1>2. Plus(Nothing, Nothing) = [k \in T |-> Amount(Nothing, k) + Amount(Nothing, k)]
  BY DEF Plus
<1> HIDE DEF T
<1> QED
  BY <1>1, <1>2 DEF Nothing

LEMMA CountedIsPositive ==
  ASSUME NEW f, NEW g, IsTally(f), IsTally(g), DOMAIN f \subseteq Counters, DOMAIN g \subseteq Counters,
         \A d \in Caches : \A kind \in Kinds : Amount(Plus(f, g), <<d, kind>>) >= 0
  PROVE  \A k \in DOMAIN Plus(f, g) : Plus(f, g)[k] > 0
<1> DEFINE T == {k \in DOMAIN f \cup DOMAIN g : Amount(f, k) + Amount(g, k) # 0}
           sum(k) == Amount(f, k) + Amount(g, k)
           s == Plus(f, g)
<1>1. s = [k \in T |-> sum(k)]
  BY Zenon DEF Plus
<1>2. ASSUME NEW k \in DOMAIN s
      PROVE  s[k] > 0
  <2>1. k \in T /\ s[k] = sum(k)
    <3> HIDE DEF sum, T, s
    <3> QED
      BY <1>1, <1>2
  <2>2. k \in Counters /\ sum(k) # 0
    BY <2>1
  <2>3. Amount(s, k) = s[k]
    BY <1>2 DEF Amount
  <2>4. sum(k) \in Int
    BY DEF IsTally
  <2>5. PICK d \in Caches, kind \in Kinds : k = <<d, kind>>
    BY <2>2 DEF Counters, Kinds
  <2>6. Amount(s, k) >= 0
    BY <2>5
  <2> HIDE DEF sum, s
  <2> QED
    BY <2>1, <2>2, <2>3, <2>4, <2>6
<1> QED
  BY <1>2

Asked(a) == IF a.port = "r" THEN set_read_counter(a.addr) ELSE set_write_counter(a.addr)

Load(port) == IF port = "r" THEN 1 ELSE 0

Store(port) == IF port = "w" THEN 1 ELSE 0

(* What one access of MA counts, or none. *)
OneAccess(cfg, f, port) ==
  f = Nothing \/ (cfg.CACHE_LEVELS > 0 /\ Reckons(cfg, f, "l1_d", Load(port), Store(port)))

LEMMA AskedCounts ==
  ASSUME CachesInv, Bypasses(config), NEW a \in Accesses
  PROVE  /\ IsReply(Asked(a))
         /\ ~Asked(a).fatal => /\ OneAccess(config, Asked(a).counted, a.port)
                               /\ Asked(a).stalls = -1 => Asked(a).counted = Nothing
<1>1. a.port \in {"r", "w"} /\ IsMachine(config) /\ config.CACHE_LEVELS \in -1 .. 3
  BY MachineFacts DEF Accesses, CachesInv, IsMachine
<1> DEFINE ports == {1, config.DRAM_READ_LATENCY, config.DRAM_WRITE_LATENCY}
<1>2. ports \subseteq {-1} \cup Nat
  BY <1>1 DEF IsMachine
<1>3. ASSUME NEW n \in ports, NEW saved
      PROVE  IsReply(Answer(caches, n, saved)) /\ Answer(caches, n, saved).counted = Nothing
  BY <1>2, AnswerReplies
<1> HIDE DEF ports
<1>4. CASE config.CACHE_LEVELS \in {-1, 0}
  <2>1. \E n \in ports, saved \in {{}, {a.addr}} : Asked(a) = Answer(caches, n, saved)
    BY <1>1, <1>4 DEF Asked, set_read_counter, set_write_counter, ports
  <2> QED
    BY <1>3, <2>1 DEF OneAccess
<1>5. CASE config.CACHE_LEVELS \notin {-1, 0}
  <2>1. config.CACHE_LEVELS > 0
    BY <1>1, <1>5
  <2>2. CASE a.port = "r"
    <3>1. Asked(a) = l1_read(config, caches, "l1_d", a.addr)
      BY <1>5, <2>2 DEF Asked, set_read_counter
    <3>2. Load(a.port) = 1 /\ Store(a.port) = 0
      BY <2>2 DEF Load, Store
    <3>3. Told(config, Asked(a), "l1_d", 1, 0)
      BY <1>1, <3>1, FirstReadCounts
    <3> QED
      BY <2>1, <3>2, <3>3 DEF Told, OneAccess
  <2>3. CASE a.port = "w"
    <3>1. Asked(a) = l1_write(config, caches, "l1_d", {a.addr})
      BY <1>5, <2>3 DEF Asked, set_write_counter
    <3>2. Load(a.port) = 0 /\ Store(a.port) = 1
      BY <2>3 DEF Load, Store
    <3>3. Told(config, Asked(a), "l1_d", 0, 1)
      BY <1>1, <3>1, FirstWriteCounts
    <3> QED
      BY <2>1, <3>2, <3>3 DEF Told, OneAccess
  <2> QED
    BY <1>1, <2>2, <2>3
<1> QED
  BY <1>4, <1>5

Positive(f) == \A k \in DOMAIN f : f[k] > 0

(* An access counts when the caches answer it, and the counts stay until   *)
(* the cycle that completes it.                                            *)
CountsInv ==
  /\ phase = "IF" => counted = Nothing
  /\ phase = "MA" /\ (mfc = "COMPLETED" \/ counter[access.port] < 0) => counted = Nothing
  /\ OneAccess(config, counted, access.port) /\ IsTally(counted)
  /\ counted # Nothing => Positive(counted)

LEMMA TransferCounts ==
  ASSUME CachesInv, CountsInv, Bypasses(config), Transfer
  PROVE  CountsInv'
<1>1. PICK a \in NextAccesses :
        /\ DataDone(a, DataCall(a)) \/ DataPending(DataCall(a))
        /\ Accessed(a, DataCall(a))
  BY DEF Transfer
<1>2. /\ UNCHANGED <<config, status, mfc_i, mar_i>> /\ phase = "MA"
      /\ a \in Accesses /\ (mfc = "NOT_COMPLETED" => access = a)
      /\ mfc \in {"COMPLETED", "NOT_COMPLETED"}
  BY DEF Transfer, Runs, NextAccesses, CachesInv, PortsInv
<1>3. a.port \in {"r", "w"} /\ counter[a.port] \in {-2, -1} \cup Nat
      /\ DOMAIN counter = {"i", "r", "w"}
  BY <1>2 DEF Accesses, CachesInv, PortsInv
<1> DEFINE asked == Asked(a)
           r == IF counter[a.port] < 0 THEN asked ELSE Answer(caches, 1, {})
           attempt == Attempt(counter[a.port], r.stalls)
           call == DataCall(a)
<1>4. call = Outcome(a.port, a.addr, r, attempt)
  BY DEF DataCall, Call, Attempted, Asked
<1>5. /\ IsReply(asked)
      /\ ~asked.fatal => /\ OneAccess(config, asked.counted, a.port)
                         /\ asked.stalls = -1 => asked.counted = Nothing
  BY <1>2, AskedCounts
<1> HIDE DEF asked
<1>6. IsReply(r)
  <2>1. IsReply(Answer(caches, 1, {}))
    BY AnswerReplies
  <2> QED
    BY <1>5, <2>1
<1>7. counter[a.port] >= 0 => r.counted = Nothing
  BY <1>3, AnswerReplies
<1>8. counter[a.port] < 0 => r = asked
  OBVIOUS
<1> HIDE DEF r
<1>9. attempt.result = "pending" /\ attempt.counter < 0 => counter[a.port] < 0 /\ r.stalls = -1
  BY <1>3, <1>6, AttemptRuns DEF IsReply, IsAnswer
<1> HIDE DEF attempt, call
<1>10. /\ call.result = IF r.fatal THEN "fatal" ELSE attempt.result
       /\ call.counted = r.counted /\ call.counter = [counter EXCEPT ![a.port] = attempt.counter]
  BY <1>4 DEF Outcome
<1>11. /\ call.result \in {"done", "pending"}
       /\ access' = a /\ counter' = call.counter /\ counted' = Plus(counted, r.counted)
       /\ call.result = "done" => phase' = "ID"
       /\ call.result = "pending" => phase' = "MA" /\ mfc' = "NOT_COMPLETED"
  BY <1>1, <1>10 DEF DataDone, DataPending, Accessed, call
<1>12. ~r.fatal
  BY <1>10, <1>11
<1>13. DOMAIN counted \subseteq Counters /\ IsTally(counted) /\ DOMAIN Nothing \subseteq Counters
  BY DEF CachesInv, PortsInv, CountsInv, Nothing
<1>14. ASSUME counter[a.port] < 0, r.counted = Nothing
       PROVE  counted' = Nothing
  <2>1. counted = Nothing
    BY <1>2, <1>14 DEF CountsInv
  <2> QED
    BY <1>11, <1>14, <2>1, NothingPlusNothing
<1>15. ASSUME counted' # Nothing
       PROVE  /\ config.CACHE_LEVELS > 0
              /\ Reckons(config, counted', "l1_d", Load(a.port), Store(a.port))
              /\ IsTally(counted') /\ Positive(counted')
  <2>1. CASE counter[a.port] < 0
    <3>1. counted = Nothing /\ r.counted # Nothing
      BY <1>2, <1>14, <1>15, <2>1 DEF CountsInv
    <3>2. config.CACHE_LEVELS > 0 /\ Reckons(config, r.counted, "l1_d", Load(a.port), Store(a.port))
      BY <1>5, <1>8, <1>12, <2>1, <3>1 DEF OneAccess
    <3>3. IsTally(r.counted) /\ DOMAIN r.counted \subseteq Counters
      BY <1>6 DEF IsReply, IsAnswer
    <3>4. IsTally(counted') /\ \A k : Amount(counted', k) = Amount(r.counted, k)
      BY <1>11, <3>1, <3>3, PlusNothing
    <3>5. Reckons(config, counted', "l1_d", Load(a.port), Store(a.port))
      BY <3>2, <3>4, SameReckons
    <3>6. Positive(counted')
      BY <1>11, <1>13, <3>3, <3>5, CountedIsPositive DEF Reckons, Positive
    <3> QED
      BY <3>2, <3>4, <3>5, <3>6
  <2>2. CASE counter[a.port] >= 0
    <3>1. r.counted = Nothing /\ counted' = Plus(counted, Nothing)
      BY <1>7, <1>11, <2>2
    <3>2. counted # Nothing
      BY <1>15, <3>1, NothingPlusNothing
    <3>3. mfc = "NOT_COMPLETED" /\ access = a
      BY <1>2, <3>2 DEF CountsInv
    <3>4. config.CACHE_LEVELS > 0 /\ Reckons(config, counted, "l1_d", Load(a.port), Store(a.port))
      BY <3>2, <3>3 DEF CountsInv, OneAccess
    <3>5. IsTally(counted') /\ \A k : Amount(counted', k) = Amount(counted, k)
      BY <1>13, <3>1, PlusNothing
    <3>6. Reckons(config, counted', "l1_d", Load(a.port), Store(a.port))
      BY <3>4, <3>5, SameReckons
    <3>7. Positive(counted')
      BY <1>13, <3>1, <3>6, NoAmount, CountedIsPositive DEF Reckons, Positive
    <3> QED
      BY <3>4, <3>5, <3>6, <3>7
  <2> QED
    BY <1>3, <2>1, <2>2
<1>16. OneAccess(config, counted', a.port) /\ IsTally(counted')
       /\ (counted' # Nothing => Positive(counted'))
  BY <1>15, NoAmount DEF OneAccess
<1>17. CASE call.result = "done"
  <2>1. phase' = "ID"
    BY <1>11, <1>17
  <2> QED
    BY <1>2, <1>11, <1>16, <2>1 DEF CountsInv
<1>18. CASE call.result = "pending"
  <2>1. phase' = "MA" /\ mfc' = "NOT_COMPLETED"
    BY <1>11, <1>18
  <2>2. counter'[access'.port] = attempt.counter /\ attempt.result = "pending"
    BY <1>3, <1>10, <1>11, <1>12, <1>18
  <2>3. counter'[access'.port] < 0 => counted' = Nothing
    BY <1>5, <1>8, <1>9, <1>12, <1>14, <2>2
  <2> QED
    BY <1>2, <1>11, <1>16, <2>1, <2>3 DEF CountsInv
<1> QED
  BY <1>11, <1>17, <1>18

LEMMA NothingCounts ==
  \A cfg, port : OneAccess(cfg, Nothing, port) /\ IsTally(Nothing)
BY NoAmount DEF OneAccess

LEMMA NextCounts ==
  ASSUME CachesInv, CountsInv, Bypasses(config), [Next]_vars
  PROVE  CountsInv'
<1>1. CASE Transfer
  BY <1>1, TransferCounts
<1>2. CASE NoAccess \/ Flush
  <2>1. counted' = Nothing /\ phase' = "ID"
    BY <1>2 DEF NoAccess, Flush, Runs, CountsInv
  <2> QED
    BY <2>1, NothingCounts DEF CountsInv
<1>3. CASE Proceed \/ Stall \/ Redirect
  <2>1. counted' = Nothing
    BY <1>3 DEF Proceed, Stall, Redirect
  <2> QED
    BY <2>1, NothingCounts DEF CountsInv
<1>4. CASE Fetch
  <2>1. counted' = Nothing
    BY <1>4 DEF Fetch, Runs, CountsInv
  <2> QED
    BY <2>1, NothingCounts DEF CountsInv
<1>5. CASE Exit
  <2>1. UNCHANGED <<config, phase, mfc, access, counter, counted>>
    BY <1>5 DEF Exit, Runs
  <2> QED
    BY <2>1 DEF CountsInv
<1>6. CASE Stopped \/ UNCHANGED vars
  BY <1>6 DEF Stopped, vars, CountsInv
<1> QED
  BY <1>1, <1>2, <1>3, <1>4, <1>5, <1>6 DEF Next

LEMMA CountsAddUp ==
  ASSUME CachesInv, CountsInv
  PROVE  RequestsAddUp
<1> SUFFICES ASSUME phase = "ID", counted # Nothing
             PROVE  /\ \A k \in DOMAIN counted : counted[k] > 0
                    /\ Reads("l1_d") = (IF access.port = "r" THEN 1 ELSE 0)
                    /\ Writes("l1_d") = (IF access.port = "w" THEN 1 ELSE 0)
                    /\ \A c \in {"l1_d", "l2"} : Below(config, c) # "dram" =>
                         /\ Reads(Below(config, c)) = Amount(counted, <<c, "miss_r">>) + Allocated(c)
                         /\ Writes(Below(config, c)) = Amount(counted, <<c, "writebacks">>) + PassedOn(c)
  BY DEF RequestsAddUp
<1>1. /\ config.CACHE_LEVELS > 0 /\ Positive(counted)
      /\ Reckons(config, counted, "l1_d", Load(access.port), Store(access.port))
  BY DEF CountsInv, OneAccess
<1>2. \A c : /\ Reads(c) = ReadsOf(counted, c) /\ Writes(c) = WritesOf(counted, c)
             /\ Allocated(c) = AllocatedOf(config, counted, c)
             /\ PassedOn(c) = PassedOnOf(config, counted, c)
  BY DEF Reads, Writes, Allocated, PassedOn, ReadsOf, WritesOf, AllocatedOf, PassedOnOf
<1>3. Reads("l1_d") = Load(access.port) /\ Writes("l1_d") = Store(access.port)
  BY <1>1, <1>2 DEF Reckons
<1>4. ASSUME NEW c \in {"l1_d", "l2"}, Below(config, c) # "dram"
      PROVE  c \in Path(config, "l1_d")
  <2>1. CASE c = "l1_d"
    BY <2>1, PathFacts DEF Caches
  <2>2. CASE c = "l2"
    <3>1. config.CACHE_LEVELS > 2
      BY <1>4, <2>2 DEF Below
    <3>2. config.CACHE_LEVELS \in -1 .. 3
      BY MachineFacts DEF CachesInv, IsMachine
    <3>3. Below(config, "l1_d") = "l2"
      BY <3>1, <3>2 DEF Below
    <3> QED
      BY <2>2, <3>3 DEF Path, Caches
  <2> QED
    BY <2>1, <2>2
<1>5. ASSUME NEW c \in {"l1_d", "l2"}, Below(config, c) # "dram"
      PROVE  /\ Reads(Below(config, c)) = Amount(counted, <<c, "miss_r">>) + Allocated(c)
             /\ Writes(Below(config, c)) = Amount(counted, <<c, "writebacks">>) + PassedOn(c)
  <2>1. Agrees(config, counted, c)
    BY <1>1, <1>4, <1>5 DEF Reckons
  <2> QED
    BY <1>2, <1>5, <2>1 DEF Agrees
<1> QED
  BY <1>1, <1>3, <1>5 DEF Positive, Load, Store

(* The counters of the report agree, if writes that miss below the first   *)
(* level are passed on: an access is one read or one write of the data     *)
(* cache, and each level is read and written as often as the one above     *)
(* says, whatever is evicted, written back, read before it is written, or  *)
(* refused and asked again, for every geometry and order of accesses.      *)
THEOREM RequestsAlwaysAddUp ==
  ASSUME \A cfg \in Configs : Bypasses(cfg)
  PROVE  Spec => []RequestsAddUp
<1>1. CachesInv => Bypasses(config)
  BY DEF CachesInv
<1>2. Init => CountsInv
  BY NothingCounts DEF Init, CountsInv
<1>3. CachesInv /\ CountsInv /\ [Next]_vars => CountsInv'
  BY <1>1, NextCounts
<1>4. CachesInv /\ CountsInv => RequestsAddUp
  BY CountsAddUp
<1> QED
  BY <1>2, <1>3, <1>4, CachesInvariant, PTL DEF Spec
=============================================================================
