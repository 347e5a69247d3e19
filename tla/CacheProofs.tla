---------------------------- MODULE CacheProofs ----------------------------
(***************************************************************************)
(* What the functions on a set of a cache rely on in one another, for      *)
(* caches of every geometry: module CacheLevel.                            *)
(***************************************************************************)
EXTENDS CacheLevel, FiniteSetTheorems, WellFoundedInduction, TLAPS

IsCache(s) == s.sets \in Nat \ {0} /\ s.block \in Nat \ {0}

(* The sets of n ways. *)
SetsOf(n) == [1 .. n -> Line(Nat, Nat)]

Locked(lines) == {w \in Valid(lines) : lines[w].done = 0}

(* What evict_fifo() and evict_lru() take for granted: two locked lines    *)
(* are one too many.                                                       *)
AtMostOneLocked(lines) == \A v, w \in Locked(lines) : v = w

(* No block twice, and every line starts at its block. *)
OneLinePerTag(lines, s) ==
  \A v, w \in Valid(lines) : get_tag(lines[v].addr, s) = get_tag(lines[w].addr, s) => v = w

-----------------------------------------------------------------------------
(* Non-empty sets of numbers have a least element, which Min finds. *)
LEMMA LeastExists ==
  ASSUME NEW S \in SUBSET Nat, S # {}
  PROVE  \E x \in S : \A y \in S : x <= y
<1>1. PICK x \in S : \A y \in S : ~ (<<y, x>> \in OpToRel(<, Nat))
  BY WFMin, NatLessThanWellFounded, Zenon
<1>2. \A y \in S : ~ (y < x)
  BY <1>1 DEF OpToRel
<1> QED
  BY <1>2

LEMMA MinIsLeast ==
  ASSUME NEW S \in SUBSET Nat, S # {}
  PROVE  Min(S) \in S /\ \A y \in S : Min(S) <= y
BY LeastExists DEF Min

LEMMA MinIsUnique ==
  ASSUME NEW S \in SUBSET Nat, NEW x \in S, \A y \in S : x <= y
  PROVE  Min(S) = x
<1>1. Min(S) \in S /\ \A y \in S : Min(S) <= y
  BY MinIsLeast
<1>2. Min(S) <= x /\ x <= Min(S)
  BY <1>1
<1>3. Min(S) \in Nat /\ x \in Nat
  BY <1>1
<1> QED
  BY <1>2, <1>3

(* The order in which replacement prefers the ways. *)
Precedes(lines, w, v) ==
  \/ lines[w].reference < lines[v].reference
  \/ lines[w].reference = lines[v].reference /\ w < v

LEMMA LowestIsFirst ==
  ASSUME NEW n \in Nat, NEW lines \in SetsOf(n), NEW ways \in SUBSET (1 .. n), ways # {}
  PROVE  /\ Lowest(lines, ways) \in ways
         /\ \A v \in ways \ {Lowest(lines, ways)} : Precedes(lines, Lowest(lines, ways), v)
<1> DEFINE refs == {lines[w].reference : w \in ways}
<1>1. \A w \in 1 .. n : lines[w].reference \in Nat
  BY DEF SetsOf, Line
<1>2. PICK r \in refs : \A q \in refs : r <= q
  <2>1. refs \in SUBSET Nat /\ refs # {}
    BY <1>1
  <2> QED
    BY <2>1, LeastExists
<1> DEFINE candidates == {w \in ways : lines[w].reference = r}
<1>3. candidates \in SUBSET Nat /\ candidates # {}
  <2>1. r \in refs
    BY <1>2
  <2>2. ways \in SUBSET Nat
    OBVIOUS
  <2> QED
    BY <2>1, <2>2
<1>4. PICK w \in candidates : \A v \in candidates : w <= v
  BY <1>3, LeastExists
<1>5. \A v \in ways \ {w} : Precedes(lines, w, v)
  <2> TAKE v \in ways \ {w}
  <2>1. lines[w].reference = r /\ r <= lines[v].reference /\ r \in Nat /\ lines[v].reference \in Nat
    BY <1>1, <1>2, <1>4
  <2>2. CASE lines[v].reference = r
    BY <1>3, <1>4, <2>1, <2>2 DEF Precedes
  <2>3. CASE lines[v].reference # r
    BY <2>1, <2>3 DEF Precedes
  <2> QED
    BY <2>2, <2>3
<1>6. w \in ways
  BY <1>4
<1> HIDE DEF candidates, refs
<1> QED
  BY <1>5, <1>6 DEF Lowest, Precedes

LEMMA LowestIsUnique ==
  ASSUME NEW n \in Nat, NEW lines \in SetsOf(n), NEW ways \in SUBSET (1 .. n),
         NEW w \in ways, \A v \in ways \ {w} : Precedes(lines, w, v)
  PROVE  Lowest(lines, ways) = w
<1>1. \A x \in 1 .. n : lines[x].reference \in Nat
  BY DEF SetsOf, Line
<1>2. /\ Lowest(lines, ways) \in ways
      /\ \A v \in ways \ {Lowest(lines, ways)} : Precedes(lines, Lowest(lines, ways), v)
  BY LowestIsFirst
<1> SUFFICES ASSUME Lowest(lines, ways) # w PROVE FALSE
  OBVIOUS
<1>3. Precedes(lines, Lowest(lines, ways), w) /\ Precedes(lines, w, Lowest(lines, ways))
  BY <1>2
<1>4. Lowest(lines, ways) \in 1 .. n /\ w \in 1 .. n
  BY <1>2
<1> HIDE DEF Lowest
<1> QED
  BY <1>1, <1>3, <1>4 DEF Precedes

-----------------------------------------------------------------------------
(* Victims *)

LEMMA FreeIsAMiss ==
  ASSUME NEW lines, NEW s, NEW addr, find_block(lines, addr, s) = "free"
  PROVE  Matching(lines, addr, s) \cap Valid(lines) = {}
BY DEF find_block

(* The victim is a way of the set, and not in use unless two are. *)
LEMMA VictimIsAWay ==
  ASSUME NEW n \in Nat, NEW lines \in SetsOf(n), NEW s, NEW addr,
         find_block(lines, addr, s) = "free"
  PROVE  /\ Victim(lines) \in 1 .. n
         /\ AtMostOneLocked(lines) => Victim(lines) \notin Locked(lines)
<1> DEFINE ways == 1 .. n
<1>1. DOMAIN lines = ways /\ \A w \in ways : lines[w] \in Line(Nat, Nat)
  BY DEF SetsOf
<1>2. \A w \in ways : lines[w].valid \in Bit /\ lines[w].done \in Bit
  BY <1>1 DEF Line
<1>3. PICK u \in ways : lines[u].valid = 0 \/ lines[u].done = 1
  BY <1>1 DEF find_block
<1>4. CASE Valid(lines) # ways
  <2>1. ways \ Valid(lines) \in SUBSET Nat /\ ways \ Valid(lines) # {}
    BY <1>1, <1>4 DEF Valid
  <2>2. Min(ways \ Valid(lines)) \in ways \ Valid(lines)
    BY <2>1, MinIsLeast
  <2>3. Victim(lines) = Min(ways \ Valid(lines))
    BY <1>1, <1>4 DEF Victim
  <2> QED
    BY <2>2, <2>3 DEF Locked
<1>5. CASE Valid(lines) = ways /\ lines[Lowest(lines, ways)].done = 1
  <2>1. Lowest(lines, ways) \in ways
    BY <1>3, LowestIsFirst
  <2>2. Lowest(lines, ways) \notin Locked(lines)
    BY <1>5 DEF Locked
  <2>3. Victim(lines) = Lowest(lines, ways)
    BY <1>1, <1>5 DEF Victim
  <2> QED
    BY <2>1, <2>2, <2>3
<1>6. CASE Valid(lines) = ways /\ lines[Lowest(lines, ways)].done # 1
  <2> DEFINE oldest == Lowest(lines, ways)
  <2>1. oldest \in ways /\ oldest \in Locked(lines)
    BY <1>2, <1>3, <1>6, LowestIsFirst DEF Locked, Bit
  <2>2. AtMostOneLocked(lines) => \A w \in ways \ {oldest} : w \notin Locked(lines)
    BY <2>1 DEF AtMostOneLocked
  <2>3. u \in ways \ {oldest}
    BY <1>1, <1>3, <1>6 DEF Valid
  <2>4. Lowest(lines, ways \ {oldest}) \in ways \ {oldest}
    BY <2>3, LowestIsFirst
  <2>5. Victim(lines) = Lowest(lines, ways \ {oldest})
    BY <1>1, <1>6 DEF Victim
  <2> QED
    BY <2>2, <2>4, <2>5
<1> QED
  BY <1>4, <1>5, <1>6

-----------------------------------------------------------------------------
(* Addresses *)

LEMMA DivisionIsUnique ==
  ASSUME NEW d \in Nat \ {0}, NEW q \in Nat, NEW r \in Nat, r < d
  PROVE  (d * q + r) \div d = q
OBVIOUS

LEMMA BlockHasTheTag ==
  ASSUME NEW s, IsCache(s), NEW addr \in Nat
  PROVE  BlockAddr(addr, s) \in Nat /\ get_tag(BlockAddr(addr, s), s) = get_tag(addr, s)
<1> DEFINE b == s.block
           m == s.sets
           u == (addr \div b) % m
           t == (addr \div b) \div m
           r == addr % b
<1>1. b \in Nat \ {0} /\ m \in Nat \ {0}
  BY DEF IsCache
<1> HIDE DEF b, m
<1>2. r \in Nat /\ r < b /\ addr \div b \in Nat /\ addr = b * (addr \div b) + r
  BY <1>1
<1>3. u \in Nat /\ u < m /\ t \in Nat /\ addr \div b = m * t + u
  BY <1>1, <1>2
<1> HIDE DEF u, t, r
<1>4. addr = (b * m) * t + (b * u + r) /\ addr - r = (b * m) * t + b * u
  BY <1>1, <1>2, <1>3
<1>5. b * m \in Nat \ {0} /\ b * u \in Nat
  BY <1>1, <1>3
<1>6. b * u + b <= b * m
  <2>1. u + 1 <= m
    BY <1>1, <1>3
  <2>2. b * (u + 1) <= b * m
    BY <1>1, <1>3, <2>1
  <2> QED
    BY <1>1, <1>3, <2>2
<1>7. b * u + r \in Nat /\ b * u + r < b * m /\ b * u < b * m
  BY <1>1, <1>2, <1>5, <1>6
<1> DEFINE d == b * m
           o == b * u
<1>8. d \in Nat \ {0} /\ o \in Nat /\ o + r \in Nat /\ o < d /\ o + r < d
  BY <1>5, <1>7
<1>9. addr = d * t + (o + r) /\ addr - r = d * t + o
  BY <1>4
<1> HIDE DEF d, o
<1>10. (d * t + (o + r)) \div d = t /\ (d * t + o) \div d = t
  BY <1>3, <1>8, DivisionIsUnique
<1>11. BlockAddr(addr, s) = addr - r /\ get_tag(addr, s) = addr \div d
       /\ get_tag(BlockAddr(addr, s), s) = (addr - r) \div d
  BY DEF BlockAddr, get_tag, b, m, r, d
<1>12. addr - r \in Nat
  BY <1>1, <1>3, <1>8, <1>9
<1> QED
  BY <1>9, <1>10, <1>11, <1>12

(* new is lines with another line in the place of the victim.              *)
Replaced(lines, new, line) ==
  new = [lines EXCEPT ![Victim(lines)] = line]

(* Behind a miss, the first line with the tag of the address is the one    *)
(* that has replaced the victim: lines before an invalid one are valid.    *)
LEMMA VictimIsFirstMatch ==
  ASSUME NEW n \in Nat, NEW lines \in SetsOf(n), NEW s, IsCache(s), NEW addr \in Nat,
         find_block(lines, addr, s) = "free",
         NEW new, NEW line, Replaced(lines, new, line), line.addr = BlockAddr(addr, s)
  PROVE  /\ Min(Matching(new, addr, s)) = Victim(lines)
         /\ Matching(new, addr, s) # {}
<1> DEFINE ways == 1 .. n
           victim == Victim(lines)
<1>1. DOMAIN lines = ways /\ \A w \in ways : lines[w] \in Line(Nat, Nat)
  BY DEF SetsOf
<1>2. victim \in ways
  BY VictimIsAWay
<1>3. get_tag(BlockAddr(addr, s), s) = get_tag(addr, s)
  BY BlockHasTheTag
<1>4. Matching(lines, addr, s) \cap Valid(lines) = {}
  BY FreeIsAMiss
<1> HIDE DEF victim
<1>5. /\ DOMAIN new = ways
      /\ new[victim].addr = BlockAddr(addr, s)
      /\ \A w \in ways \ {victim} : new[w] = lines[w]
  BY <1>1, <1>2 DEF Replaced, victim
<1>6. victim \in Matching(new, addr, s)
  BY <1>2, <1>3, <1>5 DEF Matching
<1>7. \A w \in Matching(new, addr, s) : victim <= w
  <2> SUFFICES ASSUME NEW w \in ways \ {victim}, w \in Matching(lines, addr, s)
               PROVE  victim <= w
    BY <1>1, <1>2, <1>5 DEF Matching
  <2>1. w \in ways \ Valid(lines)
    BY <1>4
  <2>2. victim = Min(ways \ Valid(lines))
    BY <1>1, <2>1 DEF Victim, victim
  <2>3. ways \ Valid(lines) \in SUBSET Nat
    OBVIOUS
  <2> QED
    BY <2>1, <2>2, <2>3, MinIsLeast
<1>8. Matching(new, addr, s) \in SUBSET Nat
  BY <1>5 DEF Matching
<1>9. Min(Matching(new, addr, s)) = victim
  BY <1>6, <1>7, <1>8, MinIsUnique
<1> QED
  BY <1>6, <1>9 DEF victim

(* A setter changes the line that has replaced the victim. *)
LEMMA SetterFindsTheLine ==
  ASSUME NEW n \in Nat, NEW lines \in SetsOf(n), NEW s, IsCache(s), NEW addr \in Nat,
         find_block(lines, addr, s) = "free",
         NEW new, NEW line, Replaced(lines, new, line), line.addr = BlockAddr(addr, s),
         NEW flag, NEW value
  PROVE  Replaced(lines, SetFlag(new, addr, s, flag, value), [line EXCEPT ![flag] = value])
<1> DEFINE victim == Victim(lines)
<1>1. Min(Matching(new, addr, s)) = victim /\ Matching(new, addr, s) # {}
  BY VictimIsFirstMatch
<1>2. DOMAIN lines = 1 .. n /\ victim \in 1 .. n
  BY VictimIsAWay DEF SetsOf
<1> HIDE DEF victim
<1>3. new = [lines EXCEPT ![victim] = line]
  BY DEF Replaced, victim
<1>4. SetFlag(new, addr, s, flag, value) = [new EXCEPT ![victim][flag] = value]
  BY <1>1 DEF SetFlag
<1>5. [new EXCEPT ![victim][flag] = value] = [lines EXCEPT ![victim] = [line EXCEPT ![flag] = value]]
  BY <1>2, <1>3
<1> QED
  BY <1>4, <1>5 DEF Replaced, victim

(* Eviction does not replace a line in use: it steps over the one that     *)
(* may be locked, and there is another, since find_block() found one.      *)
THEOREM EvictionSparesTheBlockInUse ==
  ASSUME NEW n \in Nat, NEW lines \in SetsOf(n), NEW s, NEW addr,
         find_block(lines, addr, s) = "free", AtMostOneLocked(lines)
  PROVE  Victim(lines) \in DOMAIN lines /\ Victim(lines) \notin Locked(lines)
BY VictimIsAWay DEF SetsOf

(* The four setters look for the block they were called for and take the   *)
(* first line with its tag, valid or not. Right after copy_from_mem() has  *)
(* written the address that is the line that is replaced, in each of the   *)
(* calls, although a line of earlier may have the tag as well: what they   *)
(* leave is what the model puts there at once.                             *)
THEOREM SettersMakeThePlace ==
  ASSUME NEW n \in Nat, NEW lines \in SetsOf(n), NEW s, IsCache(s), NEW addr \in Nat,
         NEW now \in Nat, find_block(lines, addr, s) = "free"
  PROVE  LET copied == [lines EXCEPT ![Victim(lines)].addr = BlockAddr(addr, s)]
             valid == SetFlag(copied, addr, s, "valid", 1)
             stamped == SetFlag(valid, addr, s, "reference", now)
             clean == SetFlag(stamped, addr, s, "dirty", 0)
         IN  SetFlag(clean, addr, s, "done", 0) = Place(lines, Victim(lines), addr, s, now)
<1> DEFINE victim == Victim(lines)
           copied == [lines EXCEPT ![victim].addr = BlockAddr(addr, s)]
           valid == SetFlag(copied, addr, s, "valid", 1)
           stamped == SetFlag(valid, addr, s, "reference", now)
           clean == SetFlag(stamped, addr, s, "dirty", 0)
           made == SetFlag(clean, addr, s, "done", 0)
           line1 == [lines[victim] EXCEPT !.addr = BlockAddr(addr, s)]
           line2 == [line1 EXCEPT !["valid"] = 1]
           line3 == [line2 EXCEPT !["reference"] = now]
           line4 == [line3 EXCEPT !["dirty"] = 0]
           line5 == [line4 EXCEPT !["done"] = 0]
<1>1. victim \in 1 .. n /\ lines[victim] \in Line(Nat, Nat)
  BY VictimIsAWay DEF SetsOf
<1>2. BlockAddr(addr, s) \in Nat
  BY BlockHasTheTag
<1> HIDE DEF victim
<1>3. /\ line1.addr = BlockAddr(addr, s) /\ line2.addr = BlockAddr(addr, s)
      /\ line3.addr = BlockAddr(addr, s) /\ line4.addr = BlockAddr(addr, s)
      /\ line5 = [addr |-> BlockAddr(addr, s), valid |-> 1, dirty |-> 0, done |-> 0,
                  reference |-> now]
  <2> DEFINE block == BlockAddr(addr, s)
  <2>1. PICK a \in Nat, v \in Bit, d \in Bit, o \in Bit, r \in Nat :
          lines[victim] = [addr |-> a, valid |-> v, dirty |-> d, done |-> o, reference |-> r]
    BY <1>1 DEF Line
  <2> HIDE DEF block
  <2>2. line1 = [addr |-> block, valid |-> v, dirty |-> d, done |-> o, reference |-> r]
    BY <2>1 DEF block
  <2> HIDE DEF line1
  <2>3. line2 = [addr |-> block, valid |-> 1, dirty |-> d, done |-> o, reference |-> r]
    BY <2>2
  <2> HIDE DEF line2
  <2>4. line3 = [addr |-> block, valid |-> 1, dirty |-> d, done |-> o, reference |-> now]
    BY <2>3
  <2> HIDE DEF line3
  <2>5. line4 = [addr |-> block, valid |-> 1, dirty |-> 0, done |-> o, reference |-> now]
    BY <2>4
  <2> HIDE DEF line4
  <2>6. line5 = [addr |-> block, valid |-> 1, dirty |-> 0, done |-> 0, reference |-> now]
    BY <2>5
  <2> HIDE DEF line5
  <2> QED
    BY <2>2, <2>3, <2>4, <2>5, <2>6 DEF block
<1> HIDE DEF line1, line2, line3, line4, line5
<1>4. Replaced(lines, copied, line1)
  BY DEF Replaced, victim, line1
<1> HIDE DEF copied
<1>5. Replaced(lines, valid, line2)
  BY <1>3, <1>4, SetterFindsTheLine DEF line2
<1> HIDE DEF valid
<1>6. Replaced(lines, stamped, line3)
  BY <1>3, <1>5, SetterFindsTheLine DEF line3
<1> HIDE DEF stamped
<1>7. Replaced(lines, clean, line4)
  BY <1>3, <1>6, SetterFindsTheLine DEF line4
<1> HIDE DEF clean
<1>8. Replaced(lines, made, line5)
  BY <1>3, <1>7, SetterFindsTheLine DEF line5
<1> HIDE DEF made
<1>9. made = Place(lines, Victim(lines), addr, s, now)
  BY <1>3, <1>8 DEF Replaced, Place
<1> QED
  BY <1>9 DEF made, clean, stamped, valid, copied, victim

(* No block gets into a set twice: a miss is decided by the tags, and the  *)
(* line that replaces the victim has the tag of the address that missed,   *)
(* whatever the sizes of blocks and sets.                                  *)
THEOREM EvictionKeepsOneLinePerTag ==
  ASSUME NEW n \in Nat, NEW lines \in SetsOf(n), NEW s, IsCache(s), NEW addr \in Nat,
         NEW now \in Nat, find_block(lines, addr, s) = "free",
         OneLinePerTag(lines, s)
  PROVE  OneLinePerTag(Place(lines, Victim(lines), addr, s, now), s)
<1> DEFINE ways == 1 .. n
           victim == Victim(lines)
           new == Place(lines, victim, addr, s, now)
<1>1. DOMAIN lines = ways /\ victim \in ways
  BY VictimIsAWay DEF SetsOf
<1>2. get_tag(BlockAddr(addr, s), s) = get_tag(addr, s)
  BY BlockHasTheTag
<1>3. Matching(lines, addr, s) \cap Valid(lines) = {}
  BY FreeIsAMiss
<1> HIDE DEF victim
<1>4. /\ DOMAIN new = ways
      /\ new[victim].addr = BlockAddr(addr, s)
      /\ \A w \in ways \ {victim} : new[w] = lines[w]
  BY <1>1 DEF Place
<1> HIDE DEF new
<1>5. \A w \in Valid(new) \ {victim} :
         w \in Valid(lines) /\ get_tag(new[w].addr, s) # get_tag(new[victim].addr, s)
  BY <1>1, <1>2, <1>3, <1>4 DEF Valid, Matching
<1>6. \A v, w \in Valid(new) : get_tag(new[v].addr, s) = get_tag(new[w].addr, s) => v = w
  BY <1>1, <1>4, <1>5 DEF OneLinePerTag, Valid
<1> QED
  BY <1>6 DEF OneLinePerTag, new, victim

-----------------------------------------------------------------------------
(* Ranks *)

LEMMA RanksKeepTheOrder ==
  ASSUME NEW n \in Nat, NEW lines \in SetsOf(n)
  PROVE  /\ Renumber(lines) \in SetsOf(n)
         /\ \A w \in 1 .. n :
              /\ Renumber(lines)[w].addr = lines[w].addr
              /\ Renumber(lines)[w].valid = lines[w].valid
              /\ Renumber(lines)[w].dirty = lines[w].dirty
              /\ Renumber(lines)[w].done = lines[w].done
              /\ Renumber(lines)[w].reference < n
         /\ \A v, w \in 1 .. n : Precedes(Renumber(lines), v, w) <=> Precedes(lines, v, w)
<1> DEFINE ways == 1 .. n
           refs == {lines[w].reference : w \in ways}
           lower(r) == {q \in refs : q < r}
           rank(r) == Cardinality(lower(r))
           new == Renumber(lines)
<1>1. /\ DOMAIN lines = ways
      /\ \A w \in ways : lines[w] \in Line(Nat, Nat) /\ lines[w].reference \in Nat
  BY DEF SetsOf, Line
<1>2. IsFiniteSet(ways) /\ Cardinality(ways) = n
  BY FS_Interval
<1>3. IsFiniteSet(refs) /\ Cardinality(refs) <= n
  <2> DEFINE f == [w \in ways |-> lines[w].reference]
  <2>1. f \in Surjection(ways, refs)
    BY Zenon DEF Surjection
  <2> HIDE DEF ways, refs, f
  <2> QED
    BY <1>2, <2>1, FS_Surjection
<1>4. \A r \in refs : IsFiniteSet(lower(r)) /\ rank(r) \in Nat /\ rank(r) < n
  <2> TAKE r \in refs
  <2>1. lower(r) \subseteq refs
    OBVIOUS
  <2>2. r \in refs /\ r \notin lower(r)
    BY <1>1
  <2> HIDE DEF lower, refs
  <2>3. lower(r) # refs
    BY <2>2
  <2>4. IsFiniteSet(lower(r)) /\ Cardinality(lower(r)) < Cardinality(refs)
    BY <1>3, <2>1, <2>3, FS_Subset, FS_CardinalityType
  <2> QED
    BY <1>2, <1>3, <2>4, FS_CardinalityType
<1>5. \A q, r \in refs : q < r => rank(q) < rank(r)
  <2> SUFFICES ASSUME NEW q \in refs, NEW r \in refs, q < r
               PROVE  rank(q) < rank(r)
    OBVIOUS
  <2>1. lower(q) \subseteq lower(r) /\ lower(q) # lower(r)
    BY <1>1
  <2> HIDE DEF lower
  <2> QED
    BY <1>4, <2>1, FS_Subset
<1> HIDE DEF lower
<1>6. new = [w \in ways |-> [lines[w] EXCEPT !.reference = rank(lines[w].reference)]]
  BY <1>1 DEF Renumber, lower
<1> HIDE DEF rank, new
<1>7. \A w \in ways : rank(lines[w].reference) \in Nat /\ rank(lines[w].reference) < n
  BY <1>4
<1>8. \A w \in ways : /\ new[w] \in Line(Nat, Nat)
                      /\ new[w].addr = lines[w].addr /\ new[w].valid = lines[w].valid
                      /\ new[w].dirty = lines[w].dirty /\ new[w].done = lines[w].done
                      /\ new[w].reference = rank(lines[w].reference)
  BY <1>1, <1>6, <1>7 DEF Line
<1>9. new \in SetsOf(n)
  BY <1>6, <1>8 DEF SetsOf
<1>10. \A v, w \in ways :
         /\ new[v].reference < new[w].reference <=> lines[v].reference < lines[w].reference
         /\ new[v].reference = new[w].reference <=> lines[v].reference = lines[w].reference
  <2> TAKE v, w \in ways
  <2> DEFINE a == lines[v].reference
             c == lines[w].reference
  <2>1. a \in refs /\ c \in refs /\ a \in Nat /\ c \in Nat
    BY <1>1
  <2>2. new[v].reference = rank(a) /\ new[w].reference = rank(c)
    BY <1>8
  <2>3. rank(a) \in Nat /\ rank(c) \in Nat
    BY <1>7
  <2>4. (a < c => rank(a) < rank(c)) /\ (c < a => rank(c) < rank(a))
    BY <1>5, <2>1
  <2>5. a = c => rank(a) = rank(c)
    OBVIOUS
  <2> HIDE DEF a, c, refs
  <2>6. /\ rank(a) < rank(c) <=> a < c
        /\ rank(a) = rank(c) <=> a = c
    BY <2>1, <2>3, <2>4, <2>5
  <2> QED
    BY <2>2, <2>6 DEF a, c
<1> QED
  BY <1>7, <1>8, <1>9, <1>10 DEF Precedes, new

LEMMA RanksKeepTheLowest ==
  ASSUME NEW n \in Nat, NEW lines \in SetsOf(n), NEW ways \in SUBSET (1 .. n), ways # {}
  PROVE  Lowest(Renumber(lines), ways) = Lowest(lines, ways)
<1> DEFINE lowest == Lowest(lines, ways)
           new == Renumber(lines)
<1>1. lowest \in ways /\ \A v \in ways \ {lowest} : Precedes(lines, lowest, v)
  BY LowestIsFirst
<1>2. /\ new \in SetsOf(n)
      /\ \A v, w \in 1 .. n : Precedes(new, v, w) <=> Precedes(lines, v, w)
  BY RanksKeepTheOrder
<1> HIDE DEF lowest, new
<1>3. \A v \in ways \ {lowest} : Precedes(new, lowest, v)
  BY <1>1, <1>2
<1>4. Lowest(new, ways) = lowest
  BY <1>1, <1>2, <1>3, LowestIsUnique
<1> QED
  BY <1>4 DEF lowest, new

(* The model keeps the ranks of the cycle numbers in a set instead of the  *)
(* numbers. No eviction notices, and the ranks stay below the number of    *)
(* ways.                                                                   *)
THEOREM RanksChooseTheSameVictim ==
  ASSUME NEW n \in Nat, NEW lines \in SetsOf(n), NEW s, NEW addr,
         find_block(lines, addr, s) = "free"
  PROVE  /\ Renumber(lines) \in [1 .. n -> Line(Nat, 0 .. n - 1)]
         /\ Victim(Renumber(lines)) = Victim(lines)
<1> DEFINE ways == 1 .. n
           new == Renumber(lines)
           oldest == Lowest(lines, ways)
<1>1. /\ DOMAIN lines = ways
      /\ \A w \in ways : lines[w] \in Line(Nat, Nat)
  BY DEF SetsOf
<1>2. /\ new \in SetsOf(n)
      /\ \A w \in ways : new[w].valid = lines[w].valid /\ new[w].done = lines[w].done
                         /\ new[w].reference < n
  BY RanksKeepTheOrder
<1> HIDE DEF new
<1>3. DOMAIN new = ways /\ \A w \in ways : new[w] \in Line(Nat, Nat)
  BY <1>2 DEF SetsOf
<1>4. \A w \in ways : new[w] \in Line(Nat, 0 .. n - 1)
  BY <1>2, <1>3 DEF Line
<1>5. new \in [ways -> Line(Nat, 0 .. n - 1)]
  BY <1>2, <1>4 DEF SetsOf
<1> SUFFICES Victim(new) = Victim(lines)
  BY <1>5 DEF new
<1>6. Valid(new) = Valid(lines)
  BY <1>1, <1>2, <1>3 DEF Valid
<1>7. PICK u \in ways : lines[u].valid = 0 \/ lines[u].done = 1
  BY <1>1 DEF find_block
<1>8. Lowest(new, ways) = oldest /\ oldest \in ways
  BY <1>7, RanksKeepTheLowest, LowestIsFirst DEF new
<1>9. CASE Valid(lines) # ways
  BY <1>1, <1>3, <1>6, <1>9 DEF Victim
<1>10. CASE Valid(lines) = ways /\ lines[oldest].done = 1
  BY <1>1, <1>2, <1>3, <1>6, <1>8, <1>10 DEF Victim
<1>11. CASE Valid(lines) = ways /\ lines[oldest].done # 1
  <2>1. u \in ways \ {oldest}
    BY <1>1, <1>7, <1>11 DEF Valid
  <2>2. Lowest(new, ways \ {oldest}) = Lowest(lines, ways \ {oldest})
    BY <2>1, RanksKeepTheLowest DEF new
  <2> HIDE DEF ways, oldest
  <2>3. Victim(lines) = Lowest(lines, ways \ {oldest})
    BY <1>1, <1>11 DEF Victim, oldest
  <2>4. Victim(new) = Lowest(new, ways \ {oldest})
    BY <1>2, <1>3, <1>6, <1>8, <1>11 DEF Victim
  <2> QED
    BY <2>2, <2>3, <2>4
<1> QED
  BY <1>9, <1>10, <1>11
=============================================================================
