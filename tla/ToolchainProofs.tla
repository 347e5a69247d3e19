--------------------------- MODULE ToolchainProofs --------------------------
(***************************************************************************)
(* What the assembler's encoders put into a word, the simulator's decoder  *)
(* takes out again: for every immediate, every register number and every   *)
(* row of the table, where TLC tries a few of each.  And the two passes of *)
(* the assembler agree, for every source: a label gets four times the      *)
(* number of the instructions before it, and that is where the second pass *)
(* is when it comes to its line.                                           *)
(***************************************************************************)
EXTENDS Toolchain, FiniteSetTheorems, TLAPS

IsRegisterNumber(n) == Bits(n) \subseteq 0 .. 4

----------------------------------------------------------------------------
(* Immediates alone. *)

(* The twelve bits of format "i", read back with their sign. *)
LEMMA ReadBackI ==
  ASSUME NEW d \in Words, SignedFrom(d, 11), NEW x \in Words, x \cap (20 .. 31) = {}
  PROVE  generate_immediate("i", x \cup ImmediateI(d)) = d
<1>1. generate_immediate("i", x \cup ImmediateI(d)) = Sar((x \cup ImmediateI(d)) \cap (20 .. 31), 20)
  BY DEF generate_immediate
<1>2. ASSUME NEW i \in BitPositions
      PROVE  i \in Sar((x \cup ImmediateI(d)) \cap (20 .. 31), 20) <=> i \in d
  BY DEF Sar, Shl, ImmediateI, SignedFrom, Words, BitPositions
<1>3. Sar((x \cup ImmediateI(d)) \cap (20 .. 31), 20) \subseteq BitPositions
  BY DEF Sar
<1> QED BY <1>1, <1>2, <1>3 DEF Words

(* The two pieces of format "s". *)
LEMMA ReadBackS ==
  ASSUME NEW d \in Words, SignedFrom(d, 11),
         NEW x \in Words, x \cap ((7 .. 11) \cup (25 .. 31)) = {}
  PROVE  generate_immediate("s", x \cup ImmediateS(d)) = d
<1> DEFINE w == x \cup ImmediateS(d)
           e == (w \cap (25 .. 31)) \cup Shl(w \cap (7 .. 11), 13)
<1>1. generate_immediate("s", w) = Sar(e, 20)
  BY DEF generate_immediate
<1>2. ASSUME NEW i \in BitPositions PROVE  i \in w <=> (i \in x \/ i \in ImmediateS(d))
  OBVIOUS
<1>3. ASSUME NEW i \in BitPositions
      PROVE  i \in ImmediateS(d) <=> \/ i - 7 \in d /\ i - 7 \in 0 .. 4
                                     \/ i - 20 \in d /\ i - 20 \in 5 .. 11
  BY DEF ImmediateS, Shl
<1>4. ASSUME NEW i \in BitPositions
      PROVE  i \in e <=> \/ i \in w /\ i \in 25 .. 31
                         \/ i - 13 \in w /\ i - 13 \in 7 .. 11
  BY DEF Shl
<1>5. ASSUME NEW i \in BitPositions, i >= 20 PROVE  i \in e <=> i - 20 \in d
  BY <1>2, <1>3, <1>4, <1>5 DEF BitPositions, Words
<1> HIDE DEF e
<1>6. ASSUME NEW i \in BitPositions PROVE  i \in Sar(e, 20) <=> i \in d
  BY <1>5 DEF Sar, SignedFrom, BitPositions
<1>7. Sar(e, 20) \subseteq BitPositions
  BY DEF Sar
<1> QED BY <1>1, <1>6, <1>7 DEF Words

(* The four pieces of format "b"; offsets are even.                        *)
LEMMA ReadBackB ==
  ASSUME NEW d \in Words, SignedFrom(d, 12), 0 \notin d,
         NEW x \in Words, x \cap ((7 .. 11) \cup (25 .. 31)) = {}
  PROVE  generate_immediate("b", x \cup ImmediateB(d)) = d
<1> DEFINE w == x \cup ImmediateB(d)
           e == Shr(w \cap (8 .. 11), 8) \cup Shr(w \cap (25 .. 30), 21)
                  \cup Shl(w \cap {7}, 3) \cup Sar(w \cap {31}, 20)
<1>1. generate_immediate("b", w) = Shl(e, 1)
  BY DEF generate_immediate
<1>2. ASSUME NEW i \in BitPositions
      PROVE  i \in ImmediateB(d) <=> \/ i - 7 \in d /\ i - 7 \in 1 .. 4
                                     \/ i - 20 \in d /\ i - 20 \in 5 .. 10
                                     \/ i + 4 \in d /\ i + 4 = 11
                                     \/ i - 19 \in d /\ i - 19 = 12
  BY DEF ImmediateB, Shl, Shr
<1>3. ASSUME NEW i \in BitPositions
      PROVE  i \in e <=> \/ i + 8 \in w /\ i + 8 \in 8 .. 11
                         \/ i + 21 \in w /\ i + 21 \in 25 .. 30
                         \/ i - 3 \in w /\ i - 3 = 7
                         \/ i > 11 /\ 31 \in w
                         \/ i + 20 \in w /\ i + 20 = 31
  BY DEF Shl, Shr, Sar, BitPositions
<1>4. ASSUME NEW i \in BitPositions, i < 31 PROVE  i \in e <=> i + 1 \in d
  <2>1. CASE i \in 0 .. 3
    <3>1. i + 8 \in BitPositions
      BY <2>1 DEF BitPositions
    <3>2. i + 8 \in w <=> i + 1 \in d
      BY <1>2, <2>1, <3>1 DEF BitPositions, Words
    <3> HIDE DEF w, e
    <3> QED BY <1>3, <2>1, <3>2
  <2>2. CASE i \in 4 .. 9
    <3>1. i + 21 \in BitPositions
      BY <2>2 DEF BitPositions
    <3>2. i + 21 \in w <=> i + 1 \in d
      BY <1>2, <2>2, <3>1 DEF BitPositions, Words
    <3> HIDE DEF w, e
    <3> QED BY <1>3, <2>2, <3>2
  <2>3. CASE i = 10
    <3>1. 7 \in w <=> 11 \in d
      BY <1>2 DEF BitPositions, Words
    <3> HIDE DEF w, e
    <3> QED BY <1>3, <2>3, <3>1
  <2>4. CASE i \in 11 .. 30
    <3>1. 31 \in w <=> 12 \in d
      BY <1>2 DEF BitPositions, Words
    <3>2. i \in e <=> 31 \in w
      <4> HIDE DEF w, e
      <4> QED BY <1>3, <2>4
    <3> HIDE DEF w, e
    <3> QED BY <2>4, <3>1, <3>2 DEF SignedFrom, BitPositions
  <2> QED BY <1>4, <2>1, <2>2, <2>3, <2>4 DEF BitPositions
<1> HIDE DEF e
<1>5. ASSUME NEW i \in BitPositions PROVE  i \in Shl(e, 1) <=> i \in d
  <2>1. CASE i = 0
    <3>1. i - 1 \notin e
      BY <2>1 DEF e, Shr, Shl, Sar, BitPositions
    <3> QED BY <2>1, <3>1 DEF Shl
  <2>2. CASE i > 0
    BY <1>4, <2>2 DEF Shl, BitPositions
  <2> QED BY <2>1, <2>2 DEF BitPositions
<1>6. Shl(e, 1) \subseteq BitPositions
  BY DEF Shl
<1> QED BY <1>1, <1>5, <1>6 DEF Words

(* Format "u": the bits that lui and auipc shift into place.               *)
LEMMA ReadBackU ==
  ASSUME NEW d \in Words, NEW x \in Words, x \cap (12 .. 31) = {}
  PROVE  Shl(generate_immediate("u", x \cup ImmediateU(d)), 12) = Shl(d, 12)
<1> DEFINE e == Sar((x \cup ImmediateU(d)) \cap (12 .. 31), 12)
<1>1. generate_immediate("u", x \cup ImmediateU(d)) = e
  BY DEF generate_immediate
<1>2. ASSUME NEW i \in BitPositions, i < 20 PROVE  i \in e <=> i \in d
  BY <1>2 DEF Sar, Shl, ImmediateU, Words, BitPositions
<1>3. ASSUME NEW i \in BitPositions, i < 12 PROVE  i - 12 \notin e /\ i - 12 \notin d
  BY <1>3 DEF Sar, Words, BitPositions
<1> HIDE DEF e
<1> QED BY <1>1, <1>2, <1>3 DEF Shl, BitPositions

(* The four pieces of format "j".                                          *)
LEMMA ReadBackJ ==
  ASSUME NEW d \in Words, SignedFrom(d, 20), 0 \notin d,
         NEW x \in Words, x \cap (12 .. 31) = {}
  PROVE  generate_immediate("j", x \cup ImmediateJ(d)) = d
<1> DEFINE w == x \cup ImmediateJ(d)
           e == Shr(w \cap (21 .. 30), 21) \cup Shr(w \cap {20}, 10)
                  \cup Shr(w \cap (12 .. 19), 1) \cup Sar(w \cap {31}, 12)
<1>1. generate_immediate("j", w) = Shl(e, 1)
  BY DEF generate_immediate
<1>2. ASSUME NEW i \in BitPositions
      PROVE  i \in ImmediateJ(d) <=> \/ i - 20 \in d /\ i - 20 \in 1 .. 10
                                     \/ i - 9 \in d /\ i - 9 = 11
                                     \/ i \in d /\ i \in 12 .. 19
                                     \/ i - 11 \in d /\ i - 11 = 20
  BY DEF ImmediateJ, Shl, Words
<1>3. ASSUME NEW i \in BitPositions
      PROVE  i \in e <=> \/ i + 21 \in w /\ i + 21 \in 21 .. 30
                         \/ i + 10 \in w /\ i + 10 = 20
                         \/ i + 1 \in w /\ i + 1 \in 12 .. 19
                         \/ i > 19 /\ 31 \in w
                         \/ i + 12 \in w /\ i + 12 = 31
  BY DEF Shr, Sar, BitPositions
<1>4. ASSUME NEW i \in BitPositions, i < 31 PROVE  i \in e <=> i + 1 \in d
  <2>1. CASE i \in 0 .. 9
    <3>1. i + 21 \in BitPositions
      BY <2>1 DEF BitPositions
    <3>2. i + 21 \in w <=> i + 1 \in d
      BY <1>2, <2>1, <3>1 DEF BitPositions, Words
    <3> HIDE DEF w, e
    <3> QED BY <1>3, <2>1, <3>2
  <2>2. CASE i = 10
    <3>1. 20 \in w <=> 11 \in d
      BY <1>2 DEF BitPositions, Words
    <3> HIDE DEF w, e
    <3> QED BY <1>3, <2>2, <3>1
  <2>3. CASE i \in 11 .. 18
    <3>1. i + 1 \in BitPositions
      BY <2>3 DEF BitPositions
    <3>2. i + 1 \in w <=> i + 1 \in d
      BY <1>2, <2>3, <3>1 DEF BitPositions, Words
    <3> HIDE DEF w, e
    <3> QED BY <1>3, <2>3, <3>2
  <2>4. CASE i \in 19 .. 30
    <3>1. 31 \in w <=> 20 \in d
      BY <1>2 DEF BitPositions, Words
    <3>2. i \in e <=> 31 \in w
      <4> HIDE DEF w, e
      <4> QED BY <1>3, <2>4
    <3> HIDE DEF w, e
    <3> QED BY <2>4, <3>1, <3>2 DEF SignedFrom, BitPositions
  <2> QED BY <1>4, <2>1, <2>2, <2>3, <2>4 DEF BitPositions
<1> HIDE DEF e
<1>5. ASSUME NEW i \in BitPositions PROVE  i \in Shl(e, 1) <=> i \in d
  <2>1. CASE i = 0
    <3>1. i - 1 \notin e
      BY <2>1 DEF e, Shr, Sar, BitPositions
    <3> QED BY <2>1, <3>1 DEF Shl
  <2>2. CASE i > 0
    BY <1>4, <2>2 DEF Shl, BitPositions
  <2> QED BY <2>1, <2>2 DEF BitPositions
<1>6. Shl(e, 1) \subseteq BitPositions
  BY DEF Shl
<1> QED BY <1>1, <1>5, <1>6 DEF Words

----------------------------------------------------------------------------
(* Whole instructions. *)

LEMMA BitsAreWords == \A n : Bits(n) \in Words
  BY DEF Bits, Words

(* Where the parts other than the immediate lie. *)
LEMMA FixedPlaces ==
  ASSUME NEW row, WellFormed(row)
  PROVE  /\ Fixed(row) \in Words
         /\ Fixed(row) \subseteq (0 .. 6) \cup (12 .. 14) \cup (25 .. 31)
         /\ row.format # "r" => Fixed(row) \subseteq (0 .. 6) \cup (12 .. 14)
         /\ row.format \in {"u", "j"} => Fixed(row) \subseteq 0 .. 6
  BY BitsAreWords DEF Fixed, WellFormed, Shl, Words, BitPositions

LEMMA RegisterPlaces ==
  ASSUME NEW n, IsRegisterNumber(n)
  PROVE  /\ Rd(n) \in Words /\ Rs1(n) \in Words /\ Rs2(n) \in Words
         /\ Rd(n) \subseteq 7 .. 11 /\ Rs1(n) \subseteq 15 .. 19 /\ Rs2(n) \subseteq 20 .. 24
  BY BitsAreWords DEF IsRegisterNumber, Rd, Rs1, Rs2, Shl, Words, BitPositions

(* An even number is one without bit 0. *)
IsOffset(n) == 0 \notin Bits(n)

(* The number that is encoded in a row's immediate field fits into it.     *)
Fits(row, imm) ==
  /\ row.format \in {"i", "s"} => SignedFrom(Bits(imm), 11)
  /\ row.format = "b" => SignedFrom(Bits(imm), 12) /\ IsOffset(imm)
  /\ row.format = "j" => SignedFrom(Bits(imm), 20) /\ IsOffset(imm)

(* The immediate that the decoder generates is the one the assembler was   *)
(* given, whatever the rest of the instruction: the scattered pieces of    *)
(* opcode_generator.c and those of generate_immediate() in alu.c fit       *)
(* together, sign included, for every offset of a branch or a jump and     *)
(* every index of a load or store.                                         *)
THEOREM ImmediateSurvives ==
  ASSUME NEW row, WellFormed(row), row.format \in {"i", "s", "b", "j"},
         NEW rd, IsRegisterNumber(rd), NEW rs1, IsRegisterNumber(rs1),
         NEW rs2, IsRegisterNumber(rs2), NEW imm, Fits(row, imm)
  PROVE  generate_immediate(row.format, Encode(row, rd, rs1, rs2, imm)) = Bits(imm)
<1> DEFINE d == Bits(imm)
<1>1. d \in Words
  BY BitsAreWords
<1>2. Fixed(row) \in Words /\ Fixed(row) \subseteq (0 .. 6) \cup (12 .. 14)
  BY FixedPlaces
<1>3. /\ Rd(rd) \in Words /\ Rs1(rs1) \in Words /\ Rs2(rs2) \in Words
      /\ Rd(rd) \subseteq 7 .. 11 /\ Rs1(rs1) \subseteq 15 .. 19 /\ Rs2(rs2) \subseteq 20 .. 24
  BY RegisterPlaces
<1>4. CASE row.format = "i"
  <2> DEFINE x == Fixed(row) \cup Rd(rd) \cup Rs1(rs1)
  <2>1. Encode(row, rd, rs1, rs2, imm) = x \cup ImmediateI(d)
    BY <1>4 DEF Encode
  <2>2. x \in Words /\ x \cap (20 .. 31) = {}
    BY <1>2, <1>3 DEF Words
  <2>3. SignedFrom(d, 11)
    BY <1>4 DEF Fits
  <2> HIDE DEF x, d
  <2> QED BY <1>1, <1>4, <2>1, <2>2, <2>3, ReadBackI DEF d
<1>5. CASE row.format = "s"
  <2> DEFINE x == Fixed(row) \cup Rs1(rs1) \cup Rs2(rs2)
  <2>1. Encode(row, rd, rs1, rs2, imm) = x \cup ImmediateS(d)
    BY <1>5 DEF Encode
  <2>2. x \in Words /\ x \cap ((7 .. 11) \cup (25 .. 31)) = {}
    BY <1>2, <1>3 DEF Words
  <2>3. SignedFrom(d, 11)
    BY <1>5 DEF Fits
  <2> HIDE DEF x, d
  <2> QED BY <1>1, <1>5, <2>1, <2>2, <2>3, ReadBackS DEF d
<1>6. CASE row.format = "b"
  <2> DEFINE x == Fixed(row) \cup Rs1(rs1) \cup Rs2(rs2)
  <2>1. Encode(row, rd, rs1, rs2, imm) = x \cup ImmediateB(d)
    BY <1>6 DEF Encode
  <2>2. x \in Words /\ x \cap ((7 .. 11) \cup (25 .. 31)) = {}
    BY <1>2, <1>3 DEF Words
  <2>3. SignedFrom(d, 12) /\ 0 \notin d
    BY <1>6 DEF Fits, IsOffset
  <2> HIDE DEF x, d
  <2> QED BY <1>1, <1>6, <2>1, <2>2, <2>3, ReadBackB DEF d
<1>7. CASE row.format = "j"
  <2> DEFINE x == Fixed(row) \cup Rd(rd)
  <2>1. Encode(row, rd, rs1, rs2, imm) = x \cup ImmediateJ(d)
    BY <1>7 DEF Encode
  <2>2. x \in Words /\ x \cap (12 .. 31) = {}
    BY <1>2, <1>3, <1>7, FixedPlaces DEF Words
  <2>3. SignedFrom(d, 20) /\ 0 \notin d
    BY <1>7 DEF Fits, IsOffset
  <2> HIDE DEF x, d
  <2> QED BY <1>1, <1>7, <2>1, <2>2, <2>3, ReadBackJ DEF d
<1> QED BY <1>4, <1>5, <1>6, <1>7

(* lui and auipc shift into place what the source line says.               *)
THEOREM UpperImmediateSurvives ==
  ASSUME NEW row, WellFormed(row), row.format = "u",
         NEW rd, IsRegisterNumber(rd), NEW rs1, NEW rs2, NEW imm
  PROVE  Shl(generate_immediate(row.format, Encode(row, rd, rs1, rs2, imm)), 12)
           = Shl(Bits(imm), 12)
<1> DEFINE x == Fixed(row) \cup Rd(rd)
           d == Bits(imm)
<1>1. Encode(row, rd, rs1, rs2, imm) = x \cup ImmediateU(d)
  BY DEF Encode
<1>2. x \in Words /\ x \cap (12 .. 31) = {}
  BY FixedPlaces, RegisterPlaces DEF Words
<1>3. d \in Words
  BY BitsAreWords
<1> HIDE DEF x, d
<1> QED BY <1>1, <1>2, <1>3, ReadBackU DEF d

(* A bit field of a word depends on its own bits only. *)
LEMMA FieldIsLocal ==
  ASSUME NEW v, NEW w, NEW lo, NEW hi, v \cap (lo .. hi) = w \cap (lo .. hi)
  PROVE  Field(v, lo, hi) = Field(w, lo, hi)
  BY DEF Field

(* Each register number that an instruction has is read from where it was  *)
(* put: neither the constant fields nor an immediate run into it.          *)
THEOREM RegistersSurvive ==
  ASSUME NEW row, WellFormed(row), row.format \in {"r", "i", "s", "b", "u", "j"},
         NEW rd, IsRegisterNumber(rd), NEW rs1, IsRegisterNumber(rs1),
         NEW rs2, IsRegisterNumber(rs2), NEW imm, Fits(row, imm)
  PROVE  LET ir == Encode(row, rd, rs1, rs2, imm)
         IN  /\ row.format \in {"r", "i", "u", "j"} => Nrd(ir) = Field(Rd(rd), 7, 11)
             /\ row.format \in {"r", "i", "s", "b"} => Nrs1(ir) = Field(Rs1(rs1), 15, 19)
             /\ row.format \in {"r", "s", "b"} => Nrs2(ir) = Field(Rs2(rs2), 20, 24)
<1> DEFINE ir == Encode(row, rd, rs1, rs2, imm)
           d  == Bits(imm)
<1>1. /\ Fixed(row) \subseteq (0 .. 6) \cup (12 .. 14) \cup (25 .. 31)
      /\ Rd(rd) \subseteq 7 .. 11 /\ Rs1(rs1) \subseteq 15 .. 19 /\ Rs2(rs2) \subseteq 20 .. 24
  BY FixedPlaces, RegisterPlaces
<1>2. /\ ImmediateI(d) \subseteq 20 .. 31
      /\ ImmediateS(d) \subseteq (7 .. 11) \cup (25 .. 31)
      /\ ImmediateB(d) \subseteq (7 .. 11) \cup (25 .. 31)
      /\ ImmediateU(d) \subseteq 12 .. 31
      /\ ImmediateJ(d) \subseteq 12 .. 31
  <2>1. d \subseteq BitPositions
    BY BitsAreWords DEF Words
  <2>2. ImmediateI(d) \subseteq 20 .. 31
    BY <2>1 DEF ImmediateI, Shl, BitPositions
  <2>3. ImmediateS(d) \subseteq (7 .. 11) \cup (25 .. 31)
    BY <2>1 DEF ImmediateS, Shl, BitPositions
  <2>4. ImmediateB(d) \subseteq (7 .. 11) \cup (25 .. 31)
    BY <2>1 DEF ImmediateB, Shl, Shr, BitPositions
  <2>5. ImmediateU(d) \subseteq 12 .. 31
    BY <2>1 DEF ImmediateU, Shl, BitPositions
  <2>6. ImmediateJ(d) \subseteq 12 .. 31
    BY <2>1 DEF ImmediateJ, Shl, BitPositions
  <2> QED BY <2>2, <2>3, <2>4, <2>5, <2>6
<1>3. row.format \in {"r", "i", "u", "j"} => Nrd(ir) = Field(Rd(rd), 7, 11)
  <2> SUFFICES ASSUME row.format \in {"r", "i", "u", "j"}
               PROVE  ir \cap (7 .. 11) = Rd(rd) \cap (7 .. 11)
    BY FieldIsLocal DEF Nrd
  <2> HIDE DEF d
  <2>1. CASE row.format = "r" BY <1>1, <2>1 DEF Encode
  <2>2. CASE row.format = "i" BY <1>1, <1>2, <2>2 DEF Encode, d
  <2>3. CASE row.format = "u" BY <1>1, <1>2, <2>3 DEF Encode, d
  <2>4. CASE row.format = "j" BY <1>1, <1>2, <2>4 DEF Encode, d
  <2> QED BY <2>1, <2>2, <2>3, <2>4
<1>4. row.format \in {"r", "i", "s", "b"} => Nrs1(ir) = Field(Rs1(rs1), 15, 19)
  <2> SUFFICES ASSUME row.format \in {"r", "i", "s", "b"}
               PROVE  ir \cap (15 .. 19) = Rs1(rs1) \cap (15 .. 19)
    BY FieldIsLocal DEF Nrs1
  <2>1. CASE row.format = "r" BY <1>1, <2>1 DEF Encode
  <2>2. CASE row.format = "i" BY <1>1, <1>2, <2>2 DEF Encode
  <2>3. CASE row.format = "s" BY <1>1, <1>2, <2>3 DEF Encode
  <2>4. CASE row.format = "b" BY <1>1, <1>2, <2>4 DEF Encode
  <2> QED BY <2>1, <2>2, <2>3, <2>4
<1>5. row.format \in {"r", "s", "b"} => Nrs2(ir) = Field(Rs2(rs2), 20, 24)
  <2> SUFFICES ASSUME row.format \in {"r", "s", "b"}
               PROVE  ir \cap (20 .. 24) = Rs2(rs2) \cap (20 .. 24)
    BY FieldIsLocal DEF Nrs2
  <2>1. CASE row.format = "r" BY <1>1, <2>1 DEF Encode
  <2>2. CASE row.format = "s" BY <1>1, <1>2, <2>2 DEF Encode
  <2>3. CASE row.format = "b" BY <1>1, <1>2, <2>3 DEF Encode
  <2> QED BY <2>1, <2>2, <2>3
<1> QED BY <1>3, <1>4, <1>5

----------------------------------------------------------------------------
(* The passes. *)

IsAt(n, kind) == ~is_white(source[n]) /\ get_tokens(source[n]).kind = kind

LabelAt(n) == get_tokens(source[n]).tokens[1]

(* The instruction lines before line n, and where the n-th line is. *)
Before(n) == {k \in 1 .. n - 1 : IsAt(k, "operation")}

AddressAt(n) == 4 * Cardinality(Before(n))

TableIsList == \E nodes : symbols \in Seq(nodes)

NamesAreUnique == \A i, j \in DOMAIN symbols : symbols[i].name = symbols[j].name => i = j

(* The table has the labels of the first n lines. *)
Recorded(n) ==
  \A k \in 1 .. n : IsAt(k, "label") =>
    \E i \in DOMAIN symbols : symbols[i] = [name |-> LabelAt(k), address |-> AddressAt(k)]

AssemblyInv ==
  /\ source \in Seq(Seq(STRING))
  /\ TableIsList /\ NamesAreUnique
  /\ phase \in {"check", "generate"} => line \in 1 .. Len(source) + 1
  /\ phase = "check" =>
       address = 0 /\ instruction_number = Cardinality(Before(line)) /\ Recorded(line - 1)
  /\ phase = "generate" => address = AddressAt(line) /\ Recorded(Len(source))

----------------------------------------------------------------------------
LEMMA LinesAreCounted ==
  ASSUME NEW n \in Nat \ {0}
  PROVE  /\ Cardinality(Before(n)) \in Nat
         /\ Cardinality(Before(n + 1)) = Cardinality(Before(n)) + (IF IsAt(n, "operation") THEN 1 ELSE 0)
<1>1. IsFiniteSet(Before(n)) /\ Cardinality(Before(n)) \in Nat
  <2>1. IsFiniteSet(1 .. n - 1)
    BY FS_Interval
  <2>2. Before(n) \in SUBSET (1 .. n - 1)
    BY DEF Before
  <2>3. IsFiniteSet(Before(n))
    BY <2>1, <2>2, FS_Subset
  <2>4. QED
    BY <2>3, FS_CardinalityType
<1>2. CASE IsAt(n, "operation")
  <2>1. Before(n + 1) = Before(n) \cup {n} /\ n \notin Before(n)
    BY <1>2 DEF Before
  <2>2. QED
    BY <1>1, <1>2, <2>1, FS_AddElement
<1>3. CASE ~IsAt(n, "operation")
  <2>1. Before(n + 1) = Before(n)
    BY <1>3 DEF Before
  <2>2. QED
    BY <1>1, <1>3, <2>1
<1>4. QED
  BY <1>2, <1>3

LEMMA NothingBefore == Cardinality(Before(1)) = 0
<1>1. Before(1) = {}
  BY DEF Before
<1>2. QED
  BY <1>1, FS_EmptySet

(* What a name that stands once in the table is looked up to. *)
LEMMA LookedUp ==
  ASSUME NamesAreUnique, TableIsList, NEW i \in DOMAIN symbols
  PROVE  get_address(symbols[i].name) = symbols[i].address
<1> DEFINE First(k) == /\ symbols[k].name = symbols[i].name
                       /\ \A j \in 1 .. k - 1 : symbols[j].name # symbols[i].name
<1>1. DOMAIN symbols = 1 .. Len(symbols) /\ Len(symbols) \in Nat
  BY DEF TableIsList
<1>2. First(i)
  BY <1>1 DEF NamesAreUnique
<1>3. \A k \in DOMAIN symbols : First(k) => k = i
  BY DEF NamesAreUnique
<1>4. (CHOOSE k \in DOMAIN symbols : First(k)) = i
  BY <1>2, <1>3
<1>5. Defines(symbols[i].name)
  BY DEF Defines
<1>6. QED
  BY <1>4, <1>5 DEF get_address

----------------------------------------------------------------------------
LEMMA AssemblyInit == Init => AssemblyInv
<1> SUFFICES ASSUME Init PROVE AssemblyInv
  OBVIOUS
<1>1. source \in Seq(Seq(STRING)) /\ Len(source) \in Nat
  BY SourcesAssumption DEF Init, AssemblerInit
<1>2. symbols \in Seq({})
  BY DEF Init, AssemblerInit
<1>3. QED
  BY <1>1, <1>2, NothingBefore
  DEF Init, AssemblerInit, AssemblyInv, TableIsList, NamesAreUnique, Recorded

(* A line that is no label leaves the table as it is. *)
LEMMA OtherLinesStep ==
  ASSUME AssemblyInv, SkipLine \/ CheckInstruction \/ PassLabel \/ Emit
  PROVE  AssemblyInv'
<1>1. /\ UNCHANGED <<source, symbols, phase>> /\ line' = line + 1 /\ line <= Len(source)
      /\ phase \in {"check", "generate"} /\ line \in Nat \ {0} /\ Len(source) \in Nat
  <2>1. /\ UNCHANGED <<source, symbols, phase>> /\ line' = line + 1 /\ line <= Len(source)
        /\ phase \in {"check", "generate"}
    BY DEF SkipLine, CheckInstruction, PassLabel, Emit, Reads
  <2>2. Len(source) \in Nat /\ line \in 1 .. Len(source) + 1
    BY <2>1 DEF AssemblyInv
  <2>3. QED
    BY <2>1, <2>2
<1>2. \A n : Before(n)' = Before(n)
  BY <1>1 DEF Before, IsAt
<1>3. \A n : Recorded(n)' <=> Recorded(n)
  BY <1>1, <1>2 DEF Recorded, IsAt, LabelAt, AddressAt
<1>4. TableIsList' /\ NamesAreUnique'
  BY <1>1 DEF AssemblyInv, TableIsList, NamesAreUnique
<1>5. CASE SkipLine
  <2>1. ~IsAt(line, "operation") /\ ~IsAt(line, "label")
    BY <1>5 DEF SkipLine, Ignored, Parsed, IsAt
  <2>2. Cardinality(Before(line + 1)) = Cardinality(Before(line))
    BY <1>1, <2>1, LinesAreCounted
  <2>3. Recorded(line - 1) => Recorded(line)
    BY <1>1, <2>1 DEF Recorded
  <2>4. QED
    BY <1>1, <1>2, <1>3, <1>4, <1>5, <2>2, <2>3 DEF AssemblyInv, SkipLine, AddressAt
<1>6. CASE CheckInstruction
  <2>1. IsAt(line, "operation") /\ ~IsAt(line, "label")
    BY <1>6 DEF CheckInstruction, Is, Parsed, IsAt
  <2>2. Cardinality(Before(line + 1)) = Cardinality(Before(line)) + 1
    BY <1>1, <2>1, LinesAreCounted
  <2>3. Recorded(line - 1) => Recorded(line)
    BY <1>1, <2>1 DEF Recorded
  <2>4. QED
    BY <1>1, <1>2, <1>3, <1>4, <1>6, <2>2, <2>3 DEF AssemblyInv, CheckInstruction, Reads
<1>7. CASE PassLabel
  <2>1. ~IsAt(line, "operation")
    BY <1>7 DEF PassLabel, Is, Parsed, IsAt
  <2>2. Cardinality(Before(line + 1)) = Cardinality(Before(line))
    BY <1>1, <2>1, LinesAreCounted
  <2>3. QED
    BY <1>1, <1>2, <1>3, <1>4, <1>7, <2>2 DEF AssemblyInv, PassLabel, Reads, AddressAt
<1>8. CASE Emit
  <2>1. IsAt(line, "operation")
    BY <1>8 DEF Emit, Is, Parsed, IsAt
  <2>2. /\ Cardinality(Before(line)) \in Nat
        /\ Cardinality(Before(line + 1)) = Cardinality(Before(line)) + 1
    BY <1>1, <2>1, LinesAreCounted
  <2>3. phase = "generate" /\ address' = address + 4
    BY <1>8 DEF Emit, Reads
  <2>4. address' = AddressAt(line)'
    BY <1>1, <1>2, <2>2, <2>3 DEF AssemblyInv, AddressAt
  <2>5. QED
    BY <1>1, <1>3, <1>4, <2>3, <2>4 DEF AssemblyInv
<1>9. QED
  BY <1>5, <1>6, <1>7, <1>8

LEMMA DefineLabelStep ==
  ASSUME AssemblyInv, DefineLabel PROVE AssemblyInv'
<1> DEFINE node == [name |-> Parsed.tokens[1], address |-> LabelAddress]
<1>1. /\ UNCHANGED <<source, phase, address, instruction_number>> /\ phase = "check"
      /\ line' = line + 1 /\ line <= Len(source) /\ line \in Nat \ {0} /\ Len(source) \in Nat
      /\ IsAt(line, "label") /\ ~IsAt(line, "operation")
      /\ symbols' = <<node>> \o symbols /\ ~Defines(node.name)
  BY DEF DefineLabel, Reads, AssemblyInv, Is, IsAt, Parsed
<1>2. \A n : Before(n)' = Before(n)
  BY <1>1 DEF Before, IsAt
<1>3. PICK nodes : symbols \in Seq(nodes)
  BY DEF AssemblyInv, TableIsList
<1>4. symbols \in Seq(nodes \cup {node}) /\ <<node>> \in Seq(nodes \cup {node})
  BY <1>3
<1> HIDE DEF node
<1>5. /\ symbols' \in Seq(nodes \cup {node}) /\ Len(symbols) \in Nat
      /\ Len(symbols') = Len(symbols) + 1
      /\ DOMAIN symbols = 1 .. Len(symbols) /\ DOMAIN symbols' = 1 .. Len(symbols) + 1
      /\ symbols'[1] = node
      /\ \A i \in DOMAIN symbols : symbols'[i + 1] = symbols[i]
  BY <1>1, <1>4
<1>6. NamesAreUnique'
  <2> SUFFICES ASSUME NEW i \in DOMAIN symbols', NEW j \in DOMAIN symbols',
                      symbols'[i].name = symbols'[j].name
               PROVE  i = j
    BY DEF NamesAreUnique
  <2>1. \A k \in DOMAIN symbols' :
          k # 1 => k - 1 \in DOMAIN symbols /\ symbols'[k] = symbols[k - 1]
    BY <1>5
  <2>2. \A k \in DOMAIN symbols : symbols[k].name # node.name
    BY <1>1 DEF Defines
  <2>3. CASE i = 1 \/ j = 1
    BY <1>5, <2>1, <2>2, <2>3
  <2>4. CASE i # 1 /\ j # 1
    <3>1. i - 1 = j - 1
      BY <2>1, <2>4 DEF AssemblyInv, NamesAreUnique
    <3>2. QED
      BY <1>5, <3>1
  <2>5. QED
    BY <2>3, <2>4
<1>7. node = [name |-> LabelAt(line), address |-> AddressAt(line)]
  <2>1. instruction_number = Cardinality(Before(line)) /\ Cardinality(Before(line)) \in Nat
    BY <1>1, LinesAreCounted DEF AssemblyInv
  <2>2. LabelAddress = AddressAt(line)
    BY <2>1 DEF LabelAddress, AddressAt
  <2>3. QED
    BY <2>2 DEF node, LabelAt, Parsed
<1>8. PICK n : n = line
  OBVIOUS
<1>9. Recorded(n)'
  <2> SUFFICES ASSUME NEW k \in 1 .. n, IsAt(k, "label")
               PROVE  \E i \in DOMAIN symbols' :
                        symbols'[i] = [name |-> LabelAt(k), address |-> AddressAt(k)]
    BY <1>1, <1>2 DEF Recorded, IsAt, LabelAt, AddressAt
  <2>1. CASE k = n
    BY <1>5, <1>7, <1>8, <2>1
  <2>2. CASE k # n
    <3>1. k \in 1 .. line - 1
      BY <1>1, <1>8, <2>2
    <3>2. PICK i \in DOMAIN symbols : symbols[i] = [name |-> LabelAt(k), address |-> AddressAt(k)]
      BY <1>1, <3>1 DEF AssemblyInv, Recorded
    <3>3. i + 1 \in DOMAIN symbols' /\ symbols'[i + 1] = symbols[i]
      BY <1>5
    <3>4. QED
      BY <3>2, <3>3
  <2>3. QED
    BY <2>1, <2>2
<1>10. Cardinality(Before(line + 1)) = Cardinality(Before(line))
  BY <1>1, LinesAreCounted
<1>11. TableIsList'
  BY <1>5 DEF TableIsList
<1>12. n = line' - 1
  BY <1>1, <1>8
<1>13. Recorded(line - 1)'
  BY <1>9, <1>12
<1>14. QED
  BY <1>1, <1>2, <1>6, <1>10, <1>11, <1>13 DEF AssemblyInv

LEMMA AssemblyStep == AssemblyInv /\ [Next]_vars => AssemblyInv'
<1> SUFFICES ASSUME AssemblyInv, [Next]_vars PROVE AssemblyInv'
  OBVIOUS
<1> DEFINE Same == /\ UNCHANGED <<source, symbols>>
                   /\ \A n : Before(n)' = Before(n) /\ (Recorded(n)' <=> Recorded(n))
<1>1. UNCHANGED <<source, symbols>> => Same
  BY DEF Before, Recorded, IsAt, LabelAt, AddressAt
<1>2. CASE SecondPass
  <2>1. line = Len(source) + 1 /\ Len(source) \in Nat
    BY <1>2 DEF SecondPass, AssemblyInv
  <2>2. address = AddressAt(1)
    BY <1>2, NothingBefore DEF SecondPass, AssemblyInv, AddressAt
  <2>3. Recorded(Len(source))
    BY <1>2, <2>1 DEF SecondPass, AssemblyInv
  <2>4. QED
    BY <1>1, <1>2, <2>1, <2>2, <2>3
    DEF SecondPass, AssemblyInv, TableIsList, NamesAreUnique, AddressAt
<1>3. ASSUME UNCHANGED <<source, symbols>>, phase' \notin {"check", "generate"}
      PROVE  AssemblyInv'
  BY <1>3 DEF AssemblyInv, TableIsList, NamesAreUnique
<1>4. CASE Reject \/ Finish \/ StartLoading \/ LoadFails \/ EndOfObject
  BY <1>3, <1>4 DEF Reject, Finish, StartLoading, LoadFails, LoadsLine, EndOfObject
<1>5. CASE SkipObjectLine \/ StoreInstruction
  BY <1>3, <1>5 DEF SkipObjectLine, StoreInstruction, LoadsLine
<1>6. CASE UNCHANGED assembler_vars
  BY <1>1, <1>6 DEF assembler_vars, AssemblyInv, TableIsList, NamesAreUnique, AddressAt
<1>7. ExecutesOne \/ Ended \/ UNCHANGED vars => UNCHANGED assembler_vars
  BY DEF ExecutesOne, Ended, vars
<1>8. QED
  BY <1>2, <1>4, <1>5, <1>6, <1>7, OtherLinesStep, DefineLabelStep DEF Next

(* Every label names the instruction that follows its line, and is met     *)
(* there again: the passes count the same lines as instructions, and the   *)
(* table never holds a name twice (main.c, symbol_table.c).                *)
THEOREM PassesAgree == Spec => []LabelsAgree
<1>1. AssemblyInv => LabelsAgree
  <2> SUFFICES ASSUME AssemblyInv, phase = "generate", line <= Len(source), Is("label")
               PROVE  get_address(Parsed.tokens[1]) = address
    BY DEF LabelsAgree
  <2>1. line \in 1 .. Len(source) /\ IsAt(line, "label") /\ Parsed.tokens[1] = LabelAt(line)
    BY DEF AssemblyInv, Is, IsAt, Parsed, LabelAt
  <2>2. PICK i \in DOMAIN symbols :
          symbols[i] = [name |-> LabelAt(line), address |-> AddressAt(line)]
    BY <2>1 DEF AssemblyInv, Recorded
  <2>3. get_address(LabelAt(line)) = AddressAt(line)
    BY <2>2, LookedUp DEF AssemblyInv
  <2>4. QED
    BY <2>1, <2>3 DEF AssemblyInv
<1>2. QED
  BY <1>1, AssemblyInit, AssemblyStep, PTL DEF Spec
=============================================================================
