------------------------------ MODULE Datapath ------------------------------
(***************************************************************************)
(* What happens to data in EX and MA: the units of alu.c as ex_stage()     *)
(* connects them, and the byte lanes of read_memory() and write_memory().  *)
(*                                                                         *)
(* A data word is a number of four bytes of ByteBits bits each: eight in   *)
(* the code, fewer where every value is to be tried.  The size of the word *)
(* decides the mask of shift amounts.                                      *)
(***************************************************************************)
EXTENDS Encoding

CONSTANTS
  ByteBits,     \* bits of a byte
  UpperShift,   \* how far lui and auipc shift, 12 in the code
  DramBytes,    \* DRAM_SIZE
  ReadOnly      \* the addresses up to the limits of text and rodata

WidthOfWord == 4 * ByteBits

Modulus == 2 ^ WidthOfWord

DataWord == 0 .. Modulus - 1

Byte == 0 .. 2 ^ ByteBits - 1

ASSUME DatapathAssumption ==
  /\ ByteBits \in Nat \ {0} /\ UpperShift \in Nat
  /\ DramBytes \in Nat /\ DramBytes % 4 = 0 /\ ReadOnly \subseteq 0 .. DramBytes - 1

----------------------------------------------------------------------------
(* C's operations on unsigned words, and the cast to a signed one. *)

Ones(x) == {i \in 0 .. WidthOfWord - 1 : (x \div 2 ^ i) % 2 = 1}

Sum(ones) == MapThenSumSet(LAMBDA i : 2 ^ i, ones)

Signed(x) == IF x >= Modulus \div 2 THEN x - Modulus ELSE x

Left(x, n) == (x * 2 ^ n) % Modulus

Right(x, n) == x \div 2 ^ n

SignedRight(x, n) == (Signed(x) \div 2 ^ n) % Modulus

(* The immediate of a decoded instruction as a data word. *)
ImmWord(bits) == Field(bits, 0, WidthOfWord - 1)

----------------------------------------------------------------------------
(* alu.c *)

arithmetic_unit(x, y, opcode) == IF opcode = 0 THEN (x + y) % Modulus ELSE (x - y) % Modulus

ShiftAmount(y) == y % WidthOfWord

logical_unit(x, y, opcode, sign) ==
  CASE opcode = 0 -> Sum(Ones(x) \cap Ones(y))
    [] opcode = 1 -> Sum(Ones(x) \cup Ones(y))
    [] opcode = 2 -> Sum((Ones(x) \cup Ones(y)) \ (Ones(x) \cap Ones(y)))
    [] opcode = 3 -> Left(x, ShiftAmount(y))
    [] opcode = 4 -> IF sign = 0 THEN Right(x, ShiftAmount(y)) ELSE SignedRight(x, ShiftAmount(y))
    [] opcode = 5 -> Left(y, UpperShift)
    [] opcode = 6 -> (Left(y, UpperShift) + x) % Modulus

Less(x, y, sign) == IF sign = 0 THEN x < y ELSE Signed(x) < Signed(y)

less_than_comparator(x, y, sign) == IF Less(x, y, sign) THEN 1 ELSE 0

branch_comparator(x, y, opcode, sign) ==
  IF \/ opcode = 0 /\ x = y
     \/ opcode = 1 /\ x # y
     \/ opcode = 2 /\ Less(x, y, sign)
     \/ opcode = 3 /\ ~Less(x, y, sign)
  THEN 1 ELSE 0

(* ex_stage() for the decoded instruction cs with immediate imm at address *)
(* pc; r1 and r2 are the values of its registers.                          *)
ex_stage(cs, imm, pc, r1, r2) ==
  LET operand1 == IF cs.source1 = "rs1" THEN r1 ELSE pc
      operand2 == IF cs.source2 = "imm" THEN imm ELSE r2
      next     == (pc + 4) % Modulus
  IN  [result |-> CASE cs.unit = "arithmetic" -> arithmetic_unit(operand1, operand2, cs.op)
                    [] cs.unit = "logic"  -> logical_unit(operand1, operand2, cs.op, cs.sign)
                    [] cs.unit = "less"   -> less_than_comparator(operand1, operand2, cs.sign)
                    [] cs.unit = "branch" -> next,
       PC_next |-> CASE cs.unit # "branch" -> next
                     [] cs.unit = "branch" /\ cs.op = 4 -> (operand1 + operand2) % Modulus
                     [] cs.unit = "branch" /\ cs.op # 4 -> (pc + imm) % Modulus,
       taken   |-> IF cs.unit # "branch" THEN 0
                   ELSE IF cs.op = 4 THEN 1
                   ELSE branch_comparator(operand1, operand2, cs.op, cs.sign)]

----------------------------------------------------------------------------
(* memory.c *)

(* The byte read at an address; up to three addresses behind the end are   *)
(* read as well, and are not used.                                         *)
ByteAt(dram, addr) == IF addr < DramBytes THEN dram[addr] ELSE 0

Unaligned(opcode, mar) ==
  \/ opcode \in {1, 4} /\ mar % 2 # 0
  \/ opcode = 2 /\ mar % 4 # 0

(* (int32_t)(x << unused) >> unused *)
SignExtend(x, unused) == SignedRight(Left(x, unused), unused)

ReadFaults(opcode, mar) == mar >= DramBytes \/ Unaligned(opcode, mar)

read_memory(dram, opcode, mar) ==
  LET b(n) == Left(ByteAt(dram, mar + n), n * ByteBits)
  IN  CASE opcode = 0 -> SignExtend(b(0), 3 * ByteBits)
        [] opcode = 1 -> SignExtend(b(0) + b(1), 2 * ByteBits)
        [] opcode = 2 -> b(0) + b(1) + b(2) + b(3)
        [] opcode = 3 -> b(0)
        [] opcode = 4 -> b(0) + b(1)

(* The bytes a store of the kind opcode writes. *)
Lanes(opcode) == CASE opcode = 0 -> 0 .. 0 [] opcode = 1 -> 0 .. 1 [] opcode = 2 -> 0 .. 3

StoreFaults(opcode, mar) == mar \in ReadOnly \/ mar >= DramBytes \/ Unaligned(opcode, mar)

(* A slip: what is left after the shift is stored whole. *)
write_memory_Unmasked(dram, opcode, mar, mbr) ==
  [a \in DOMAIN dram |-> IF a - mar \in Lanes(opcode) THEN Right(mbr, (a - mar) * ByteBits) ELSE dram[a]]

(* mbr & 0xFF, (mbr & 0xFF00) >> 8 and so on go to consecutive addresses. *)
write_memory(dram, opcode, mar, mbr) ==
  [a \in DOMAIN dram |-> IF a - mar \in Lanes(opcode)
                         THEN Right(mbr, (a - mar) * ByteBits) % 2 ^ ByteBits ELSE dram[a]]
=============================================================================
