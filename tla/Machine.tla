------------------------------ MODULE Machine ------------------------------
(***************************************************************************)
(* What the sequential meaning of a program (Isa) and the five-stage       *)
(* pipeline (Pipeline) share: the words, the registers, the instructions   *)
(* and the three regions of the simulated DRAM.                            *)
(*                                                                         *)
(* An instruction keeps the bit fields the decoder cuts out of its word.   *)
(* The rs2 field of an instruction without a second source register is     *)
(* part of its immediate in the encoding, so it may hold any register      *)
(* number here too.                                                        *)
(***************************************************************************)
EXTENDS Integers, Sequences

CONSTANTS
  WordSize,     \* words are 0 .. WordSize - 1 (2^32 in the code)
  Reg,          \* the register numbers programs use; 0 and 17 among them
  TextLimit,    \* text_segment_limit, the last byte of the code segment
  RodataLimit,  \* rodata_segment_limit, the last byte that is not writable
  DramSize,     \* DRAM_SIZE, in bytes
  Programs,     \* the programs the loader may have put into the text segment
  Images,       \* the contents the loader may have given the rest of the DRAM
  CodeWord(_)   \* the machine word that encodes an instruction

Word == 0 .. WordSize - 1

Bit == {0, 1}

Op == {"ADD", "ADDI", "LUI", "LW", "SW", "BEQ", "BNE", "JAL", "JALR",
       "ECALL", "EBREAK", "NONE"}

Instr == [op : Op, rd : Reg, rs1 : Reg, rs2 : Reg, imm : Int]

(* A word of zeros: memory the loader left alone, and the IR of a bubble. *)
NoInstr == [op |-> "NONE", rd |-> 0, rs1 |-> 0, rs2 |-> 0, imm |-> 0]

DataAddr == {a \in TextLimit + 1 .. DramSize - 1 : a % 4 = 0}

ASSUME WordsAssumption ==
  /\ WordSize \in Nat /\ WordSize > 4
  /\ TextLimit \in Nat /\ RodataLimit \in Nat /\ DramSize \in Nat
  /\ TextLimit <= RodataLimit /\ RodataLimit < DramSize /\ DramSize <= WordSize

ASSUME RegAssumption == Reg \subseteq Nat /\ {0, 17} \subseteq Reg

ASSUME LoaderAssumption ==
  /\ Programs \subseteq Seq(Instr)
  /\ Images \subseteq [DataAddr -> Word]

----------------------------------------------------------------------------
(* A slip the type invariant must reject: an addition that does not wrap. *)
Plus_NoWrap(x, y) == x + y

(* Unsigned 32-bit addition: arithmetic_unit with opcode 0. *)
Plus(x, y) == (x + y) % WordSize

(* The instruction stored at text address a of program prog. *)
TextWord(prog, a) ==
  IF a \div 4 < Len(prog) THEN prog[a \div 4 + 1] ELSE NoInstr

ASSUME CodeWordAssumption ==
  \A p \in Programs : \A a \in 0 .. TextLimit : CodeWord(TextWord(p, a)) \in Word

(* The checks of the memory ports; a failed one ends the program. *)
FetchFault(a) == a > TextLimit \/ a % 4 # 0
LoadFault(a)  == a >= DramSize \/ a % 4 # 0
StoreFault(a) == a <= TextLimit \/ a <= RodataLimit \/ a >= DramSize \/ a % 4 # 0

(* Code and data share one address space: a load may read the code. *)
LoadWord(prog, mem, a) ==
  IF a <= TextLimit THEN CodeWord(TextWord(prog, a)) ELSE mem[a]

(* A register file after a write to register r; register 0 stays 0. *)
WriteReg(regs, r, v) == [regs EXCEPT ![r] = v, ![0] = 0]
=============================================================================
