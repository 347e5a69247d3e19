------------------------------ MODULE Encoding ------------------------------
(***************************************************************************)
(* The bit patterns of instructions: the assembler's table and encoders    *)
(* (assembler.h, opcode_generator.c) and the simulator's decoder           *)
(* (control.c, generate_immediate of alu.c).                               *)
(***************************************************************************)
EXTENDS Words, Sequences

(* One row of the table: kinds of the operands ("r" register, "i", "s" and *)
(* "u" immediates of 12, 5 and 20 bits, "l" label, "a" offset(register)),  *)
(* format, and the three constant fields.                                  *)
Row(operands, format, opcode, funct3, funct7) ==
  [operands |-> operands, format |-> format,
   opcode |-> opcode, funct3 |-> funct3, funct7 |-> funct7]

Register(funct3, funct7)  == Row(<<"r", "r", "r">>, "r", 51, funct3, funct7)
Immediate(funct3)         == Row(<<"r", "r", "i">>, "i", 19, funct3, 0)
ShiftRow(funct3, funct7)  == Row(<<"r", "r", "s">>, "i", 19, funct3, funct7)
LoadRow(funct3)           == Row(<<"r", "a">>, "i", 3, funct3, 0)
StoreRow(funct3)          == Row(<<"r", "a">>, "s", 35, funct3, 0)
BranchRow(funct3)         == Row(<<"r", "r", "l">>, "b", 99, funct3, 0)
Plain(opcode, funct7)     == Row(<<>>, "i", opcode, 0, funct7)

i_table ==
  [add |-> Register(0, 0), sub |-> Register(0, 32), sll |-> Register(1, 0),
   slt |-> Register(2, 0), sltu |-> Register(3, 0), xor |-> Register(4, 0),
   srl |-> Register(5, 0), sra |-> Register(5, 32), or |-> Register(6, 0),
   and |-> Register(7, 0),
   addi |-> Immediate(0), slti |-> Immediate(2), sltiu |-> Immediate(3),
   xori |-> Immediate(4), ori |-> Immediate(6), andi |-> Immediate(7),
   slli |-> ShiftRow(1, 0), srli |-> ShiftRow(5, 0), srai |-> ShiftRow(5, 32),
   lui |-> Row(<<"r", "u">>, "u", 55, 0, 0), auipc |-> Row(<<"r", "u">>, "u", 23, 0, 0),
   jal |-> Row(<<"r", "l">>, "j", 111, 0, 0), jalr |-> Row(<<"r", "a">>, "i", 103, 0, 0),
   beq |-> BranchRow(0), bne |-> BranchRow(1), blt |-> BranchRow(4), bge |-> BranchRow(5),
   bltu |-> BranchRow(6), bgeu |-> BranchRow(7),
   lb |-> LoadRow(0), lh |-> LoadRow(1), lw |-> LoadRow(2), lbu |-> LoadRow(4), lhu |-> LoadRow(5),
   sb |-> StoreRow(0), sh |-> StoreRow(1), sw |-> StoreRow(2),
   ecall |-> Plain(115, 0), ebreak |-> Plain(115, 1), fence |-> Plain(15, 0), nop |-> Plain(19, 0)]

Mnemonics == DOMAIN i_table

----------------------------------------------------------------------------
(* Encoders.  The pieces of an immediate d (a word) in each format.        *)

ImmediateI(d) == Shl(d, 20)

ImmediateS(d) == Shl(d \cap (0 .. 4), 7) \cup Shl(d \cap (5 .. 11), 20)

(* A slip: bit 11 of the offset shifted by one too few. *)
ImmediateB_Bit11(d) ==
  Shl(d \cap (1 .. 4), 7) \cup Shl(d \cap (5 .. 10), 20)
    \cup Shr(d \cap {11}, 3) \cup Shl(d \cap {12}, 19)

ImmediateB(d) ==
  Shl(d \cap (1 .. 4), 7) \cup Shl(d \cap (5 .. 10), 20)
    \cup Shr(d \cap {11}, 4) \cup Shl(d \cap {12}, 19)

ImmediateU(d) == Shl(d, 12)

ImmediateJ(d) ==
  Shl(d \cap (1 .. 10), 20) \cup Shl(d \cap {11}, 9)
    \cup (d \cap (12 .. 19)) \cup Shl(d \cap {20}, 11)

(* The constant fields of a row. *)
Fixed(row) == Bits(row.opcode) \cup Shl(Bits(row.funct3), 12) \cup Shl(Bits(row.funct7), 25)

(* The register fields; a format without the register leaves it out.  *)
Rd(n)  == Shl(Bits(n), 7)
Rs1(n) == Shl(Bits(n), 15)
Rs2(n) == Shl(Bits(n), 20)

(* get_opcode with its operands read: an instruction of a format from its  *)
(* registers and the number imm.                                           *)
Encode(row, rd, rs1, rs2, imm) ==
  Fixed(row) \cup
  CASE row.format = "r" -> Rd(rd) \cup Rs1(rs1) \cup Rs2(rs2)
    [] row.format = "i" -> Rd(rd) \cup Rs1(rs1) \cup ImmediateI(Bits(imm))
    [] row.format = "u" -> Rd(rd) \cup ImmediateU(Bits(imm))
    [] row.format = "s" -> Rs1(rs1) \cup Rs2(rs2) \cup ImmediateS(Bits(imm))
    [] row.format = "b" -> Rs1(rs1) \cup Rs2(rs2) \cup ImmediateB(Bits(imm))
    [] row.format = "j" -> Rd(rd) \cup ImmediateJ(Bits(imm))

----------------------------------------------------------------------------
(* The decoder. *)

Opcode(ir) == Field(ir, 0, 6)
Funct3(ir) == Field(ir, 12, 14)
Funct7(ir) == Field(ir, 25, 31)

Nrd(ir)  == Field(ir, 7, 11)
Nrs1(ir) == Field(ir, 15, 19)
Nrs2(ir) == Field(ir, 20, 24)

(* The format of the first row of the table with the opcode; 0 without.    *)
(* The rows of an opcode have one format.                                  *)
get_format(opcode) ==
  IF \E m \in Mnemonics : i_table[m].opcode = opcode
  THEN i_table[CHOOSE m \in Mnemonics : i_table[m].opcode = opcode].format ELSE "none"

generate_immediate(format, ir) ==
  CASE format \in {"none", "r"} -> {}
    [] format = "i" -> Sar(ir \cap (20 .. 31), 20)
    [] format = "s" -> Sar((ir \cap (25 .. 31)) \cup Shl(ir \cap (7 .. 11), 13), 20)
    [] format = "b" -> Shl(Shr(ir \cap (8 .. 11), 8) \cup Shr(ir \cap (25 .. 30), 21)
                             \cup Shl(ir \cap {7}, 3) \cup Sar(ir \cap {31}, 20), 1)
    [] format = "u" -> Sar(ir \cap (12 .. 31), 12)
    [] format = "j" -> Shl(Shr(ir \cap (21 .. 30), 21) \cup Shr(ir \cap {20}, 10)
                             \cup Shr(ir \cap (12 .. 19), 1) \cup Sar(ir \cap {31}, 12), 1)

(* cu_output.  "unit" is the type signal, "op" the opcode of that unit,    *)
(* "rw" the read_write_opcode, "predicted" the prediction bit; predict()   *)
(* is a parameter of the branches.                                         *)
Output(format, source1, source2, sign, unit, op) ==
  [format |-> format, source1 |-> source1, source2 |-> source2, sign |-> sign, unit |-> unit,
   op |-> op, system |-> 0, mem |-> 0, rw |-> 0, predicted |-> 0, jump_or_branch |-> 0, wb |-> 1]

Bubble == [Output("none", "pc", "rs2", 0, "arithmetic", 0) EXCEPT !.wb = 0]

(* Where the decoder calls exit(1). *)
Illegal == [Bubble EXCEPT !.format = "illegal"]

(* funct7 is looked at where two instructions share funct3. *)
read_r_format(ir) ==
  LET R(sign, unit, op) == Output("r", "rs1", "rs2", sign, unit, op)
      f7 == Funct7(ir)
  IN  CASE Funct3(ir) = 0 -> IF f7 = 0 THEN R(1, "arithmetic", 0)
                             ELSE IF f7 = 32 THEN R(1, "arithmetic", 1) ELSE Illegal
        [] Funct3(ir) = 1 -> R(0, "logic", 3)
        [] Funct3(ir) = 2 -> R(1, "less", 0)
        [] Funct3(ir) = 3 -> R(0, "less", 0)
        [] Funct3(ir) = 4 -> R(0, "logic", 2)
        [] Funct3(ir) = 5 -> IF f7 = 0 THEN R(0, "logic", 4)
                             ELSE IF f7 = 32 THEN R(1, "logic", 4) ELSE Illegal
        [] Funct3(ir) = 6 -> R(0, "logic", 1)
        [] Funct3(ir) = 7 -> R(0, "logic", 0)

(* ecall and ebreak differ in bit 25. *)
SystemFormat(ir) ==
  [Bubble EXCEPT !.system = IF Funct7(ir) = 0 THEN 2 ELSE 1,
                 !.format = IF Funct7(ir) \in {0, 1} THEN @ ELSE "illegal"]

read_i_format(ir) ==
  LET I(sign, unit, op) == Output("i", "rs1", "imm", sign, unit, op)
      Read(rw) == [I(0, "arithmetic", 0) EXCEPT !.mem = 1, !.rw = rw]
      f3 == Funct3(ir)
      f7 == Funct7(ir)
  IN  CASE Opcode(ir) = 19 ->
            (CASE f3 = 0 -> I(1, "arithmetic", 0)
               [] f3 = 2 -> I(1, "less", 0)
               [] f3 = 3 -> I(0, "less", 0)
               [] f3 = 4 -> I(0, "logic", 2)
               [] f3 = 6 -> I(0, "logic", 1)
               [] f3 = 7 -> I(0, "logic", 0)
               [] f3 = 1 -> IF f7 = 0 THEN I(0, "logic", 3) ELSE Illegal
               [] f3 = 5 -> IF f7 = 0 THEN I(0, "logic", 4)
                            ELSE IF f7 = 32 THEN I(1, "logic", 4) ELSE Illegal)
        [] Opcode(ir) = 103 ->
             [I(1, "branch", 4) EXCEPT !.predicted = 1, !.jump_or_branch = 1]
        [] Opcode(ir) = 3 ->
             IF f3 \in {0, 1, 2} THEN Read(f3) ELSE IF f3 \in {4, 5} THEN Read(f3 - 1) ELSE Illegal
        [] Opcode(ir) = 115 -> SystemFormat(ir)
        [] Opcode(ir) = 15  -> Bubble

read_s_format(ir) ==
  IF Funct3(ir) \in 0 .. 2
  THEN [Output("s", "rs1", "imm", 0, "arithmetic", 0)
          EXCEPT !.mem = 1, !.rw = 8 + Funct3(ir), !.wb = 0]
  ELSE Illegal

read_b_format(ir, predict) ==
  LET B(sign, op) == [Output("b", "rs1", "rs2", sign, "branch", op)
                        EXCEPT !.predicted = predict, !.jump_or_branch = 2, !.wb = 0]
  IN  CASE Funct3(ir) = 0 -> B(0, 0)
        [] Funct3(ir) = 1 -> B(0, 1)
        [] Funct3(ir) = 4 -> B(1, 2)
        [] Funct3(ir) = 5 -> B(1, 3)
        [] Funct3(ir) = 6 -> B(0, 2)
        [] Funct3(ir) = 7 -> B(0, 3)
        [] OTHER -> Illegal

read_u_format(ir) == Output("u", "pc", "imm", 0, "logic", IF Opcode(ir) = 55 THEN 5 ELSE 6)

read_j_format(ir) ==
  [Output("j", "pc", "imm", 1, "branch", 4) EXCEPT !.predicted = 1, !.jump_or_branch = 1]

decode(ir, predict) ==
  LET format == get_format(Opcode(ir))
  IN  CASE Opcode(ir) = 0 -> Bubble
        [] Opcode(ir) # 0 /\ format = "none" -> Illegal
        [] format = "r" -> read_r_format(ir)
        [] format = "i" -> read_i_format(ir)
        [] format = "s" -> read_s_format(ir)
        [] format = "b" -> read_b_format(ir, predict)
        [] format = "u" -> read_u_format(ir)
        [] format = "j" -> read_j_format(ir)

----------------------------------------------------------------------------
(* What the formats presuppose; the theorems of ToolchainProofs and the    *)
(* assumptions of MCToolchain are about it.                                *)

(* A word that repeats its bit n to the left of it: an n + 1 bit number    *)
(* with its sign extended.                                                 *)
SignedFrom(d, n) == \A i \in BitPositions : i > n => (i \in d <=> n \in d)

(* The constant fields of a row have their widths and stay out of the      *)
(* immediate.                                                              *)
WellFormed(row) ==
  /\ Bits(row.opcode) \subseteq 0 .. 6 /\ Bits(row.funct3) \subseteq 0 .. 2
  /\ Bits(row.funct7) \subseteq 0 .. 6
  /\ row.format # "r" => Bits(row.funct7) = {}
  /\ row.format \in {"u", "j"} => Bits(row.funct3) = {}
=============================================================================
