------------------------------- MODULE Rv32i -------------------------------
(***************************************************************************)
(* What the instructions of RV32I mean, by name: the promise the assembler,*)
(* the decoder and the data path keep together.  Nothing here knows of bit *)
(* patterns or control signals, and the arithmetic is that of integers.    *)
(*                                                                         *)
(* An instruction is [name, rd, rs1, rs2, imm].  Words are numbers below   *)
(* Modulus, four bytes of ByteValues values each.                          *)
(***************************************************************************)
EXTENDS Integers

CONSTANTS Width, ByteValues, UpperImmediate

Modulus == ByteValues ^ 4

AsSigned(x) == IF 2 * x < Modulus THEN x ELSE x - Modulus

Digit(x, i) == (x \div 2 ^ i) % 2

(* The word whose i-th bit is F(bit of x, bit of y). *)
Bitwise(F(_, _), x, y) ==
  LET word[n \in 0 .. Width] ==
        IF n = 0 THEN 0 ELSE word[n - 1] + F(Digit(x, n - 1), Digit(y, n - 1)) * 2 ^ (n - 1)
  IN  word[Width]

And(x, y) == Bitwise(LAMBDA p, q : p * q, x, y)
Or(x, y)  == Bitwise(LAMBDA p, q : p + q - p * q, x, y)
Xor(x, y) == Bitwise(LAMBDA p, q : (p + q) % 2, x, y)

Truth(b) == IF b THEN 1 ELSE 0

Computes == {"add", "sub", "sll", "slt", "sltu", "xor", "srl", "sra", "or", "and",
             "addi", "slti", "sltiu", "xori", "ori", "andi", "slli", "srli", "srai"}

Branches == {"beq", "bne", "blt", "bge", "bltu", "bgeu"}

Loads == {"lb", "lh", "lw", "lbu", "lhu"}

Stores == {"sb", "sh", "sw"}

(* The result of a computation on x and y; the immediate forms compute the *)
(* same with the immediate as y.                                           *)
Computed(name, x, y) ==
  CASE name \in {"add", "addi"}   -> x + y
    [] name = "sub"               -> x - y
    [] name \in {"sll", "slli"}   -> x * 2 ^ (y % Width)
    [] name \in {"srl", "srli"}   -> x \div 2 ^ (y % Width)
    [] name \in {"sra", "srai"}   -> AsSigned(x) \div 2 ^ (y % Width)
    [] name \in {"slt", "slti"}   -> Truth(AsSigned(x) < AsSigned(y))
    [] name \in {"sltu", "sltiu"} -> Truth(x < y)
    [] name \in {"and", "andi"}   -> And(x, y)
    [] name \in {"or", "ori"}     -> Or(x, y)
    [] name \in {"xor", "xori"}   -> Xor(x, y)

Taken(name, x, y) ==
  CASE name = "beq"  -> x = y
    [] name = "bne"  -> x # y
    [] name = "blt"  -> AsSigned(x) < AsSigned(y)
    [] name = "bge"  -> AsSigned(x) >= AsSigned(y)
    [] name = "bltu" -> x < y
    [] name = "bgeu" -> x >= y

(* Bytes of a load or store. *)
Size(name) == CASE name \in {"lb", "lbu", "sb"} -> 1
                [] name \in {"lh", "lhu", "sh"} -> 2
                [] name \in {"lw", "sw"}        -> 4

(* Little-endian: the byte at the lowest address counts least. *)
ValueAt(memory, a, size) ==
  memory[a] + (IF size > 1 THEN memory[a + 1] * ByteValues ELSE 0)
            + (IF size > 2 THEN memory[a + 2] * ByteValues ^ 2 + memory[a + 3] * ByteValues ^ 3 ELSE 0)

Loaded(name, memory, a) ==
  LET v == ValueAt(memory, a, Size(name))
      values == ByteValues ^ Size(name)
  IN  IF name \in {"lb", "lh"} /\ 2 * v >= values THEN v - values ELSE v

Stored(name, memory, a, x) ==
  [b \in DOMAIN memory |-> IF b \in a .. a + Size(name) - 1
                           THEN (x \div ByteValues ^ (b - a)) % ByteValues ELSE memory[b]]

(* Executing i at pc with register values x (rs1) and y (rs2): the value   *)
(* for rd, or -1 for none, the next pc, and the memory afterwards.         *)
Result(value, next, memory) ==
  [value |-> value, pc |-> next % Modulus, memory |-> memory]

Meaning(i, pc, x, y, memory) ==
  LET n == i.name
      Gives(v, next) == Result(v % Modulus, next, memory)
      Moves(next)    == Result(-1, next, memory)
      a == (x + i.imm) % Modulus
  IN  CASE n \in Computes -> Gives(Computed(n, x, IF i.rs2 = -1 THEN i.imm % Modulus ELSE y), pc + 4)
        [] n = "lui"      -> Gives(i.imm * 2 ^ UpperImmediate, pc + 4)
        [] n = "auipc"    -> Gives(pc + i.imm * 2 ^ UpperImmediate, pc + 4)
        [] n = "jal"      -> Gives(pc + 4, pc + i.imm)
        [] n = "jalr"     -> Gives(pc + 4, a)
        [] n \in Branches -> Moves(pc + (IF Taken(n, x, y) THEN i.imm ELSE 4))
        [] n \in Loads    -> Gives(Loaded(n, memory, a), pc + 4)
        [] n \in Stores   -> Result(-1, pc + 4, Stored(n, memory, a, y))
        [] n = "nop"      -> Gives(0, pc + 4)
        [] OTHER          -> Moves(pc + 4)
=============================================================================
