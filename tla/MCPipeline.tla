----------------------------- MODULE MCPipeline -----------------------------
(***************************************************************************)
(* Small instances of the pipeline: 64-byte address space, 10 words of     *)
(* code, one read-only and five writable words of data, and every program  *)
(* of Length units from a list of instructions, closed by "ebreak; nop"    *)
(* the way the assembly programs of the repository are.                    *)
(***************************************************************************)
EXTENDS PipelineIsa

CONSTANTS
  Suite   \* which programs to run

MCReg == {0, 1, 2, 17}

ADD(d, s, t)  == [op |-> "ADD",  rd |-> d, rs1 |-> s, rs2 |-> t, imm |-> 0]
ADDI(d, s, i) == [op |-> "ADDI", rd |-> d, rs1 |-> s, rs2 |-> 1, imm |-> i]
LW(d, i, s)   == [op |-> "LW",   rd |-> d, rs1 |-> s, rs2 |-> 2, imm |-> i]
SW(t, i, s)   == [op |-> "SW",   rd |-> 1, rs1 |-> s, rs2 |-> t, imm |-> i]
BEQ(s, t, i)  == [op |-> "BEQ",  rd |-> 1, rs1 |-> s, rs2 |-> t, imm |-> i]
BNE(s, t, i)  == [op |-> "BNE",  rd |-> 2, rs1 |-> s, rs2 |-> t, imm |-> i]
JAL(d, i)     == [op |-> "JAL",  rd |-> d, rs1 |-> 1, rs2 |-> 2, imm |-> i]
JALR(d, s, i) == [op |-> "JALR", rd |-> d, rs1 |-> s, rs2 |-> 1, imm |-> i]
LUI(d, i)     == [op |-> "LUI",  rd |-> d, rs1 |-> 1, rs2 |-> 2, imm |-> i]
ECALL  == [op |-> "ECALL",  rd |-> 0, rs1 |-> 0, rs2 |-> 0, imm |-> 0]
EBREAK == [op |-> "EBREAK", rd |-> 0, rs1 |-> 0, rs2 |-> 0, imm |-> 0]
NOP    == [op |-> "ADDI",   rd |-> 0, rs1 |-> 0, rs2 |-> 0, imm |-> 0]

Closed(unit) == unit \o <<EBREAK, NOP>>

(* Values used one, two and three instructions after they are made, loads  *)
(* used at once, store data, branches both ways, jumps, and system calls   *)
(* followed by a nop.                                                      *)
Hazards == { <<ADDI(1, 1, 4)>>, <<ADD(2, 1, 2)>>, <<LW(1, 44, 2)>>, <<SW(1, 44, 2)>>,
             <<SW(2, 40, 1)>>, <<BEQ(1, 2, 8)>>, <<BNE(2, 1, -4)>>, <<JAL(1, 8)>>,
             <<JALR(2, 1, 8)>>, <<ADDI(17, 0, 1)>>, <<ECALL, NOP>> }

(* System calls followed by whatever comes, another system call included. *)
SystemCalls == { <<ECALL>>, <<ECALL, ADDI(1, 17, 4)>>, <<EBREAK>>, <<ADDI(17, 0, 1)>>,
                 <<ADDI(17, 0, 0)>>, <<ADDI(1, 17, 4)>>, <<LW(17, 44, 0)>>, <<SW(1, 44, 2)>>, <<BEQ(1, 2, 8)>>, <<JAL(1, 8)>> }

(* Additions that wrap, branches and jumps over an instruction; no way back *)
(* and no computed jump: every program ends.                                  *)
Forward == { <<ADD(1, 1, 2)>>, <<LW(2, 44, 1)>>, <<SW(1, 44, 0)>>, <<ADDI(1, 0, -4)>>, <<BEQ(1, 2, 8)>>,
             <<BNE(1, 0, 8)>>, <<JAL(1, 8)>>, <<LUI(17, 4), ECALL, NOP>>, <<ECALL, NOP>> }

(* Sequences of n of the units. *)
Bodies(units) ==
  LET B[n \in Nat] == IF n = 0 THEN {<<>>} ELSE {unit \o body : unit \in units, body \in B[n - 1]}
  IN  B

Ending(units, n, last) == {Closed(body \o last) : body \in Bodies(units)[n]}

SystemCallPrograms == Ending(SystemCalls, 2, <<>>)

ForwardPrograms == Ending(Forward, 2, <<NOP>>)

HazardPrograms == Ending(Hazards, 3, <<>>)

(* Three system calls and what is between them, and the programs of        *)
(* Hazards, whose system calls are followed by a nop.                      *)
UnpaddedPrograms == Ending(SystemCalls, 3, <<>>) \ HazardPrograms

MCPrograms ==
  CASE Suite = "afterhalt"   -> {Closed(<<ECALL, ADDI(1, 0, 8), ADDI(2, 0, 8)>>)}
    [] Suite = "systemcalls" -> SystemCallPrograms \cup ForwardPrograms
    [] Suite = "hazards"     -> HazardPrograms \cup UnpaddedPrograms

(* Programs that do not pad their system calls fetch at once in the suite  *)
(* "hazards", and are refused accesses for some time, or their loads and   *)
(* stores at once, in the suite "systemcalls".  In the suite "afterhalt" a *)
(* fetch may take as long as an instruction takes to WB.  All others wait  *)
(* for no or for two cycles for an instruction, and all for no or one for  *)
(* data.                                                                   *)
MCFetchLatency(p) ==
  CASE Suite = "hazards" /\ p \in UnpaddedPrograms       -> {1}
    [] Suite = "systemcalls" /\ p \in SystemCallPrograms -> {-1, 1, 3}
    [] Suite = "afterhalt" -> {1, 5}
    [] OTHER -> {1, 3}

MCDataLatency(p) ==
  CASE Suite = "systemcalls" /\ p \in SystemCallPrograms -> {0, 1, 2}
    [] OTHER -> {1, 2}

(* What the refinement asks of its instance. *)
ASSUME UndisturbedAssumption == Suite = "hazards" => Undisturbed

MCImages == {[a \in DataAddr |-> IF a = 44 THEN 8 ELSE 4]}

MCCodeWord(i) == IF i.op = "NONE" THEN 0 ELSE 3
=============================================================================
