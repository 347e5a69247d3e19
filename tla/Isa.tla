-------------------------------- MODULE Isa --------------------------------
(***************************************************************************)
(* What a program means whatever the configuration: one instruction per    *)
(* step, each completed before the next one starts.  The pipeline is shown *)
(* to implement this specification.                                        *)
(*                                                                         *)
(* ebreak stops the machine, and so does an ecall that finds the halt code *)
(* 0 in register 17; any other ecall does nothing.  Where a stopped        *)
(* machine's program counter points is not part of the promise: it is 0.   *)
(***************************************************************************)
EXTENDS Machine

VARIABLES
  prog,    \* the program, fixed once loaded
  pc,      \* address of the next instruction
  regs,    \* the register file
  mem,     \* the words of the DRAM outside the text segment
  status   \* "running", "halted", or "fault" after an illegal access

vars == <<prog, pc, regs, mem, status>>

Fetched == TextWord(prog, pc)

Init ==
  /\ prog \in Programs
  /\ mem \in Images
  /\ pc = 0
  /\ regs = [r \in Reg |-> 0]
  /\ status = "running"

----------------------------------------------------------------------------
Executes(ops) ==
  /\ status = "running"
  /\ ~FetchFault(pc)
  /\ Fetched.op \in ops
  /\ UNCHANGED prog

Goto(a) == pc' = a

Fallthrough == Goto(Plus(pc, 4))

NoOperation ==
  /\ Executes({"NONE"})
  /\ Fallthrough
  /\ UNCHANGED <<regs, mem, status>>

Compute ==
  /\ Executes({"ADD", "ADDI", "LUI"})
  /\ LET value == CASE Fetched.op = "ADD"  -> Plus(regs[Fetched.rs1], regs[Fetched.rs2])
                    [] Fetched.op = "ADDI" -> Plus(regs[Fetched.rs1], Fetched.imm)
                    [] Fetched.op = "LUI"  -> Plus(0, Fetched.imm)
     IN  regs' = WriteReg(regs, Fetched.rd, value)
  /\ Fallthrough
  /\ UNCHANGED <<mem, status>>

Address == Plus(regs[Fetched.rs1], Fetched.imm)

Load ==
  /\ Executes({"LW"})
  /\ ~LoadFault(Address)
  /\ regs' = WriteReg(regs, Fetched.rd, LoadWord(prog, mem, Address))
  /\ Fallthrough
  /\ UNCHANGED <<mem, status>>

Store ==
  /\ Executes({"SW"})
  /\ ~StoreFault(Address)
  /\ mem' = [mem EXCEPT ![Address] = regs[Fetched.rs2]]
  /\ Fallthrough
  /\ UNCHANGED <<regs, status>>

Fault ==
  /\ \/ Executes({"LW"}) /\ LoadFault(Address)
     \/ Executes({"SW"}) /\ StoreFault(Address)
  /\ status' = "fault"
  /\ UNCHANGED <<pc, regs, mem>>

Branch ==
  /\ Executes({"BEQ", "BNE"})
  /\ LET taken == (Fetched.op = "BEQ") <=> (regs[Fetched.rs1] = regs[Fetched.rs2])
     IN  Goto(Plus(pc, IF taken THEN Fetched.imm ELSE 4))
  /\ UNCHANGED <<regs, mem, status>>

Jump ==
  /\ Executes({"JAL", "JALR"})
  /\ regs' = WriteReg(regs, Fetched.rd, Plus(pc, 4))
  /\ Goto(IF Fetched.op = "JAL" THEN Plus(pc, Fetched.imm) ELSE Address)
  /\ UNCHANGED <<mem, status>>

EcallReturns ==
  /\ Executes({"ECALL"})
  /\ regs[17] # 0
  /\ Fallthrough
  /\ UNCHANGED <<regs, mem, status>>

Halt ==
  /\ \/ Executes({"EBREAK"})
     \/ Executes({"ECALL"}) /\ regs[17] = 0
  /\ status' = "halted"
  /\ Goto(0)
  /\ UNCHANGED <<regs, mem>>

Next ==
  \/ NoOperation \/ Compute \/ Load \/ Store \/ Fault
  \/ Branch \/ Jump \/ EcallReturns \/ Halt

Spec == Init /\ [][Next]_vars
=============================================================================
