---------------------------- MODULE PipelineIsa ----------------------------
(***************************************************************************)
(* The pipeline implements the sequential machine of module Isa.           *)
(*                                                                         *)
(* An instruction takes its abstract step when it leaves MA: its result is *)
(* then in MA/WB, to be written at the next WB, and younger instructions   *)
(* can still be flushed.  An ebreak or ecall takes it when it leaves EX.   *)
(***************************************************************************)
EXTENDS Pipeline

(* A pipeline register is stale from the moment the next stage has         *)
(* consumed it until its own stage refills it in the same cycle.           *)
ExMaHolds ==
  stage \in {"WB", "MA", "ID", "IF"} /\ ex_ma.ins \notin {Blank, "ECALL", "EBREAK"}

IdExHolds == stage \in {"WB", "MA", "EX", "IF"} /\ id_ex.ins # Blank

IfIdHolds == stage # "IF" /\ if_id.ins # Blank

(* EX/MA does not keep its instruction's address, only what follows it.    *)
ExMaPC ==
  ((IF ex_ma.jump_or_branch # 0 THEN ex_ma.result ELSE ex_ma.PC_next) - 4) % WordSize

AbsStatus ==
  IF status = "dfault" THEN "fault"
  ELSE IF status = "halted" \/ PAUSE = 1 \/ (TRAP = 1 /\ reg_file[17] = 0) THEN "halted"
  ELSE "running"

(* The oldest instruction that has not taken its step. *)
AbsPC ==
  IF AbsStatus = "halted" THEN 0
  ELSE IF ExMaHolds THEN ExMaPC
  ELSE IF IdExHolds THEN id_ex.PC
  ELSE IF IfIdHolds THEN if_id.PC
  ELSE pc

(* Once simulate() has returned, the register file is all that counts.     *)
AbsRegs ==
  IF status # "halted" /\ ma_wb.wb = 1
  THEN WriteReg(reg_file, ma_wb.nrd, ma_wb.result) ELSE reg_file

Sequential == INSTANCE Isa WITH pc <- AbsPC, regs <- AbsRegs, mem <- dram, status <- AbsStatus

----------------------------------------------------------------------------
(* The conditions under which that is so. *)

(* An instruction that changes no register, no word and not the pc. *)
Idle(i) == i.op = "NONE" \/ (i.op \in {"ADD", "ADDI", "LUI"} /\ i.rd = 0)

(* Every ebreak and ecall is followed by a nop. *)
CallsPadded(p) ==
  \A a \in 0 .. TextLimit :
    a % 4 = 0 /\ TextWord(p, a).op \in {"ECALL", "EBREAK"} => Idle(TextWord(p, Plus(a, 4)))

(* A call that waits for a fetch lets the instruction behind it pass, and  *)
(* a refused data access lets a fetch overwrite IF/ID: the calls are       *)
(* padded or no fetch makes them wait, and no data access is refused.      *)
Undisturbed ==
  \A p \in Programs :
    /\ CallsPadded(p) \/ FetchLatency(p) = {1}
    /\ 0 \notin DataLatency(p)

----------------------------------------------------------------------------
(* Whatever the latencies, the forwarding switch and the predictor, what   *)
(* simulate() does to the registers and the memory is what the             *)
(* instructions do one after the other, and when it returns every          *)
(* instruction before the one that stopped it has been written back:       *)
(* provided the calls and the accesses are Undisturbed.                    *)
ImplementsIsa == Sequential!Spec

(* Once an ebreak, or an ecall that finds the halt code, has left EX, the  *)
(* program is over: nothing changes a register or the memory any more, and *)
(* simulate() returns.                                                     *)
HaltIsFinal ==
  [][AbsStatus = "halted" /\ status = "running" =>
       AbsStatus' = "halted" /\ AbsRegs' = AbsRegs /\ dram' = dram]_vars

(* A program that starts with an ecall, which finds the halt code 0 in a7, *)
(* leaves the register file as it was when simulate() returns, however     *)
(* long a fetch takes: the configuration changes the timing, never the     *)
(* result (collegereport/demo/README.md:4, 16).  The code does not keep    *)
(* this: the call waits for a fetch (simulator.c:226-239), and what stands *)
(* behind it is written back meanwhile.                                    *)
FirstHaltKeepsRegisters ==
  status = "halted" /\ TextWord(prog, 0).op = "ECALL" => reg_file = [r \in Reg |-> 0]
=============================================================================
