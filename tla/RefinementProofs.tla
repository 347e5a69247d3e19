-------------------------- MODULE RefinementProofs --------------------------
(***************************************************************************)
(* The pipeline implements the sequential machine for every program,       *)
(* latency, forwarding switch and predictor, as long as calls and accesses *)
(* are Undisturbed.                                                        *)
(*                                                                         *)
(* The invariant says of each latch what its instruction has already       *)
(* computed, from the registers as they are when the older instructions    *)
(* have taken their steps (AbsRegs), and that each latch holds what        *)
(* follows the instruction ahead of it.                                    *)
(***************************************************************************)
EXTENDS PipelineIsa, PipelineProofs

(* The text of a latch names its instruction, and a bubble does nothing. *)
Texts ==
  /\ if_id.ins # Blank =>
       if_id.ins = if_id.IR.op /\ if_id.PC_next = Plus(if_id.PC, 4) /\ ~FetchFault(if_id.PC)
  /\ id_ex.ins # Blank =>
       /\ id_ex.ins = TextWord(prog, id_ex.PC).op
       /\ id_ex.PC_next = Plus(id_ex.PC, 4) /\ ~FetchFault(id_ex.PC)
  /\ if_id.ins = Blank => if_id = NoIfId
  /\ id_ex.ins = Blank => id_ex.cs = NoControl /\ id_ex.nrs2 = 0
  /\ ex_ma.ins \in {Blank, "ECALL", "EBREAK"} => QuietMa(ex_ma)

(* The address of the instruction that enters ID/EX next, and of the first *)
(* one behind EX/MA.                                                       *)
NextPC == IF change_pc = 1 THEN jump_pc ELSE IF IfIdHolds THEN if_id.PC ELSE pc

Behind == IF IdExHolds THEN id_ex.PC ELSE NextPC

(* Where the predictor, and the ALU, say that the program goes on. *)
Guess ==
  IF id_ex.cs.jump_or_branch = 2 /\ id_ex.cs.predicted = 1
  THEN Plus(id_ex.PC, id_ex.imm) ELSE id_ex.PC_next

GuessMa ==
  IF ex_ma.jump_or_branch = 2 /\ ex_ma.predicted = 0 THEN ex_ma.result ELSE ex_ma.PC_next

(* Each instruction is followed by the one its predecessor foretells. *)
Path ==
  /\ IfIdHolds => pc = if_id.PC_next
  /\ IdExHolds => NextPC = Guess
  /\ ExMaHolds /\ ex_ma.jump_or_branch # 1 => Behind = GuessMa

(* WB/IF and its predecessor are what was last written, the younger last. *)
History ==
  \A r \in Reg :
    /\ Pending(wb_if, r) => reg_file[r] = wb_if.result
    /\ Pending(recent_wb, r) /\ ~Pending(wb_if, r) => reg_file[r] = recent_wb.result

(* What forwarding relies on: MA/WB in MA is already written, and in EX it *)
(* is EX/MA's instruction one stage further.                               *)
Settled ==
  /\ reg_file[0] = 0
  /\ stage = "MA" => ma_wb = wb_if
  /\ stage = "EX" => \/ QuietMa(ex_ma)
                     \/ /\ ma_wb.wb = ex_ma.wb /\ ma_wb.nrd = ex_ma.nrd
                        /\ ex_ma.mem = "none" => ma_wb.result = ex_ma.result

(* An operand in ID/EX is up to date but for the last write. *)
Operand(value, r) ==
  value = reg_file[r] \/ (stage \in {"MA", "EX"} /\ Pending(wb_if, r))

Operands ==
  stage # "ID" /\ id_ex.cs.system = 0 =>
    Operand(id_ex.R1, id_ex.nrs1) /\ Operand(id_ex.R2, id_ex.nrs2)

(* EX/MA holds what its instruction is to do, from the registers as the    *)
(* older instructions leave them.                                          *)
ResultOf(i, at, latch) ==
  /\ i.op = "ADD" => latch.result = Plus(AbsRegs[i.rs1], AbsRegs[i.rs2])
  /\ i.op \in {"ADDI", "LW", "SW"} => latch.result = Plus(AbsRegs[i.rs1], i.imm)
  /\ i.op = "LUI" => latch.result = Plus(0, i.imm)
  /\ i.op \in {"BEQ", "BNE", "JAL", "JALR"} => latch.result = Plus(at, 4)

TargetOf(i, at, latch) ==
  /\ i.op \in {"BEQ", "BNE", "JAL"} => latch.PC_next = Plus(at, i.imm)
  /\ i.op = "JALR" => latch.PC_next = Plus(AbsRegs[i.rs1], i.imm)
  /\ i.op \notin {"BEQ", "BNE", "JAL", "JALR"} => latch.PC_next = Plus(at, 4)

Carries(i, latch) ==
  /\ latch.ins = i.op /\ latch.nrd = i.rd /\ latch.wb = decode(i).wb
  /\ latch.mem = decode(i).mem /\ latch.jump_or_branch = decode(i).jump_or_branch
  /\ i.op = "SW" => latch.R2 = AbsRegs[i.rs2] /\ latch.nrs2 = i.rs2
  /\ i.op \in {"BEQ", "BNE"} =>
       (latch.actual = 1 <=> (i.op = "BEQ" <=> AbsRegs[i.rs1] = AbsRegs[i.rs2]))

Computes(i, at, latch) ==
  ~FetchFault(at) /\ Carries(i, latch) /\ ResultOf(i, at, latch) /\ TargetOf(i, at, latch)

Computed == ExMaHolds => Computes(TextWord(prog, ExMaPC), ExMaPC, ex_ma)

(* While a call waits, what is ahead of it and what slips past it is idle. *)
IdleMa(latch) ==
  latch.mem = "none" /\ latch.jump_or_branch = 0 /\ (latch.wb = 1 => latch.nrd = 0)

IdleId(latch) ==
  /\ latch.cs.system = 0 /\ latch.cs.mem = "none" /\ latch.cs.jump_or_branch = 0
  /\ latch.cs.wb = 1 => latch.nrd = 0

Waiting == PAUSE = 1 \/ TRAP = 1

Waits ==
  Waiting =>
    /\ ma_wb.wb = 1 => ma_wb.nrd = 0
    /\ IdleMa(ex_ma)
    /\ stage # "IF" => change_pc = 0
    /\ stage \in {"WB", "MA", "EX"} => IdleId(id_ex)
    /\ CallsPadded(prog) => /\ stage = "IF" => IdleId(id_ex)
                            /\ stage # "IF" /\ if_id.ins # Blank => Idle(if_id.IR)

FetchesAtOnce == FetchLatency(prog) = {1} => counter.i = -1 /\ mfc_i = "COMPLETED"

RefInv ==
  /\ Texts /\ Path /\ History /\ Settled /\ Operands /\ Computed /\ Waits /\ FetchesAtOnce

Proved == TypeOK /\ FetchedWord /\ AccessOwned /\ RedirectPending /\ DrainInv

Running == status = "running" => RefInv

----------------------------------------------------------------------------
(* Addresses and registers. *)

LEMMA PlusFour ==
  ASSUME NEW p \in Word PROVE (Plus(p, 4) - 4) % WordSize = p
<1>1. p \in Nat /\ p < WordSize /\ WordSize \in Nat /\ WordSize > 4
  BY WordsAssumption DEF Word
<1>2. CASE p + 4 < WordSize
  BY <1>1, <1>2 DEF Plus
<1>3. CASE p + 4 >= WordSize
  <2>1. Plus(p, 4) = p + 4 - WordSize
    BY <1>1, <1>3 DEF Plus
  <2>2. Plus(p, 4) - 4 = p - WordSize
    BY <1>1, <2>1
  <2>3. (p - WordSize) % WordSize = p
    BY <1>1
  <2>4. QED
    BY <2>2, <2>3
<1>4. QED
  BY <1>1, <1>2, <1>3

(* The registers once the instruction in MA/WB has written its own. *)
LEMMA AbsRegsAt ==
  ASSUME TypeOK, status # "halted", reg_file[0] = 0, NEW r \in Reg
  PROVE  AbsRegs[r] = IF Pending(ma_wb, r) THEN ma_wb.result ELSE reg_file[r]
<1>1. reg_file \in [Reg -> Word] /\ ma_wb \in MaWbLatch /\ 0 \in Reg
  BY WordFacts DEF TypeOK
<1>2. CASE ma_wb.wb = 1
  BY <1>1, <1>2 DEF AbsRegs, WriteReg, Pending, MaWbLatch
<1>3. CASE ma_wb.wb # 1
  BY <1>3 DEF AbsRegs, Pending
<1>4. QED
  BY <1>2, <1>3

LEMMA ZeroWrite ==
  ASSUME NEW f \in [Reg -> Word], f[0] = 0, NEW v PROVE WriteReg(f, 0, v) = f
  BY WordFacts DEF WriteReg

LEMMA WriteTwice ==
  ASSUME NEW f \in [Reg -> Word], NEW r \in Reg, NEW v
  PROVE  WriteReg(WriteReg(f, r, v), r, v) = WriteReg(f, r, v)
  BY WordFacts DEF WriteReg

LEMMA AbsRegsType ==
  ASSUME TypeOK PROVE AbsRegs \in [Reg -> Word]
<1>1. WriteReg(reg_file, ma_wb.nrd, ma_wb.result) \in [Reg -> Word]
  BY WriteRegType DEF TypeOK, MaWbLatch
<1>2. QED
  BY <1>1 DEF AbsRegs, TypeOK

(* In MA the instruction in MA/WB has been written back. *)
LEMMA AbsRegsInMA ==
  ASSUME TypeOK, History, Settled, stage = "MA" PROVE AbsRegs = reg_file
<1>1. /\ reg_file \in [Reg -> Word] /\ ma_wb \in MaWbLatch /\ 0 \in Reg
      /\ reg_file[0] = 0 /\ ma_wb = wb_if
  BY WordFacts DEF TypeOK, Settled
<1>2. \A r \in Reg : Pending(ma_wb, r) => reg_file[r] = ma_wb.result
  BY <1>1 DEF History
<1>3. ASSUME ma_wb.wb = 1
      PROVE  WriteReg(reg_file, ma_wb.nrd, ma_wb.result) = reg_file
  <2>1. ma_wb.nrd \in Reg
    BY <1>1 DEF MaWbLatch
  <2>2. CASE ma_wb.nrd = 0
    BY <1>1, <2>2, ZeroWrite
  <2>3. CASE ma_wb.nrd # 0
    <3>1. reg_file[ma_wb.nrd] = ma_wb.result
      BY <1>2, <1>3, <2>1, <2>3 DEF Pending
    <3>2. QED
      BY <1>1, <2>1, <2>3, <3>1 DEF WriteReg
  <2>4. QED
    BY <2>2, <2>3
<1>4. QED
  BY <1>3 DEF AbsRegs

(* An operand that needs no stall is the register's value. *)
LEMMA ForwardedValue ==
  ASSUME TypeOK, status = "running", stage = "EX", History, Settled,
         NEW v, NEW r \in Reg, Operand(v, r), forward_ex(v, r).stall = 0
  PROVE  forward_ex(v, r).value = AbsRegs[r]
<1>1. AbsRegs[r] = IF Pending(ma_wb, r) THEN ma_wb.result ELSE reg_file[r]
  BY AbsRegsAt DEF Settled
<1>2. CASE Pending(ex_ma, r)
  <2>1. ex_ma.mem = "none" /\ forward_ex(v, r).value = ex_ma.result
    BY <1>2 DEF forward_ex
  <2>2. ma_wb.wb = ex_ma.wb /\ ma_wb.nrd = ex_ma.nrd /\ ma_wb.result = ex_ma.result
    BY <1>2, <2>1 DEF Settled, QuietMa, Pending
  <2>3. QED
    BY <1>1, <1>2, <2>1, <2>2 DEF Pending
<1>3. CASE ~Pending(ex_ma, r)
  <2>1. ~Pending(ma_wb, r)
    BY <1>3 DEF forward_ex
  <2>2. CASE Pending(wb_if, r)
    BY <1>1, <1>3, <2>1, <2>2 DEF forward_ex, History
  <2>3. CASE ~Pending(wb_if, r)
    BY <1>1, <1>3, <2>1, <2>3 DEF forward_ex, Operand
  <2>4. QED
    BY <2>2, <2>3
<1>4. QED
  BY <1>2, <1>3

LEMMA ForwardedStore ==
  ASSUME TypeOK, status = "running", stage = "MA", History, Settled,
         NEW r \in Reg
  PROVE  forward_ma(AbsRegs[r], r) = AbsRegs[r]
<1>1. AbsRegs = reg_file /\ ma_wb = wb_if
  BY AbsRegsInMA DEF Settled
<1>2. QED
  BY <1>1 DEF forward_ma, History

----------------------------------------------------------------------------
(* The texts and the two latches behind EX. *)

LEMMA LatchChanges ==
  ASSUME [Next]_vars
  PROVE  /\ UNCHANGED config
         /\ if_id' = NoIfId \/ UNCHANGED if_id \/ FetchCompletes
         /\ id_ex' = NoIdEx \/ update_operands \/ UNCHANGED id_ex \/ id_ex' = id_stage
         /\ \/ UNCHANGED ex_ma \/ ex_ma' = NoExMa
            \/ stage = "EX" /\ status = "running" /\ ex_ma' = ex_stage
  BY DEF Next, vars, Stopped, Runs, WriteBack, MaIdle, MaFlush, MaLoad, MaStore, MaFault, MaStall,
         MaRefused, Accesses, Refused, ExBreakpoint, ExSystemCall, ExDrains, ExStall, Execute,
         ExBubble, ExPasses, Decode, DecodeStall, FollowPrediction, Fetch, FetchStall, Break,
         SystemCall, FetchFaults, FetchPending, AfterFetch

LEMMA Alive == [Next]_vars /\ status' = "running" => status = "running"
  BY DEF Next, vars, Stopped, Runs, WriteBack, MaIdle, MaFlush, MaLoad, MaStore, MaFault, MaStall,
         MaRefused, Accesses, Refused, ExBreakpoint, ExSystemCall, ExDrains, ExStall, Execute,
         ExBubble, ExPasses, Decode, DecodeStall, FollowPrediction, Fetch, FetchStall, Break,
         SystemCall, FetchFaults

LEMMA FetchedText ==
  ASSUME TypeOK, FetchedWord, FetchCompletes
  PROVE  /\ if_id'.PC = pc /\ pc' = Plus(pc, 4) /\ ~FetchFault(pc)
         /\ if_id'.IR = TextWord(prog, pc) /\ if_id'.ins = if_id'.IR.op
         /\ if_id'.PC_next = Plus(pc, 4) /\ if_id'.ins # Blank
<1>1. FetchAddress = pc
  BY DEF FetchedWord, FetchAddress, TypeOK
<1>2. TextWord(prog, pc) \in Instr
  BY TextWordType, WordFacts DEF TypeOK
<1>3. QED
  BY <1>1, <1>2 DEF FetchCompletes, Instr, Op, Blank

LEMMA DecodedCall ==
  ASSUME TypeOK, FetchedWord, Texts, id_ex.ins # Blank
  PROVE  /\ TextWord(prog, id_ex.PC) \in Instr
         /\ id_ex.cs = decode(TextWord(prog, id_ex.PC))
         /\ id_ex.cs.system # 0 <=> id_ex.ins \in {"ECALL", "EBREAK"}
<1>1. id_ex.PC \in Nat /\ prog \in Programs
  BY WordFacts DEF TypeOK, IdExLatch
<1>2. TextWord(prog, id_ex.PC) \in Instr
  BY <1>1, TextWordType
<1>3. QED
  BY <1>2 DEF FetchedWord, Texts, decode

(* A call finds nothing ahead of it when it moves on. *)
LEMMA CallAhead ==
  ASSUME TypeOK, DrainInv, status = "running", stage = "EX", CallWaits,
         PauseDrains \/ TrapDrains
  PROVE  QuietMa(ex_ma) /\ ma_wb.wb = 0
<1>1. Draining
  BY DEF PauseDrains, TrapDrains, Draining
<1>2. SpacedOut
  BY <1>1 DEF DrainInv
<1>3. ~Quiet(id_ex)
  BY DEF CallWaits, Quiet
<1>4. QED
  BY <1>2, <1>3 DEF SpacedOut

LEMMA PassesEx ==
  ASSUME TypeOK, [Next]_vars, status = "running", stage = "EX", stage' = "ID"
  PROVE  /\ ExPasses /\ UNCHANGED config
         /\ PauseDrains \/ TrapDrains \/ (PauseRaised = 0 /\ TrapRaised = 0 /\ StallRaised = 0)
  BY DEF Next, vars, Stopped, Runs, WriteBack, MaIdle, MaFlush, MaLoad, MaStore, MaFault, MaStall,
         MaRefused, Accesses, Refused, ExBreakpoint, ExSystemCall, ExDrains, ExStall, Execute,
         ExBubble, ExPasses, Decode, DecodeStall, FollowPrediction, Fetch, FetchStall, Break,
         SystemCall, FetchFaults, NextCycle

LEMMA TextsStep ==
  ASSUME Proved, RefInv, status = "running", [Next]_vars PROVE Texts'
<1> USE DEF Proved, RefInv
<1>1. prog' = prog
  BY LatchChanges DEF config
<1> DEFINE IfIdOK ==
             /\ if_id.ins # Blank =>
                  /\ if_id.ins = if_id.IR.op /\ if_id.PC_next = Plus(if_id.PC, 4)
                  /\ ~FetchFault(if_id.PC)
             /\ if_id.ins = Blank => if_id = NoIfId
           IdExOK ==
             /\ id_ex.ins # Blank =>
                  /\ id_ex.ins = TextWord(prog, id_ex.PC).op
                  /\ id_ex.PC_next = Plus(id_ex.PC, 4) /\ ~FetchFault(id_ex.PC)
             /\ id_ex.ins = Blank => id_ex.cs = NoControl /\ id_ex.nrs2 = 0
           ExMaOK == ex_ma.ins \in {Blank, "ECALL", "EBREAK"} => QuietMa(ex_ma)
<1>2. IfIdOK /\ IdExOK /\ ExMaOK
  BY DEF Texts
<1>3. IfIdOK'
  <2>1. CASE if_id' = NoIfId
    BY <2>1 DEF NoIfId
  <2>2. CASE UNCHANGED if_id
    BY <1>2, <2>2
  <2>3. CASE FetchCompletes
    BY <2>3, FetchedText
  <2>4. QED
    BY <2>1, <2>2, <2>3, LatchChanges
<1>4. IdExOK'
  <2>1. CASE id_ex' = NoIdEx
    BY <2>1 DEF NoIdEx
  <2>2. CASE update_operands
    <3>1. /\ id_ex'.ins = id_ex.ins /\ id_ex'.PC = id_ex.PC /\ id_ex'.PC_next = id_ex.PC_next
          /\ id_ex'.cs = id_ex.cs /\ id_ex'.nrs2 = id_ex.nrs2
      BY <2>2 DEF update_operands, TypeOK, IdExLatch
    <3>2. QED
      BY <1>1, <1>2, <3>1
  <2>3. CASE UNCHANGED id_ex
    BY <1>1, <1>2, <2>3
  <2>4. CASE id_ex' = id_stage
    <3>1. CASE if_id.ins = Blank
      BY <1>2, <2>4, <3>1 DEF id_stage, decode, NoControl, NoIfId, NoInstr
    <3>2. CASE if_id.ins # Blank
      BY <1>1, <1>2, <2>4, <3>2 DEF id_stage, FetchedWord
    <3>3. QED
      BY <3>1, <3>2
  <2>5. QED
    BY <2>1, <2>2, <2>3, <2>4, LatchChanges
<1>5. ExMaOK'
  <2>1. CASE UNCHANGED ex_ma
    BY <1>2, <2>1 DEF QuietMa
  <2>2. CASE ex_ma' = NoExMa
    BY <2>2 DEF QuietMa, NoExMa
  <2>3. CASE stage = "EX" /\ ex_ma' = ex_stage
    <3>1. CASE stage' # "ID"
      <4>1. UNCHANGED ex_ma \/ ex_ma' = NoExMa
        BY <2>3, <3>1
        DEF Next, vars, Stopped, Runs, WriteBack, MaIdle, MaFlush, MaLoad, MaStore, MaFault,
            MaStall, MaRefused, Accesses, Refused, ExBreakpoint, ExSystemCall, ExDrains, ExStall,
            Execute, ExBubble, ExPasses, Decode, DecodeStall, FollowPrediction, Fetch, FetchStall,
            Break, SystemCall, FetchFaults, AfterFetch
      <4>2. QED
        BY <2>1, <2>2, <4>1
    <3>2. CASE stage' = "ID" /\ CallWaits
      <4>1. PauseDrains \/ TrapDrains
        BY <2>3, <3>2, PassesEx DEF CallWaits, PauseRaised, TrapRaised, TypeOK, IdExLatch, Control
      <4>2. QuietMa(ex_stage)
        BY <2>3, <3>2, <4>1, CallAhead, CallExecutes
      <4>3. QED
        BY <2>3, <4>2 DEF QuietMa
    <3>3. CASE ~CallWaits
      <4>1. ex_stage.ins = id_ex.ins /\ ex_stage.wb = id_ex.cs.wb /\ ex_stage.mem = id_ex.cs.mem
            /\ ex_stage.jump_or_branch = id_ex.cs.jump_or_branch
        BY <3>3 DEF CallWaits, ex_stage
      <4>2. id_ex.ins \notin {"ECALL", "EBREAK"}
        BY <3>3, DecodedCall DEF CallWaits, Blank
      <4>3. QED
        BY <1>2, <2>3, <4>1, <4>2 DEF QuietMa, NoControl
    <3>4. QED
      BY <3>1, <3>2, <3>3
  <2>4. QED
    BY <2>1, <2>2, <2>3, LatchChanges
<1>6. QED
  BY <1>3, <1>4, <1>5 DEF Texts, QuietMa

----------------------------------------------------------------------------
(* The registers, the last writes and the operands. *)

LEMMA RegisterChanges ==
  ASSUME [Next]_vars, status = "running"
  PROVE  WriteBack \/ UNCHANGED <<reg_file, history>>
<1>1. MaIdle \/ MaFlush \/ MaLoad \/ MaStore => UNCHANGED <<reg_file, history>>
  BY DEF MaIdle, MaFlush, MaLoad, MaStore
<1>2. MaFault \/ MaStall \/ MaRefused => UNCHANGED <<reg_file, history>>
  BY DEF MaFault, MaStall, MaRefused
<1>3. ExBreakpoint \/ ExSystemCall \/ ExStall => UNCHANGED <<reg_file, history>>
  BY DEF ExBreakpoint, ExSystemCall, ExStall, ExBubble
<1>4. ExDrains \/ Execute => UNCHANGED <<reg_file, history>>
  BY DEF ExDrains, Execute, ExPasses
<1>5. Decode \/ DecodeStall \/ FollowPrediction => UNCHANGED <<reg_file, history>>
  BY DEF Decode, DecodeStall, FollowPrediction
<1>6. Fetch \/ FetchStall \/ Break => UNCHANGED <<reg_file, history>>
  BY DEF Fetch, FetchStall, Break, AfterFetch
<1>7. SystemCall => UNCHANGED <<reg_file, history>>
  BY DEF SystemCall, AfterFetch
<1>8. FetchFaults => UNCHANGED <<reg_file, history>>
  BY DEF FetchFaults, AfterFetch
<1>9. UNCHANGED vars => UNCHANGED <<reg_file, history>>
  BY DEF vars
<1>10. QED
  BY <1>1, <1>2, <1>3, <1>4, <1>5, <1>6, <1>7, <1>8, <1>9 DEF Next, Stopped

LEMMA HistoryStep ==
  ASSUME TypeOK, History, status = "running", [Next]_vars PROVE History'
<1>1. CASE WriteBack
  <2>1. reg_file \in [Reg -> Word] /\ ma_wb \in MaWbLatch
    BY DEF TypeOK
  <2>2. \A r \in Reg : reg_file'[r] = IF Pending(ma_wb, r) THEN ma_wb.result
                                      ELSE IF r = 0 /\ ma_wb.wb = 1 THEN 0 ELSE reg_file[r]
    BY <1>1, <2>1, WordFacts DEF WriteBack, WriteReg, Pending, MaWbLatch
  <2>3. recent_wb' = wb_if /\ wb_if' = ma_wb
    BY <1>1 DEF WriteBack
  <2>4. QED
    BY <2>2, <2>3 DEF History, Pending
<1>2. CASE UNCHANGED <<reg_file, history>>
  BY <1>2 DEF History, history, Pending
<1>3. QED
  BY <1>1, <1>2, RegisterChanges

LEMMA SettledStep ==
  ASSUME TypeOK, Settled, status = "running", [Next]_vars, status' = "running" PROVE Settled'
<1> USE DEF Runs, NextCycle
<1>1. reg_file'[0] = 0
  BY RegisterChanges, WordFacts DEF WriteBack, WriteReg, Settled, TypeOK, history
<1>2. CASE WriteBack
  BY <1>1, <1>2 DEF WriteBack, Settled
<1>3. CASE MaIdle \/ MaLoad \/ MaStore
  BY <1>1, <1>3 DEF MaIdle, MaLoad, MaStore, MaWb, Settled
<1>4. CASE MaFlush
  BY <1>1, <1>4 DEF MaFlush, Settled, QuietMa, NoExMa
<1>5. CASE UNCHANGED vars
  BY <1>1, <1>5 DEF vars, history, Settled, QuietMa
<1>6. ASSUME stage' \notin {"MA", "EX"} PROVE Settled'
  BY <1>1, <1>6 DEF Settled
<1>7. CASE MaStall \/ MaRefused \/ ExBreakpoint \/ ExSystemCall \/ ExDrains \/ ExStall \/ Execute
  BY <1>6, <1>7
  DEF MaStall, MaRefused, ExBreakpoint, ExSystemCall, ExDrains, ExStall, Execute, ExBubble,
      ExPasses
<1>8. CASE Decode \/ DecodeStall \/ FollowPrediction
  BY <1>6, <1>8 DEF Decode, DecodeStall, FollowPrediction
<1>9. CASE Fetch \/ FetchStall \/ Break \/ SystemCall
  BY <1>6, <1>9 DEF Fetch, FetchStall, Break, SystemCall
<1>10. ~MaFault /\ ~FetchFaults
  BY DEF MaFault, FetchFaults
<1>11. QED
  BY <1>2, <1>3, <1>4, <1>5, <1>7, <1>8, <1>9, <1>10 DEF Next, Stopped

(* The cycle a call enters EX it is the call that makes the flag rise. *)
LEMMA CallEnters ==
  ASSUME TypeOK, DrainInv, status = "running", ExBreakpoint \/ ExSystemCall
  PROVE  CallWaits
<1>1. /\ PAUSE \in Bit /\ TRAP \in Bit /\ pause_counter \in {-1, 0} /\ trap_counter \in {-1, 0}
      /\ id_ex.cs.system \in 0 .. 2
  BY DEF TypeOK, IdExLatch, Control
<1>2. FlagsFollowCalls
  BY DEF DrainInv
<1>3. CASE ExBreakpoint
  BY <1>1, <1>2, <1>3 DEF ExBreakpoint, PauseRaised, FlagsFollowCalls, Bit, CallWaits
<1>4. CASE ExSystemCall
  BY <1>1, <1>2, <1>4
  DEF ExSystemCall, PauseRaised, TrapRaised, FlagsFollowCalls, Draining, Bit, CallWaits
<1>5. QED
  BY <1>3, <1>4

LEMMA OperandsStep ==
  ASSUME Proved, RefInv, status = "running", [Next]_vars, status' = "running" PROVE Operands'
<1> USE DEF Proved, RefInv, Runs, NextCycle
<1>1. reg_file'[0] = 0
  BY SettledStep DEF Settled
<1>2. id_ex \in IdExLatch
  BY DEF TypeOK
<1>3. CASE WriteBack
  <2>1. /\ stage' = "MA" /\ stage = "WB" /\ UNCHANGED id_ex /\ wb_if' = ma_wb
        /\ reg_file' = IF ma_wb.wb = 1 THEN WriteReg(reg_file, ma_wb.nrd, ma_wb.result)
                                       ELSE reg_file
    BY <1>3 DEF WriteBack
  <2>2. reg_file \in [Reg -> Word] /\ ma_wb \in MaWbLatch /\ reg_file[0] = 0
    BY DEF TypeOK, Settled
  <2>3. \A r \in Reg : ~Pending(ma_wb, r) => reg_file'[r] = reg_file[r]
    BY <2>1, <2>2, WordFacts DEF WriteReg, Pending, MaWbLatch
  <2>4. QED
    BY <1>2, <2>1, <2>3 DEF Operands, Operand, IdExLatch, Pending
<1>4. CASE id_ex' = NoIdEx
  BY <1>1, <1>4 DEF Operands, Operand, NoIdEx
<1>5. CASE update_operands /\ UNCHANGED reg_file
  BY <1>2, <1>5 DEF update_operands, Operands, Operand, IdExLatch
<1>6. CASE MaIdle \/ MaLoad \/ MaStore
  BY <1>6 DEF MaIdle, MaLoad, MaStore, Accesses, Operands, Operand, history, Pending
<1>7. CASE ExBreakpoint \/ ExSystemCall
  <2>1. UNCHANGED id_ex
    BY <1>7 DEF ExBreakpoint, ExSystemCall
  <2>2. QED
    BY <1>7, <2>1, CallEnters DEF Operands, CallWaits
<1>8. CASE stage' = "ID"
  BY <1>8 DEF Operands
<1>9. CASE Decode
  BY <1>9 DEF Decode, id_stage, Operands, Operand
<1>10. CASE UNCHANGED vars
  BY <1>10 DEF vars, history, Operands, Operand, Pending
<1>11. CASE UNCHANGED <<id_ex, reg_file>> /\ stage = "IF"
  BY <1>11 DEF Operands, Operand
<1>12. QED
  BY <1>3, <1>4, <1>5, <1>6, <1>7, <1>8, <1>9, <1>10, <1>11
  DEF Next, Stopped, MaFault, MaFlush, MaStall, MaRefused, Refused, Accesses, ExDrains, ExStall,
      Execute, ExBubble, ExPasses, DecodeStall, FollowPrediction, Fetch, FetchStall, Break,
      SystemCall, FetchFaults, AfterFetch

----------------------------------------------------------------------------
(* The ports. *)

LEMMA FetchAtOnce ==
  ASSUME FetchLatency(prog) = {1}, counter.i = -1
  PROVE  /\ ~Fetches("pending")
         /\ TypeOK /\ Fetches("done") => counter'.i = -1
<1>1. Answers(counter.i, FetchLatency(prog)) = {1}
  BY DEF Answers
<1>2. Attempt(counter.i, 1) = [result |-> "done", counter |-> -1]
  BY DEF Attempt
<1>3. QED
  BY <1>1, <1>2 DEF Fetches, TypeOK

LEMMA FetchesAtOnceStep ==
  ASSUME TypeOK, FetchesAtOnce, status = "running", [Next]_vars, status' = "running"
  PROVE  FetchesAtOnce'
<1> SUFFICES ASSUME FetchLatency(prog)' = {1} PROVE counter'.i = -1 /\ mfc_i' = "COMPLETED"
  BY DEF FetchesAtOnce
<1>1. FetchLatency(prog) = {1} /\ counter.i = -1 /\ mfc_i = "COMPLETED"
  BY LatchChanges DEF config, FetchesAtOnce
<1>2. FetchCompletes \/ FetchPending => counter'.i = -1 /\ mfc_i' = "COMPLETED"
  BY <1>1, FetchAtOnce DEF FetchCompletes, FetchPending
<1>3. CancelFetch => counter'.i = -1 /\ mfc_i' = "COMPLETED"
  BY DEF CancelFetch, TypeOK
<1>4. MaLoad \/ MaStore \/ MaStall => counter'.i = counter.i /\ UNCHANGED mfc_i
  BY AccessCounter DEF MaLoad, MaStore, MaStall, iport
<1>5. QED
  BY <1>1, <1>2, <1>3, <1>4
  DEF Next, vars, Stopped, Runs, iport, WriteBack, MaIdle, MaFlush, MaFault, MaRefused, Refused,
      ExBreakpoint, ExSystemCall, ExDrains, ExStall, Execute, ExBubble, ExPasses, Decode,
      DecodeStall, FollowPrediction, Fetch, FetchStall, Break, SystemCall, FetchFaults

(* Only a latency of 0 is refused. *)
LEMMA RefusedAtOnce ==
  ASSUME NEW c \in Int, NEW lat \in Int, c < 0 => lat # 0
  PROVE  Attempt(c, lat).result # "refused"
<1> DEFINE n == IF c < 0 THEN lat - 1 ELSE c
<1>1. n \in Int /\ n # -1
  OBVIOUS
<1>2. CASE n > 0
  BY <1>2 DEF Attempt
<1>3. CASE n = 0
  BY <1>3 DEF Attempt
<1>4. CASE n < -1
  BY <1>4 DEF Attempt
<1>5. QED
  BY <1>1, <1>2, <1>3, <1>4

LEMMA NeverRefused ==
  ASSUME Undisturbed, TypeOK PROVE ~Refused
<1> DEFINE port == IF ex_ma.mem = "read" THEN "r" ELSE "w"
<1> SUFFICES ASSUME NEW lat \in Answers(counter[port], DataLatency(prog)),
                    Attempt(counter[port], lat).result = "refused"
             PROVE  FALSE
  BY DEF Refused
<1>1. prog \in Programs /\ counter[port] \in Int
  BY DEF TypeOK
<1>2. DataLatency(prog) \subseteq Int \ {0}
  BY <1>1, LatencyAssumption DEF Undisturbed
<1>3. lat \in Int /\ (counter[port] < 0 => lat # 0)
  BY <1>2 DEF Answers
<1>4. QED
  BY <1>1, <1>3, RefusedAtOnce

----------------------------------------------------------------------------
(* The path of the program through the latches.  Each action moves the     *)
(* instructions without changing which one comes next.                     *)

LEMMA NothingPredicted ==
  ASSUME if_id = NoIfId PROVE ~PredictsTaken /\ id_stage.ins = Blank
  BY DEF PredictsTaken, id_stage, decode, NoIfId, NoInstr

(* A redirection waits for the branch whose prediction it is. *)
LEMMA BranchAhead ==
  ASSUME TypeOK, Texts, RedirectPending, change_pc = 1
  PROVE  IF stage = "ID" THEN ExMaHolds
         ELSE id_ex.ins # Blank /\ id_ex.cs.jump_or_branch = 2
  BY DEF Texts, RedirectPending, QuietMa, ExMaHolds, NoControl

LEMMA OperandsKeepPath ==
  ASSUME TypeOK, UNCHANGED id_ex \/ update_operands
  PROVE  /\ id_ex'.ins = id_ex.ins /\ id_ex'.PC = id_ex.PC /\ id_ex'.PC_next = id_ex.PC_next
         /\ id_ex'.cs = id_ex.cs /\ id_ex'.imm = id_ex.imm /\ Guess' = Guess
  BY DEF update_operands, TypeOK, IdExLatch, Guess

(* Before ID, what is in the latches behind EX/MA stays. *)
LEMMA PathStays ==
  ASSUME TypeOK, stage \in {"WB", "MA", "EX"}, stage' \in {"WB", "MA", "EX"},
         UNCHANGED <<pc, if_id, decoder>>, UNCHANGED id_ex \/ update_operands
  PROVE  NextPC' = NextPC /\ Behind' = Behind /\ IdExHolds' = IdExHolds /\ IfIdHolds' = IfIdHolds
  BY OperandsKeepPath DEF NextPC, Behind, IdExHolds, IfIdHolds, decoder

LEMMA MemoryPath ==
  ASSUME TypeOK, WriteBack \/ MaIdle \/ MaLoad \/ MaStore \/ MaFault \/ MaStall
  PROVE  /\ stage \in {"WB", "MA"} /\ stage' \in {"WB", "MA", "EX"}
         /\ UNCHANGED <<pc, if_id, ex_ma>>
         /\ UNCHANGED id_ex \/ update_operands
         /\ NextPC' = NextPC /\ Behind' = Behind
         /\ IdExHolds' = IdExHolds /\ IfIdHolds' = IfIdHolds
<1>1. /\ UNCHANGED <<pc, if_id, ex_ma, decoder>>
      /\ stage \in {"WB", "MA"} /\ stage' \in {"WB", "MA", "EX"}
      /\ UNCHANGED id_ex \/ update_operands
  BY DEF WriteBack, MaIdle, MaLoad, MaStore, MaFault, MaStall, Accesses, Runs, NextCycle
<1>2. QED
  BY <1>1, PathStays

LEMMA FlushPath ==
  ASSUME MaFlush
  PROVE  /\ ~IdExHolds' /\ ~IfIdHolds' /\ ~ExMaHolds'
         /\ NextPC' = pc' /\ Behind' = pc'
  BY DEF MaFlush, reset_decode_flags, NextPC, Behind, IdExHolds, IfIdHolds, ExMaHolds, NoIdEx,
         NoIfId, NoExMa

LEMMA BubblePath ==
  ASSUME TypeOK, ExBreakpoint \/ ExSystemCall \/ ExStall
  PROVE  /\ stage = "EX" /\ stage' = "WB"
         /\ UNCHANGED <<pc, if_id>> /\ ex_ma' = NoExMa
         /\ UNCHANGED id_ex \/ update_operands
         /\ NextPC' = NextPC /\ Behind' = Behind
         /\ IdExHolds' = IdExHolds /\ IfIdHolds' = IfIdHolds
<1>1. /\ UNCHANGED <<pc, if_id, decoder>> /\ ex_ma' = NoExMa
      /\ stage = "EX" /\ stage' = "WB"
      /\ UNCHANGED id_ex \/ update_operands
  BY DEF ExBreakpoint, ExSystemCall, ExStall, ExBubble, Runs, NextCycle
<1>2. QED
  BY <1>1, PathStays

LEMMA ExecutePath ==
  ASSUME ExDrains \/ Execute
  PROVE  /\ stage = "EX" /\ stage' = "ID" /\ UNCHANGED <<pc, if_id, id_ex>> /\ ex_ma' = ex_stage
         /\ NextPC' = NextPC /\ ~IdExHolds' /\ Behind' = NextPC /\ IfIdHolds' = IfIdHolds
<1>1. /\ stage = "EX" /\ stage' = "ID"
      /\ UNCHANGED <<pc, if_id, id_ex, decoder>> /\ ex_ma' = ex_stage
  BY DEF ExDrains, Execute, ExPasses, Runs
<1>2. QED
  BY <1>1 DEF NextPC, Behind, IdExHolds, IfIdHolds, decoder

LEMMA DecodePath ==
  ASSUME TypeOK, Texts, Path, Decode \/ DecodeStall \/ FollowPrediction
  PROVE  /\ stage = "ID" /\ UNCHANGED ex_ma /\ stage' \in {"IF", "WB"}
         /\ Behind' = Behind
         /\ IdExHolds' => NextPC' = Guess'
         /\ IfIdHolds' => pc' = if_id'.PC_next
<1> USE DEF Runs, NextCycle
<1>1. CASE Decode
  <2>1. /\ change_pc = 0 /\ stage = "ID" /\ stage' = "IF" /\ id_ex' = id_stage
        /\ change_pc' = IF PredictsTaken THEN 1 ELSE 0
        /\ PredictsTaken => jump_pc' = Plus(if_id.PC, if_id.IR.imm)
        /\ UNCHANGED <<pc, if_id, ex_ma>>
    BY <1>1 DEF Decode
  <2>2. /\ id_ex'.ins = if_id.ins /\ id_ex'.PC = if_id.PC /\ id_ex'.imm = if_id.IR.imm
        /\ id_ex'.PC_next = if_id.PC_next /\ id_ex'.cs = id_stage.cs
    BY <2>1 DEF id_stage
  <2>3. CASE if_id.ins = Blank
    <3>1. change_pc' = 0
      BY <2>1, <2>3, NothingPredicted DEF Texts
    <3>2. QED
      BY <2>1, <2>2, <2>3, <3>1 DEF Behind, NextPC, IdExHolds, IfIdHolds
  <2>4. CASE if_id.ins # Blank
    <3>1. pc = if_id.PC_next
      BY <2>1, <2>4 DEF Path, IfIdHolds
    <3>2. Behind = if_id.PC /\ Behind' = if_id.PC
      BY <2>1, <2>2, <2>4 DEF Behind, NextPC, IdExHolds, IfIdHolds
    <3>3. NextPC' = Guess'
      BY <2>1, <2>2, <3>1 DEF NextPC, IfIdHolds, Guess, PredictsTaken
    <3>4. QED
      BY <2>1, <3>2, <3>3 DEF IfIdHolds
  <2>5. QED
    BY <2>3, <2>4
<1>2. CASE DecodeStall
  BY <1>2 DEF DecodeStall, decoder, Path, Behind, NextPC, IdExHolds, IfIdHolds, NoIdEx
<1>3. CASE FollowPrediction
  BY <1>3 DEF FollowPrediction, Behind, NextPC, IdExHolds, IfIdHolds, NoIdEx, NoIfId
<1>4. QED
  BY <1>1, <1>2, <1>3

LEMMA FetchPath ==
  ASSUME TypeOK, FetchedWord, Fetch \/ FetchStall \/ Break \/ SystemCall
  PROVE  /\ stage = "IF" /\ stage' = "WB" /\ UNCHANGED <<id_ex, ex_ma>>
         /\ NextPC' = NextPC /\ Behind' = Behind /\ IdExHolds' = IdExHolds
         /\ IfIdHolds' => pc' = if_id'.PC_next
<1>1. /\ stage = "IF" /\ stage' = "WB" /\ UNCHANGED <<id_ex, ex_ma, decoder>>
      /\ FetchCompletes \/ FetchPending
  BY DEF Fetch, FetchStall, Break, SystemCall, AfterFetch, Runs, NextCycle
<1>2. CASE FetchCompletes
  BY <1>1, <1>2, FetchedText DEF decoder, NextPC, Behind, IdExHolds, IfIdHolds
<1>3. CASE FetchPending
  BY <1>1, <1>3 DEF FetchPending, NoIfId, decoder, NextPC, Behind, IdExHolds, IfIdHolds
<1>4. QED
  BY <1>1, <1>2, <1>3

(* What EX makes of an instruction that is no call. *)
LEMMA Executed ==
  ASSUME id_ex.cs.system = 0
  PROVE  /\ ex_stage.ins = id_ex.ins /\ ex_stage.nrd = id_ex.nrd /\ ex_stage.wb = id_ex.cs.wb
         /\ ex_stage.mem = id_ex.cs.mem /\ ex_stage.jump_or_branch = id_ex.cs.jump_or_branch
         /\ ex_stage.predicted = id_ex.cs.predicted /\ ex_stage.nrs2 = id_ex.nrs2
         /\ ex_stage.R2 = StoreData.value
         /\ ex_stage.result = alu(Operand1.value, Operand2.value)
         /\ ex_stage.PC_next = TargetPC(Operand1.value, Operand2.value)
         /\ ex_stage.actual = BranchTaken(Operand1.value, Operand2.value)
  BY DEF ex_stage

(* What goes on after a jump or branch is where EX/MA says it does. *)
LEMMA ExecutedGuess ==
  ASSUME TypeOK, FetchedWord, Texts, id_ex.ins # Blank, id_ex.cs.system = 0, ex_ma' = ex_stage,
         ex_stage.jump_or_branch # 1
  PROVE  GuessMa' = Guess
<1> DEFINE ir == TextWord(prog, id_ex.PC)
<1>1. id_ex.cs = decode(ir) /\ ir \in Instr
  BY DecodedCall
<1>2. /\ id_ex.cs.jump_or_branch # 1
      /\ GuessMa' = IF id_ex.cs.jump_or_branch = 2 /\ id_ex.cs.predicted = 0
                    THEN ex_stage.result ELSE ex_stage.PC_next
  BY Executed DEF GuessMa
<1>3. CASE id_ex.cs.jump_or_branch = 2
  <2>1. id_ex.cs.alu \in {"beq", "bne"} /\ id_ex.cs.predicted \in {0, 1}
    BY <1>1, <1>3, DecodeType DEF decode, Control, Bit
  <2>2. ex_stage.result = id_ex.PC_next /\ ex_stage.PC_next = Plus(id_ex.PC, id_ex.imm)
    BY <2>1, Executed DEF alu, TargetPC
  <2>3. QED
    BY <1>2, <1>3, <2>1, <2>2 DEF Guess
<1>4. CASE id_ex.cs.jump_or_branch # 2
  <2>1. id_ex.cs.alu \in {"add", "lui"}
    BY <1>1, <1>2, <1>4 DEF decode
  <2>2. ex_stage.PC_next = id_ex.PC_next
    BY <2>1, Executed DEF TargetPC
  <2>3. QED
    BY <1>2, <1>4, <2>2 DEF Guess
<1>5. QED
  BY <1>3, <1>4

LEMMA PathStep ==
  ASSUME Undisturbed, Proved, RefInv, status = "running", Next, status' = "running"
  PROVE  Path'
<1> USE DEF Proved, RefInv
<1>1. CASE WriteBack \/ MaIdle \/ MaLoad \/ MaStore \/ MaFault \/ MaStall
  <2>1. ExMaHolds' => ExMaHolds /\ GuessMa' = GuessMa
    BY <1>1, MemoryPath DEF ExMaHolds, GuessMa
  <2>2. Guess' = Guess
    BY <1>1, MemoryPath, OperandsKeepPath
  <2>3. QED
    BY <1>1, <2>1, <2>2, MemoryPath DEF Path
<1>2. CASE MaFlush
  BY <1>2, FlushPath DEF Path
<1>3. CASE ExBreakpoint \/ ExSystemCall \/ ExStall
  <2>1. ~ExMaHolds'
    BY <1>3, BubblePath DEF ExMaHolds, NoExMa
  <2>2. Guess' = Guess
    BY <1>3, BubblePath, OperandsKeepPath
  <2>3. QED
    BY <1>3, <2>1, <2>2, BubblePath DEF Path
<1>4. CASE ExDrains \/ Execute
  <2>1. ASSUME ExMaHolds', ex_ma'.jump_or_branch # 1 PROVE Behind' = GuessMa'
    <3>1. /\ stage = "EX" /\ ex_ma' = ex_stage /\ Behind' = NextPC
          /\ ex_stage.ins = id_ex.ins
      BY <1>4, ExecutePath DEF ex_stage, TypeOK, ExMaLatch
    <3>2. id_ex.ins \notin {Blank, "ECALL", "EBREAK"}
      BY <2>1, <3>1 DEF ExMaHolds
    <3>3. id_ex.cs.system = 0
      BY <3>2, DecodedCall
    <3>4. NextPC = Guess
      BY <3>1, <3>2 DEF Path, IdExHolds
    <3>5. QED
      BY <2>1, <3>1, <3>2, <3>3, <3>4, ExecutedGuess
  <2>2. QED
    BY <1>4, <2>1, ExecutePath DEF Path
<1>5. CASE Decode \/ DecodeStall \/ FollowPrediction
  <2>1. ExMaHolds' => ExMaHolds /\ GuessMa' = GuessMa
    BY <1>5, DecodePath DEF ExMaHolds, GuessMa
  <2>2. QED
    BY <1>5, <2>1, DecodePath DEF Path
<1>6. CASE Fetch \/ FetchStall \/ Break \/ SystemCall
  <2>1. (ExMaHolds' => ExMaHolds) /\ GuessMa' = GuessMa /\ Guess' = Guess
    BY <1>6, FetchPath DEF ExMaHolds, GuessMa, Guess
  <2>2. QED
    BY <1>6, <2>1, FetchPath DEF Path
<1>7. ~MaRefused /\ ~FetchFaults
  BY NeverRefused DEF MaRefused, FetchFaults
<1>8. QED
  BY <1>1, <1>2, <1>3, <1>4, <1>5, <1>6, <1>7 DEF Next, Stopped

----------------------------------------------------------------------------
(* What EX/MA has computed. *)

LEMMA AbsRegsKept ==
  ASSUME TypeOK, History, Settled, status = "running", status' # "halted",
         \/ WriteBack \/ MaStall \/ UNCHANGED <<reg_file, ma_wb>>
  PROVE  AbsRegs' = AbsRegs
<1>1. CASE WriteBack
  <2>1. /\ reg_file \in [Reg -> Word] /\ ma_wb \in MaWbLatch /\ UNCHANGED ma_wb
        /\ reg_file' = IF ma_wb.wb = 1 THEN WriteReg(reg_file, ma_wb.nrd, ma_wb.result)
                                       ELSE reg_file
    BY <1>1 DEF WriteBack, TypeOK
  <2>2. QED
    BY <2>1, WriteTwice DEF AbsRegs, MaWbLatch
<1>2. CASE MaStall
  <2>1. UNCHANGED reg_file /\ ma_wb' = NoMaWb /\ stage = "MA"
    BY <1>2 DEF MaStall, Accesses, Runs
  <2>2. QED
    BY <2>1, AbsRegsInMA DEF AbsRegs, NoMaWb
<1>3. CASE UNCHANGED <<reg_file, ma_wb>>
  BY <1>3 DEF AbsRegs
<1>4. QED
  BY <1>1, <1>2, <1>3

(* ExMaPC is where the instruction that passes EX was fetched. *)
LEMMA ExecutedPC ==
  ASSUME TypeOK, FetchedWord, Texts, id_ex.ins # Blank, id_ex.cs.system = 0, ex_ma' = ex_stage
  PROVE  ExMaPC' = id_ex.PC
<1> DEFINE ir == TextWord(prog, id_ex.PC)
<1>1. id_ex.cs = decode(ir) /\ ir \in Instr
  BY DecodedCall
<1>2. id_ex.PC_next = Plus(id_ex.PC, 4) /\ id_ex.PC \in Word
  BY DEF Texts, TypeOK, IdExLatch
<1>3. (IF ex_ma'.jump_or_branch # 0 THEN ex_ma'.result ELSE ex_ma'.PC_next) = id_ex.PC_next
  <2>1. CASE id_ex.cs.jump_or_branch # 0
    BY <1>1, <2>1, Executed DEF decode, alu
  <2>2. CASE id_ex.cs.jump_or_branch = 0
    BY <1>1, <2>2, Executed DEF decode, TargetPC
  <2>3. QED
    BY <2>1, <2>2
<1>4. QED
  BY <1>2, <1>3, PlusFour DEF ExMaPC

LEMMA ExecutedComputes ==
  ASSUME Proved, RefInv, status = "running", stage = "EX", StallRaised = 0,
         id_ex.ins # Blank, id_ex.cs.system = 0
  PROVE  Computes(TextWord(prog, id_ex.PC), id_ex.PC, ex_stage)
<1> USE DEF Proved, RefInv
<1> DEFINE ir == TextWord(prog, id_ex.PC)
           a == Operand1.value
           b == Operand2.value
<1>1. id_ex.cs = decode(ir) /\ ir \in Instr
  BY DecodedCall
<1>2. /\ id_ex.ins = ir.op /\ id_ex.PC_next = Plus(id_ex.PC, 4) /\ ~FetchFault(id_ex.PC)
      /\ id_ex.imm = ir.imm /\ id_ex.nrd = ir.rd /\ id_ex.nrs1 = ir.rs1 /\ id_ex.nrs2 = ir.rs2
  BY DEF Texts, FetchedWord
<1>3. /\ Operand(id_ex.R1, ir.rs1) /\ Operand(id_ex.R2, ir.rs2)
      /\ ir.rs1 \in Reg /\ ir.rs2 \in Reg
  BY <1>1, <1>2 DEF Operands, Instr
<1>4. Operand1.stall # 1 /\ Operand2.stall # 1 /\ StoreData.stall # 1
  BY DEF StallRaised
<1>5. \A v, r : forward_ex(v, r).stall \in {0, 1}
  BY DEF forward_ex
<1>6. /\ forward_ex(id_ex.R1, ir.rs1).stall = 0
           => forward_ex(id_ex.R1, ir.rs1).value = AbsRegs[ir.rs1]
      /\ forward_ex(id_ex.R2, ir.rs2).stall = 0
           => forward_ex(id_ex.R2, ir.rs2).value = AbsRegs[ir.rs2]
  BY <1>3, ForwardedValue
<1>7. id_ex.cs.source1 = "rs1" => a = AbsRegs[ir.rs1]
  BY <1>2, <1>4, <1>5, <1>6 DEF Operand1
<1>8. id_ex.cs.source2 = "rs2" => b = AbsRegs[ir.rs2]
  BY <1>2, <1>4, <1>5, <1>6 DEF Operand2
<1>9. id_ex.cs.source2 # "rs2" => b = ir.imm
  BY <1>2 DEF Operand2
<1>10. id_ex.cs.source1 # "rs1" => a = id_ex.PC
  BY DEF Operand1
<1>11. id_ex.cs.mem = "write" => StoreData.value = AbsRegs[ir.rs2]
  BY <1>2, <1>4, <1>5, <1>6 DEF StoreData
<1> HIDE DEF a, b
<1>12. Carries(ir, ex_stage)
  <2>1. ir.op = "SW" => ex_stage.R2 = AbsRegs[ir.rs2] /\ ex_stage.nrs2 = ir.rs2
    BY <1>1, <1>2, <1>11, Executed DEF decode
  <2>2. ir.op \in {"BEQ", "BNE"} => a = AbsRegs[ir.rs1] /\ b = AbsRegs[ir.rs2]
    BY <1>1, <1>7, <1>8 DEF decode
  <2>3. ex_stage.actual = BranchTaken(a, b)
    BY Executed DEF a, b
  <2>4. ir.op \in {"BEQ", "BNE"} =>
          (ex_stage.actual = 1 <=> (ir.op = "BEQ" <=> AbsRegs[ir.rs1] = AbsRegs[ir.rs2]))
    BY <1>1, <2>2, <2>3 DEF BranchTaken, decode
  <2>5. QED
    BY <1>1, <1>2, <2>1, <2>4, Executed DEF Carries
<1>13. ResultOf(ir, id_ex.PC, ex_stage)
  <2>1. ex_stage.result = alu(a, b)
    BY Executed DEF a, b
  <2>2. QED
    BY <1>1, <1>2, <1>7, <1>8, <1>9, <2>1 DEF ResultOf, decode, alu
<1>14. TargetOf(ir, id_ex.PC, ex_stage)
  <2>1. ex_stage.PC_next = TargetPC(a, b)
    BY Executed DEF a, b
  <2>2. QED
    BY <1>1, <1>2, <1>7, <1>9, <1>10, <2>1 DEF TargetOf, decode, TargetPC
<1>15. QED
  BY <1>2, <1>12, <1>13, <1>14 DEF Computes

LEMMA ComputedStays ==
  ASSUME Computed, UNCHANGED <<prog, ex_ma>>, ExMaHolds' => ExMaHolds, AbsRegs' = AbsRegs
  PROVE  Computed'
<1>1. ExMaPC' = ExMaPC
  BY DEF ExMaPC
<1>2. QED
  BY <1>1 DEF Computed, Computes, Carries, ResultOf, TargetOf, decode

LEMMA ComputedStep ==
  ASSUME Undisturbed, Proved, RefInv, status = "running", Next, status' = "running"
  PROVE  Computed'
<1> USE DEF Proved, RefInv
<1>1. UNCHANGED config /\ prog' = prog
  BY LatchChanges DEF config
<1>2. CASE WriteBack \/ MaStall
  <2>1. AbsRegs' = AbsRegs
    BY <1>2, AbsRegsKept
  <2>2. UNCHANGED ex_ma /\ (ExMaHolds' => ExMaHolds)
    BY <1>2, MemoryPath DEF ExMaHolds
  <2>3. QED
    BY <1>1, <2>1, <2>2, ComputedStays
<1>3. CASE MaIdle \/ MaLoad \/ MaStore \/ MaFlush
  <2>1. ~ExMaHolds'
    BY <1>3 DEF MaIdle, MaLoad, MaStore, MaFlush, ExMaHolds
  <2>2. QED
    BY <2>1 DEF Computed
<1>4. CASE ExBreakpoint \/ ExSystemCall \/ ExStall
  <2>1. ~ExMaHolds'
    BY <1>4, BubblePath DEF ExMaHolds, NoExMa
  <2>2. QED
    BY <2>1 DEF Computed
<1>5. CASE ExDrains \/ Execute
  <2> SUFFICES ASSUME ExMaHolds' PROVE Computes(TextWord(prog, ExMaPC), ExMaPC, ex_ma)'
    BY DEF Computed
  <2>1. /\ stage = "EX" /\ ex_ma' = ex_stage /\ ex_stage.ins = id_ex.ins
    BY <1>5, ExecutePath DEF ex_stage, TypeOK, ExMaLatch
  <2>2. id_ex.ins \notin {Blank, "ECALL", "EBREAK"}
    BY <2>1 DEF ExMaHolds
  <2>3. id_ex.cs.system = 0
    BY <2>2, DecodedCall
  <2>4. StallRaised = 0
    <3>1. CASE Execute
      BY <3>1 DEF Execute
    <3>2. CASE ExDrains
      <4>1. Draining
        BY <3>2 DEF ExDrains, PauseDrains, TrapDrains, Draining
      <4>2. Quiet(id_ex) \/ (QuietMa(ex_ma) /\ ma_wb.wb = 0)
        BY <2>1, <4>1 DEF DrainInv, SpacedOut
      <4>3. QED
        BY <4>2, NoStall DEF DrainInv
    <3>3. QED
      BY <1>5, <3>1, <3>2
  <2>5. Computes(TextWord(prog, id_ex.PC), id_ex.PC, ex_stage)
    BY <2>1, <2>2, <2>3, <2>4, ExecutedComputes
  <2>6. ExMaPC' = id_ex.PC
    BY <2>1, <2>2, <2>3, ExecutedPC
  <2>7. AbsRegs' = AbsRegs
    BY <1>5, AbsRegsKept DEF ExDrains, Execute, ExPasses
  <2> HIDE DEF Proved, RefInv
  <2>8. QED
    BY <1>1, <2>1, <2>5, <2>6, <2>7 DEF Computes, Carries, ResultOf, TargetOf, decode
<1>6. CASE Decode \/ DecodeStall \/ FollowPrediction
  <2>1. AbsRegs' = AbsRegs
    BY <1>6, AbsRegsKept DEF Decode, DecodeStall, FollowPrediction
  <2>2. UNCHANGED ex_ma /\ (ExMaHolds' => ExMaHolds)
    BY <1>6, DecodePath DEF ExMaHolds
  <2>3. QED
    BY <1>1, <2>1, <2>2, ComputedStays
<1>7. CASE Fetch \/ FetchStall \/ Break \/ SystemCall
  <2>1. AbsRegs' = AbsRegs
    BY <1>7, AbsRegsKept DEF Fetch, FetchStall, Break, SystemCall, AfterFetch
  <2>2. UNCHANGED ex_ma /\ (ExMaHolds' => ExMaHolds)
    BY <1>7, FetchPath DEF ExMaHolds
  <2>3. QED
    BY <1>1, <2>1, <2>2, ComputedStays
<1>8. ~MaRefused /\ ~FetchFaults /\ ~MaFault
  BY NeverRefused DEF MaRefused, FetchFaults, MaFault
<1>9. QED
  BY <1>2, <1>3, <1>4, <1>5, <1>6, <1>7, <1>8 DEF Next, Stopped

----------------------------------------------------------------------------
(* What a waiting call finds. *)

(* An instruction that is idle, or none, leaves ID as an idle one. *)
LEMMA IdleDecodes ==
  ASSUME if_id.ins # Blank => Idle(if_id.IR), if_id.ins = Blank => if_id = NoIfId
  PROVE  IdleId(id_stage)
<1>1. id_stage.cs = decode(if_id.IR) /\ id_stage.nrd = if_id.IR.rd
  BY DEF id_stage
<1>2. if_id.ins = Blank => if_id.IR.op = "NONE"
  BY DEF NoIfId, NoInstr
<1>3. QED
  BY <1>1, <1>2 DEF IdleId, Idle, decode

LEMMA BubblesAreIdle ==
  IdleId(NoIdEx) /\ IdleMa(NoExMa) /\ (NoMaWb.wb = 1 => NoMaWb.nrd = 0)
  BY DEF IdleId, IdleMa, NoIdEx, NoExMa, NoMaWb, NoControl

LEMMA IdleExecutes ==
  ASSUME IdleId(id_ex) PROVE IdleMa(ex_stage)
  BY DEF IdleId, IdleMa, ex_stage

(* What follows a padded call is idle. *)
LEMMA PadFollows ==
  ASSUME Proved, RefInv, status = "running", stage = "EX", CallWaits, change_pc = 0,
         CallsPadded(prog), if_id.ins # Blank
  PROVE  Idle(if_id.IR)
<1> USE DEF Proved, RefInv
<1>1. id_ex.ins # Blank
  BY DEF CallWaits, Texts, NoControl
<1>2. id_ex.ins \in {"ECALL", "EBREAK"} /\ id_ex.cs = decode(TextWord(prog, id_ex.PC))
  BY <1>1, DecodedCall DEF CallWaits
<1>3. /\ TextWord(prog, id_ex.PC).op \in {"ECALL", "EBREAK"} /\ ~FetchFault(id_ex.PC)
      /\ id_ex.PC_next = Plus(id_ex.PC, 4)
  BY <1>1, <1>2 DEF Texts
<1>4. id_ex.PC \in 0 .. TextLimit /\ id_ex.PC % 4 = 0
  BY <1>3, WordsAssumption DEF FetchFault, TypeOK, IdExLatch, Word
<1>5. if_id.PC = id_ex.PC_next
  <2>1. NextPC = Guess
    BY <1>1 DEF Path, IdExHolds
  <2>2. Guess = id_ex.PC_next
    BY <1>2, <1>3 DEF Guess, decode
  <2>3. NextPC = if_id.PC
    BY DEF NextPC, IfIdHolds
  <2>4. QED
    BY <2>1, <2>2, <2>3
<1>6. if_id.IR = TextWord(prog, if_id.PC)
  BY DEF FetchedWord
<1>7. QED
  BY <1>3, <1>4, <1>5, <1>6 DEF CallsPadded

LEMMA WaitsStep ==
  ASSUME Undisturbed, Proved, RefInv, status = "running", Next, status' = "running"
  PROVE  Waits'
<1> USE DEF Proved, RefInv, Runs, NextCycle
<1>1. UNCHANGED config /\ CallsPadded(prog)' = CallsPadded(prog)
  BY LatchChanges DEF config, CallsPadded
<1>2. /\ PAUSE \in Bit /\ TRAP \in Bit /\ id_ex.cs.system \in 0 .. 2 /\ change_pc \in Bit
  BY DEF TypeOK, IdExLatch, Control
<1>3. CASE WriteBack
  BY <1>1, <1>3 DEF WriteBack, syscall, decoder, Waiting, Waits, IdleMa, IdleId
<1>4. CASE MaIdle
  BY <1>1, <1>4 DEF MaIdle, MaWb, syscall, decoder, Waiting, Waits, IdleMa, IdleId
<1>5. CASE MaFlush \/ MaLoad \/ MaStore \/ MaStall
  <2>1. ~IdleMa(ex_ma) /\ UNCHANGED syscall
    BY <1>5 DEF MaFlush, MaLoad, MaStore, MaStall, Accesses, Redirects, Mispredicted, IdleMa
  <2>2. QED
    BY <2>1 DEF Waits, Waiting, syscall
<1>6. CASE ExBreakpoint \/ ExSystemCall
  <2>1. CallWaits
    BY <1>6, CallEnters
  <2>2. ~Waiting
    BY <1>6, <2>1 DEF ExBreakpoint, ExSystemCall, Waits, IdleId, CallWaits
  <2>3. ~Waiting'
    BY <1>2, <1>6, <2>2 DEF ExBreakpoint, ExSystemCall, PauseRaised, TrapRaised, Waiting, Bit
  <2>4. QED
    BY <2>3 DEF Waits
<1>7. CASE ExStall \/ Execute
  <2>1. PauseRaised = 0 /\ TrapRaised = 0
    BY <1>7 DEF ExStall, Execute
  <2>2. ~Waiting'
    BY <1>2, <1>7, <2>1
    DEF ExStall, Execute, ExPasses, PauseRaised, TrapRaised, syscall, Waiting, Bit
  <2>3. QED
    BY <2>2 DEF Waits
<1>8. CASE ExDrains
  <2>1. /\ stage = "EX" /\ stage' = "ID" /\ ex_ma' = ex_stage
        /\ UNCHANGED <<if_id, id_ex, ma_wb, decoder>>
    BY <1>8 DEF ExDrains, ExPasses
  <2>2. CASE Waiting
    <3>1. /\ (ma_wb.wb = 1 => ma_wb.nrd = 0) /\ IdleId(id_ex) /\ change_pc = 0
          /\ CallsPadded(prog) /\ if_id.ins # Blank => Idle(if_id.IR)
      BY <2>1, <2>2 DEF Waits
    <3>2. QED
      BY <1>1, <2>1, <3>1, IdleExecutes DEF Waits, decoder, IdleMa
  <2>3. CASE ~Waiting
    <3>1. CallWaits
      BY <1>2, <1>8, <2>3
      DEF ExDrains, PauseDrains, TrapDrains, PauseRaised, TrapRaised, Waiting, CallWaits, Bit
    <3>2. QuietMa(ex_ma) /\ ma_wb.wb = 0
      BY <1>8, <2>1, <3>1, CallAhead DEF ExDrains
    <3>3. QuietMa(ex_stage)
      BY <3>1, <3>2, CallExecutes
    <3>4. change_pc = 0
      <4>1. id_ex.ins # Blank
        BY <3>1 DEF CallWaits, Texts, NoControl
      <4>2. id_ex.cs.jump_or_branch = 0
        BY <3>1, <4>1, DecodedCall DEF CallWaits, decode
      <4>3. QED
        BY <1>2, <2>1, <4>2 DEF RedirectPending, Bit
    <3>5. CallsPadded(prog) /\ if_id.ins # Blank => Idle(if_id.IR)
      BY <2>1, <3>1, <3>4, PadFollows
    <3>6. QED
      BY <1>1, <2>1, <3>2, <3>3, <3>4, <3>5 DEF Waits, decoder, IdleMa, QuietMa
  <2>4. QED
    BY <2>2, <2>3
<1>9. CASE Decode \/ DecodeStall
  <2>1. /\ stage = "ID" /\ UNCHANGED <<syscall, if_id, ex_ma, ma_wb>>
        /\ \/ stage' = "IF" /\ id_ex' = id_stage
           \/ stage' = "WB" /\ id_ex' = NoIdEx /\ change_pc' = 0
    BY <1>9 DEF Decode, DecodeStall, decoder
  <2> SUFFICES ASSUME Waiting' PROVE Waits'
    BY DEF Waits
  <2>2. Waiting
    BY <2>1 DEF Waiting, syscall
  <2>3. /\ (ma_wb.wb = 1 => ma_wb.nrd = 0) /\ IdleMa(ex_ma)
        /\ CallsPadded(prog) /\ if_id.ins # Blank => Idle(if_id.IR)
    BY <2>1, <2>2 DEF Waits
  <2>4. CallsPadded(prog) => IdleId(id_stage)
    BY <2>3, IdleDecodes DEF Texts
  <2>5. QED
    BY <1>1, <2>1, <2>3, <2>4, BubblesAreIdle DEF Waits, IdleMa, IdleId
<1>10. CASE FollowPrediction
  <2>1. ~Waiting /\ UNCHANGED syscall
    BY <1>10 DEF FollowPrediction, Waits
  <2>2. QED
    BY <2>1 DEF Waits, Waiting, syscall
<1>11. CASE Fetch \/ Break \/ SystemCall
  <2>1. ~Waiting'
    BY <1>11 DEF Fetch, Break, SystemCall, syscall, Waiting
  <2>2. QED
    BY <2>1 DEF Waits
<1>12. CASE FetchStall
  <2>1. /\ stage = "IF" /\ stage' = "WB" /\ if_id' = NoIfId
        /\ UNCHANGED <<syscall, ex_ma, ma_wb, id_ex, decoder>>
    BY <1>12 DEF FetchStall, FetchPending, AfterFetch
  <2> SUFFICES ASSUME Waiting' PROVE Waits'
    BY DEF Waits
  <2>2. Waiting
    BY <2>1 DEF Waiting, syscall
  <2>3. CallsPadded(prog)
    <3>1. FetchLatency(prog) # {1}
      BY <1>12, FetchAtOnce DEF FetchStall, FetchPending, FetchesAtOnce
    <3>2. QED
      BY <3>1 DEF Undisturbed, TypeOK
  <2>4. (ma_wb.wb = 1 => ma_wb.nrd = 0) /\ IdleMa(ex_ma) /\ IdleId(id_ex)
    BY <2>1, <2>2, <2>3 DEF Waits
  <2>5. change_pc = 0
    BY <1>2, <2>1, <2>4 DEF RedirectPending, IdleId, Bit
  <2>6. QED
    BY <2>1, <2>4, <2>5 DEF Waits, decoder, IdleMa, IdleId, NoIfId
<1>13. ~MaRefused /\ ~FetchFaults /\ ~MaFault
  BY NeverRefused DEF MaRefused, FetchFaults, MaFault
<1>14. QED
  BY <1>3, <1>4, <1>5, <1>6, <1>7, <1>8, <1>9, <1>10, <1>11, <1>12, <1>13 DEF Next, Stopped

LEMMA RunningStep ==
  ASSUME Undisturbed, Proved, Running, [Next]_vars PROVE Running'
<1> SUFFICES ASSUME status' = "running" PROVE RefInv'
  BY DEF Running
<1>1. status = "running" /\ RefInv
  BY Alive DEF Running
<1>2. CASE UNCHANGED vars
  <2> USE DEF vars, config, history, decoder, iport, syscall
  <2>1. Texts' = Texts /\ Waits' = Waits /\ FetchesAtOnce' = FetchesAtOnce
    BY <1>2 DEF Texts, Waits, Waiting, FetchesAtOnce, QuietMa, IdleMa, IdleId, CallsPadded
  <2>2. IfIdHolds' = IfIdHolds /\ IdExHolds' = IdExHolds /\ ExMaHolds' = ExMaHolds
    BY <1>2 DEF IfIdHolds, IdExHolds, ExMaHolds
  <2>3. Path' = Path
    BY <1>2, <2>2 DEF Path, NextPC, Behind, Guess, GuessMa
  <2>4. History' = History /\ Settled' = Settled /\ Operands' = Operands
    BY <1>2 DEF History, Settled, Operands, Operand, Pending, QuietMa
  <2>5. AbsRegs' = AbsRegs /\ ExMaPC' = ExMaPC
    BY <1>2 DEF AbsRegs, ExMaPC
  <2>6. Computed'
    BY <1>1, <1>2, <2>2, <2>5, ComputedStays DEF RefInv
  <2>7. QED
    BY <1>1, <2>1, <2>3, <2>4, <2>6 DEF RefInv
<1>3. CASE Next
  BY <1>1, <1>3, TextsStep, PathStep, HistoryStep, SettledStep, OperandsStep, ComputedStep,
     WaitsStep, FetchesAtOnceStep
  DEF RefInv, Proved
<1>4. QED
  BY <1>2, <1>3

LEMMA RunningInvariant ==
  ASSUME Undisturbed PROVE Spec => [](Proved /\ Running)
<1>1. Init => Running
  <2>1. NoIfId.ins = Blank /\ NoIdEx.ins = Blank /\ NoExMa.ins = Blank
    BY DEF NoIfId, NoIdEx, NoExMa
  <2> SUFFICES ASSUME Init PROVE RefInv
    BY DEF Running
  <2>2. Texts
    BY <2>1 DEF Init, Texts, NoIdEx, NoExMa, QuietMa
  <2>3. Waits /\ FetchesAtOnce
    BY DEF Init, Waits, Waiting, FetchesAtOnce
  <2>4. Computed /\ Path
    BY <2>1 DEF Init, Computed, Path, ExMaHolds, IdExHolds, IfIdHolds
  <2>5. History
    BY DEF Init, History, Pending, NoMaWb
  <2>6. Settled
    BY WordFacts DEF Init, Settled
  <2>7. Operands
    BY WordFacts DEF Init, Operands, Operand, NoIdEx
  <2>8. QED
    BY <2>2, <2>3, <2>4, <2>5, <2>6, <2>7 DEF RefInv
<1>2. Proved /\ Running /\ [Next]_vars => Running'
  BY RunningStep
<1>3. Spec => []Proved
  BY TypeCorrect, WordIsFetched, AccessIsOwned, RedirectIsPending, DrainInvariant, PTL DEF Proved
<1>4. QED
  BY <1>1, <1>2, <1>3, PTL DEF Spec

----------------------------------------------------------------------------
(* The sequential machine, seen through the refinement mapping. *)

LEMMA SameOperators ==
  /\ \A x, y : Sequential!Plus(x, y) = Plus(x, y)
  /\ \A p, a : Sequential!TextWord(p, a) = TextWord(p, a)
  /\ \A a : Sequential!FetchFault(a) = FetchFault(a)
  /\ \A a : Sequential!LoadFault(a) = LoadFault(a)
  /\ \A a : Sequential!StoreFault(a) = StoreFault(a)
  /\ \A p, m, a : Sequential!LoadWord(p, m, a) = LoadWord(p, m, a)
  /\ \A f, r, v : Sequential!WriteReg(f, r, v) = WriteReg(f, r, v)
  BY DEF Sequential!Plus, Plus, Sequential!TextWord, TextWord, Sequential!NoInstr, NoInstr,
         Sequential!FetchFault, FetchFault, Sequential!LoadFault, LoadFault,
         Sequential!StoreFault, StoreFault, Sequential!LoadWord, LoadWord,
         Sequential!WriteReg, WriteReg

AbsInstr == TextWord(prog, AbsPC)

(* The next instruction can be executed. *)
Ready == AbsStatus = "running" /\ ~FetchFault(AbsPC) /\ UNCHANGED prog

LEMMA ReadyExecutes ==
  ASSUME Ready, NEW ops, AbsInstr.op \in ops PROVE Sequential!Executes(ops)
  BY SameOperators DEF Ready, AbsInstr, Sequential!Executes, Sequential!Fetched

LEMMA AbstractNames ==
  /\ Sequential!Fetched = AbsInstr
  /\ Sequential!Address = Plus(AbsRegs[AbsInstr.rs1], AbsInstr.imm)
  /\ \A a : Sequential!Goto(a) <=> AbsPC' = a
  /\ Sequential!Fallthrough <=> AbsPC' = Plus(AbsPC, 4)
  BY SameOperators
  DEF AbsInstr, Sequential!Fetched, Sequential!Address, Sequential!Goto, Sequential!Fallthrough

LEMMA AsNoOperation ==
  ASSUME Ready, AbsInstr.op = "NONE", AbsPC' = Plus(AbsPC, 4),
         UNCHANGED <<AbsRegs, dram, AbsStatus>>
  PROVE  Sequential!Next
<1>1. Sequential!Executes({"NONE"})
  BY ReadyExecutes
<1>2. QED
  BY <1>1, AbstractNames DEF Sequential!Next, Sequential!NoOperation

LEMMA AsCompute ==
  ASSUME Ready, AbsInstr.op \in {"ADD", "ADDI", "LUI"}, AbsPC' = Plus(AbsPC, 4), NEW v,
         AbsInstr.op = "ADD" => v = Plus(AbsRegs[AbsInstr.rs1], AbsRegs[AbsInstr.rs2]),
         AbsInstr.op = "ADDI" => v = Plus(AbsRegs[AbsInstr.rs1], AbsInstr.imm),
         AbsInstr.op = "LUI" => v = Plus(0, AbsInstr.imm),
         AbsRegs' = WriteReg(AbsRegs, AbsInstr.rd, v), UNCHANGED <<dram, AbsStatus>>
  PROVE  Sequential!Next
<1>1. Sequential!Executes({"ADD", "ADDI", "LUI"})
  BY ReadyExecutes
<1>2. CASE AbsInstr.op = "ADD"
  BY <1>1, <1>2, AbstractNames, SameOperators DEF Sequential!Next, Sequential!Compute
<1>3. CASE AbsInstr.op = "ADDI"
  BY <1>1, <1>3, AbstractNames, SameOperators DEF Sequential!Next, Sequential!Compute
<1>4. CASE AbsInstr.op = "LUI"
  BY <1>1, <1>4, AbstractNames, SameOperators DEF Sequential!Next, Sequential!Compute
<1>5. QED
  BY <1>2, <1>3, <1>4

LEMMA AsLoad ==
  ASSUME Ready, AbsInstr.op = "LW", AbsPC' = Plus(AbsPC, 4),
         NEW a, a = Plus(AbsRegs[AbsInstr.rs1], AbsInstr.imm), ~LoadFault(a),
         AbsRegs' = WriteReg(AbsRegs, AbsInstr.rd, LoadWord(prog, dram, a)),
         UNCHANGED <<dram, AbsStatus>>
  PROVE  Sequential!Next
<1>1. Sequential!Executes({"LW"})
  BY ReadyExecutes
<1>2. QED
  BY <1>1, AbstractNames, SameOperators DEF Sequential!Next, Sequential!Load

LEMMA AsStore ==
  ASSUME Ready, AbsInstr.op = "SW", AbsPC' = Plus(AbsPC, 4),
         NEW a, a = Plus(AbsRegs[AbsInstr.rs1], AbsInstr.imm), ~StoreFault(a),
         dram' = [dram EXCEPT ![a] = AbsRegs[AbsInstr.rs2]],
         UNCHANGED <<AbsRegs, AbsStatus>>
  PROVE  Sequential!Next
<1>1. Sequential!Executes({"SW"})
  BY ReadyExecutes
<1>2. QED
  BY <1>1, AbstractNames, SameOperators DEF Sequential!Next, Sequential!Store

LEMMA AsFault ==
  ASSUME Ready, NEW a, a = Plus(AbsRegs[AbsInstr.rs1], AbsInstr.imm),
         \/ AbsInstr.op = "LW" /\ LoadFault(a)
         \/ AbsInstr.op = "SW" /\ StoreFault(a),
         AbsStatus' = "fault", UNCHANGED <<AbsPC, AbsRegs, dram>>
  PROVE  Sequential!Next
<1>1. /\ AbsInstr.op = "LW" => Sequential!Executes({"LW"})
      /\ AbsInstr.op = "SW" => Sequential!Executes({"SW"})
  BY ReadyExecutes
<1>2. QED
  BY <1>1, AbstractNames, SameOperators DEF Sequential!Next, Sequential!Fault

LEMMA AsBranch ==
  ASSUME Ready, AbsInstr.op \in {"BEQ", "BNE"}, NEW taken \in BOOLEAN,
         taken <=> (AbsInstr.op = "BEQ" <=> AbsRegs[AbsInstr.rs1] = AbsRegs[AbsInstr.rs2]),
         AbsPC' = Plus(AbsPC, IF taken THEN AbsInstr.imm ELSE 4),
         UNCHANGED <<AbsRegs, dram, AbsStatus>>
  PROVE  Sequential!Next
<1>1. Sequential!Executes({"BEQ", "BNE"})
  BY ReadyExecutes
<1>2. QED
  BY <1>1, AbstractNames, SameOperators DEF Sequential!Next, Sequential!Branch

LEMMA AsJump ==
  ASSUME Ready, AbsInstr.op \in {"JAL", "JALR"},
         AbsRegs' = WriteReg(AbsRegs, AbsInstr.rd, Plus(AbsPC, 4)),
         AbsPC' = IF AbsInstr.op = "JAL" THEN Plus(AbsPC, AbsInstr.imm)
                  ELSE Plus(AbsRegs[AbsInstr.rs1], AbsInstr.imm),
         UNCHANGED <<dram, AbsStatus>>
  PROVE  Sequential!Next
<1>1. Sequential!Executes({"JAL", "JALR"})
  BY ReadyExecutes
<1>2. QED
  BY <1>1, AbstractNames, SameOperators DEF Sequential!Next, Sequential!Jump

LEMMA AsReturn ==
  ASSUME Ready, AbsInstr.op = "ECALL", AbsRegs[17] # 0, AbsPC' = Plus(AbsPC, 4),
         UNCHANGED <<AbsRegs, dram, AbsStatus>>
  PROVE  Sequential!Next
<1>1. Sequential!Executes({"ECALL"})
  BY ReadyExecutes
<1>2. QED
  BY <1>1, AbstractNames DEF Sequential!Next, Sequential!EcallReturns

LEMMA AsHalt ==
  ASSUME Ready, AbsInstr.op = "EBREAK" \/ (AbsInstr.op = "ECALL" /\ AbsRegs[17] = 0),
         AbsPC' = 0, AbsStatus' = "halted", UNCHANGED <<AbsRegs, dram>>
  PROVE  Sequential!Next
<1>1. /\ AbsInstr.op = "EBREAK" => Sequential!Executes({"EBREAK"})
      /\ AbsInstr.op = "ECALL" => Sequential!Executes({"ECALL"})
  BY ReadyExecutes
<1>2. QED
  BY <1>1, AbstractNames DEF Sequential!Next, Sequential!Halt

LEMMA AsStutter ==
  ASSUME UNCHANGED <<prog, AbsPC, AbsRegs, dram, AbsStatus>>
  PROVE  [Sequential!Next]_Sequential!vars
  BY DEF Sequential!vars

----------------------------------------------------------------------------
(* What the mapping shows of a machine that runs. *)

LEMMA AbsPCIs ==
  TypeOK /\ Texts /\ RedirectPending =>
    AbsPC = IF AbsStatus = "halted" THEN 0 ELSE IF ExMaHolds THEN ExMaPC ELSE Behind
<1> SUFFICES ASSUME TypeOK, Texts, RedirectPending
             PROVE  AbsPC = IF AbsStatus = "halted" THEN 0
                            ELSE IF ExMaHolds THEN ExMaPC ELSE Behind
  OBVIOUS
<1>1. change_pc \in Bit /\ stage \in {"WB", "MA", "EX", "ID", "IF"}
  BY DEF TypeOK
<1>2. CASE change_pc = 1
  BY <1>1, <1>2, BranchAhead DEF AbsPC, Behind, IdExHolds
<1>3. CASE change_pc # 1
  BY <1>3 DEF AbsPC, Behind, NextPC
<1>4. QED
  BY <1>2, <1>3

LEMMA AbsPCBecomes ==
  (TypeOK /\ Texts /\ RedirectPending =>
     AbsPC = IF AbsStatus = "halted" THEN 0 ELSE IF ExMaHolds THEN ExMaPC ELSE Behind)'
  BY AbsPCIs, PTL

LEMMA AbsStatusIs ==
  ASSUME status = "running"
  PROVE  /\ AbsStatus \in {"running", "halted"}
         /\ AbsStatus = "halted" <=> PAUSE = 1 \/ (TRAP = 1 /\ reg_file[17] = 0)
         /\ AbsStatus = "halted" => Waiting
  BY DEF AbsStatus, Waiting

LEMMA AbsStatusKept ==
  ASSUME UNCHANGED <<status, syscall, reg_file>> PROVE AbsStatus' = AbsStatus
  BY DEF AbsStatus, syscall

(* The instruction in EX/MA is the next one of the sequential machine. *)
LEMMA NextInExMa ==
  ASSUME Proved, RefInv, status = "running", stage = "MA", ExMaHolds, AbsStatus = "running",
         UNCHANGED prog
  PROVE  /\ AbsPC = ExMaPC /\ Ready /\ AbsRegs = reg_file
         /\ Computes(AbsInstr, AbsPC, ex_ma)
         /\ AbsInstr \in Instr
<1> USE DEF Proved, RefInv
<1>1. AbsPC = ExMaPC
  BY AbsPCIs
<1>2. Computes(AbsInstr, AbsPC, ex_ma)
  BY <1>1 DEF Computed, AbsInstr
<1>3. ~FetchFault(AbsPC)
  BY <1>2 DEF Computes
<1>4. AbsPC \in Nat
  BY <1>1, WordsAssumption, WordFacts DEF ExMaPC, TypeOK, ExMaLatch, Word
<1>5. AbsInstr \in Instr
  BY <1>4, TextWordType DEF AbsInstr, TypeOK
<1>6. QED
  BY <1>1, <1>2, <1>3, <1>5, AbsRegsInMA DEF Ready

LEMMA MaWritesBack ==
  ASSUME status' = "running", NEW v, ma_wb' = MaWb(v), UNCHANGED reg_file
  PROVE  AbsRegs' = IF ex_ma.wb = 1 THEN WriteReg(reg_file, ex_ma.nrd, v) ELSE reg_file
  BY DEF AbsRegs, MaWb

LEMMA MaIdleRefines ==
  ASSUME Proved, RefInv, status = "running", status' = "running", Proved', RefInv', MaIdle
  PROVE  [Sequential!Next]_Sequential!vars
<1> USE DEF Proved, RefInv
<1>1. /\ stage = "MA" /\ stage' = "EX"
      /\ UNCHANGED <<prog, dram, reg_file, status, syscall, ex_ma>>
      /\ ma_wb' = MaWb(ex_ma.result) /\ ex_ma.mem = "none" /\ ~Redirects
  BY DEF MaIdle, Runs, config
<1>2. AbsStatus' = AbsStatus
  BY <1>1, AbsStatusKept
<1>3. Behind' = Behind /\ ~ExMaHolds'
  BY <1>1, MemoryPath DEF ExMaHolds
<1>4. AbsPC' = IF AbsStatus = "halted" THEN 0 ELSE Behind
  BY <1>2, <1>3, AbsPCBecomes
<1>5. AbsRegs' = IF ex_ma.wb = 1 THEN WriteReg(reg_file, ex_ma.nrd, ex_ma.result) ELSE reg_file
  BY <1>1, MaWritesBack
<1>6. AbsRegs = reg_file
  BY <1>1, AbsRegsInMA
<1>7. CASE AbsStatus = "halted"
  <2>1. ex_ma.wb = 1 => ex_ma.nrd = 0
    BY <1>7, AbsStatusIs DEF Waits, IdleMa
  <2>2. AbsRegs' = AbsRegs
    BY <1>5, <1>6, <2>1, ZeroWrite DEF Settled, TypeOK
  <2>3. AbsPC' = AbsPC
    BY <1>4, <1>7, AbsPCIs
  <2>4. QED
    BY <1>1, <1>2, <2>2, <2>3, AsStutter
<1>8. CASE AbsStatus = "running" /\ ~ExMaHolds
  <2>1. QuietMa(ex_ma)
    BY <1>1, <1>8 DEF ExMaHolds, Texts
  <2>2. AbsRegs' = AbsRegs
    BY <1>5, <1>6, <2>1 DEF QuietMa
  <2>3. AbsPC' = AbsPC
    BY <1>4, <1>8, AbsPCIs
  <2>4. QED
    BY <1>1, <1>2, <2>2, <2>3, AsStutter
<1>9. CASE AbsStatus = "running" /\ ExMaHolds
  <2>1. Ready /\ AbsRegs = reg_file /\ Computes(AbsInstr, AbsPC, ex_ma) /\ AbsInstr \in Instr
    BY <1>1, <1>9, NextInExMa
  <2>2. /\ Carries(AbsInstr, ex_ma) /\ ResultOf(AbsInstr, AbsPC, ex_ma)
        /\ TargetOf(AbsInstr, AbsPC, ex_ma)
    BY <2>1 DEF Computes
  <2>3. ex_ma.jump_or_branch \in {0, 2}
        /\ (ex_ma.jump_or_branch = 2 => ex_ma.actual = ex_ma.predicted)
    BY <1>1 DEF Redirects, Mispredicted, TypeOK, ExMaLatch
  <2>4. AbsInstr.op \in {"NONE", "ADD", "ADDI", "LUI", "BEQ", "BNE", "ECALL", "EBREAK"}
    BY <1>1, <2>1, <2>2, <2>3 DEF Carries, decode, Instr, Op
  <2>5. ex_ma.ins = AbsInstr.op
    BY <2>2 DEF Carries
  <2>6. AbsInstr.op \notin {"ECALL", "EBREAK"}
    BY <1>9, <2>5 DEF ExMaHolds
  <2>7. AbsPC' = GuessMa
    BY <1>4, <1>9, <2>3 DEF Path
  <2>8. CASE AbsInstr.op = "NONE"
    <3>1. ex_ma.wb = 0 /\ ex_ma.jump_or_branch = 0
      BY <2>2, <2>8 DEF Carries, decode
    <3>2. AbsPC' = Plus(AbsPC, 4)
      BY <2>2, <2>7, <2>8, <3>1 DEF GuessMa, TargetOf
    <3>3. QED
      BY <1>1, <1>2, <1>5, <1>6, <2>1, <2>8, <3>1, <3>2, AsNoOperation
  <2>9. CASE AbsInstr.op \in {"ADD", "ADDI", "LUI"}
    <3>1. ex_ma.wb = 1 /\ ex_ma.nrd = AbsInstr.rd /\ ex_ma.jump_or_branch = 0
      BY <2>2, <2>9 DEF Carries, decode
    <3>2. AbsPC' = Plus(AbsPC, 4)
      BY <2>2, <2>7, <2>9, <3>1 DEF GuessMa, TargetOf
    <3>3. AbsRegs' = WriteReg(AbsRegs, AbsInstr.rd, ex_ma.result)
      BY <1>5, <1>6, <3>1
    <3>4. /\ AbsInstr.op = "ADD" =>
               ex_ma.result = Plus(AbsRegs[AbsInstr.rs1], AbsRegs[AbsInstr.rs2])
          /\ AbsInstr.op = "ADDI" => ex_ma.result = Plus(AbsRegs[AbsInstr.rs1], AbsInstr.imm)
          /\ AbsInstr.op = "LUI" => ex_ma.result = Plus(0, AbsInstr.imm)
      BY <2>2 DEF ResultOf
    <3>5. QED
      BY <1>1, <1>2, <2>1, <2>9, <3>2, <3>3, <3>4, AsCompute
  <2>10. CASE AbsInstr.op \in {"BEQ", "BNE"}
    <3> DEFINE taken == ex_ma.actual = 1
    <3>1. ex_ma.wb = 0 /\ ex_ma.jump_or_branch = 2
      BY <2>2, <2>10 DEF Carries, decode
    <3>2. taken <=> (AbsInstr.op = "BEQ" <=> AbsRegs[AbsInstr.rs1] = AbsRegs[AbsInstr.rs2])
      BY <2>2, <2>10 DEF Carries
    <3>3. ex_ma.predicted = IF taken THEN 1 ELSE 0
      BY <2>3, <3>1 DEF TypeOK, ExMaLatch, Bit
    <3>4. /\ ex_ma.result = Plus(AbsPC, 4) /\ ex_ma.PC_next = Plus(AbsPC, AbsInstr.imm)
      BY <2>2, <2>10 DEF ResultOf, TargetOf
    <3>5. AbsPC' = Plus(AbsPC, IF taken THEN AbsInstr.imm ELSE 4)
      BY <2>7, <3>1, <3>3, <3>4 DEF GuessMa
    <3>6. AbsRegs' = AbsRegs
      BY <1>5, <1>6, <3>1
    <3> HIDE DEF taken
    <3>7. taken \in BOOLEAN
      BY DEF taken
    <3>8. QED
      BY <1>1, <1>2, <2>1, <2>10, <3>2, <3>5, <3>6, <3>7, AsBranch
  <2>11. QED
    BY <2>4, <2>6, <2>8, <2>9, <2>10
<1>10. QED
  BY <1>7, <1>8, <1>9, AbsStatusIs

LEMMA MaFlushRefines ==
  ASSUME Proved, RefInv, status = "running", status' = "running", Proved', RefInv', MaFlush
  PROVE  [Sequential!Next]_Sequential!vars
<1> USE DEF Proved, RefInv
<1>1. /\ stage = "MA" /\ UNCHANGED <<prog, dram, reg_file, status, syscall>>
      /\ ma_wb' = MaWb(ex_ma.result) /\ ex_ma.mem = "none" /\ Redirects
      /\ pc' = IF ex_ma.jump_or_branch = 2 /\ ex_ma.actual = 0
               THEN ex_ma.result ELSE ex_ma.PC_next
  BY DEF MaFlush, Runs, config
<1>2. ex_ma.jump_or_branch # 0
  BY <1>1 DEF Redirects, Mispredicted
<1>3. ExMaHolds
  BY <1>1, <1>2 DEF Texts, QuietMa, ExMaHolds
<1>4. AbsStatus = "running" /\ AbsStatus' = "running"
  BY <1>1, <1>2, AbsStatusIs, AbsStatusKept DEF Waits, IdleMa
<1>5. AbsPC' = pc'
  BY <1>4, FlushPath, AbsPCBecomes
<1>6. Ready /\ AbsRegs = reg_file /\ Computes(AbsInstr, AbsPC, ex_ma) /\ AbsInstr \in Instr
  BY <1>1, <1>3, <1>4, NextInExMa
<1>7. /\ Carries(AbsInstr, ex_ma) /\ ResultOf(AbsInstr, AbsPC, ex_ma)
      /\ TargetOf(AbsInstr, AbsPC, ex_ma)
  BY <1>6 DEF Computes
<1>8. AbsRegs' = IF ex_ma.wb = 1 THEN WriteReg(reg_file, ex_ma.nrd, ex_ma.result) ELSE reg_file
  BY <1>1, MaWritesBack
<1>9. AbsInstr.op \in {"JAL", "JALR", "BEQ", "BNE"}
  BY <1>2, <1>7 DEF Carries, decode
<1>10. CASE AbsInstr.op \in {"JAL", "JALR"}
  <2>1. ex_ma.wb = 1 /\ ex_ma.nrd = AbsInstr.rd /\ ex_ma.jump_or_branch = 1
    BY <1>7, <1>10 DEF Carries, decode
  <2>2. AbsRegs' = WriteReg(AbsRegs, AbsInstr.rd, Plus(AbsPC, 4))
    BY <1>6, <1>7, <1>8, <1>10, <2>1 DEF ResultOf
  <2>3. AbsPC' = IF AbsInstr.op = "JAL" THEN Plus(AbsPC, AbsInstr.imm)
                 ELSE Plus(AbsRegs[AbsInstr.rs1], AbsInstr.imm)
    BY <1>1, <1>5, <1>7, <1>10, <2>1 DEF TargetOf
  <2>4. QED
    BY <1>1, <1>4, <1>6, <1>10, <2>2, <2>3, AsJump
<1>11. CASE AbsInstr.op \in {"BEQ", "BNE"}
  <2> DEFINE taken == ex_ma.actual = 1
  <2>1. ex_ma.wb = 0 /\ ex_ma.jump_or_branch = 2
    BY <1>7, <1>11 DEF Carries, decode
  <2>2. taken <=> (AbsInstr.op = "BEQ" <=> AbsRegs[AbsInstr.rs1] = AbsRegs[AbsInstr.rs2])
    BY <1>7, <1>11 DEF Carries
  <2>3. ex_ma.actual = IF taken THEN 1 ELSE 0
    BY DEF TypeOK, ExMaLatch, Bit
  <2>4. ex_ma.result = Plus(AbsPC, 4) /\ ex_ma.PC_next = Plus(AbsPC, AbsInstr.imm)
    BY <1>7, <1>11 DEF ResultOf, TargetOf
  <2>5. AbsPC' = Plus(AbsPC, IF taken THEN AbsInstr.imm ELSE 4)
    BY <1>1, <1>5, <2>1, <2>3, <2>4
  <2>6. AbsRegs' = AbsRegs
    BY <1>6, <1>8, <2>1
  <2> HIDE DEF taken
  <2>7. taken \in BOOLEAN
    BY DEF taken
  <2>8. QED
    BY <1>1, <1>4, <1>6, <1>11, <2>2, <2>5, <2>6, <2>7, AsBranch
<1>12. QED
  BY <1>9, <1>10, <1>11

(* A load or store in EX/MA: its address, and where the program goes on. *)
LEMMA AccessIsNext ==
  ASSUME Proved, RefInv, status = "running", UNCHANGED prog, stage = "MA", ex_ma.mem # "none"
  PROVE  /\ ExMaHolds /\ AbsStatus = "running" /\ Ready /\ AbsRegs = reg_file
         /\ AbsInstr.op = IF ex_ma.mem = "read" THEN "LW" ELSE "SW"
         /\ ex_ma.result = Plus(AbsRegs[AbsInstr.rs1], AbsInstr.imm)
         /\ ex_ma.nrd = AbsInstr.rd /\ ex_ma.wb = IF ex_ma.mem = "read" THEN 1 ELSE 0
         /\ ex_ma.mem = "write" => ex_ma.R2 = AbsRegs[AbsInstr.rs2] /\ ex_ma.nrs2 = AbsInstr.rs2
         /\ AbsInstr.rs2 \in Reg
         /\ Behind = Plus(AbsPC, 4)
<1> USE DEF Proved, RefInv
<1>1. ExMaHolds
  BY DEF Texts, QuietMa, ExMaHolds
<1>2. AbsStatus = "running"
  BY AbsStatusIs DEF Waits, IdleMa
<1>3. Ready /\ AbsRegs = reg_file /\ Computes(AbsInstr, AbsPC, ex_ma) /\ AbsInstr \in Instr
  BY <1>1, <1>2, NextInExMa
<1>4. /\ Carries(AbsInstr, ex_ma) /\ ResultOf(AbsInstr, AbsPC, ex_ma)
      /\ TargetOf(AbsInstr, AbsPC, ex_ma)
  BY <1>3 DEF Computes
<1>5. /\ AbsInstr.op = IF ex_ma.mem = "read" THEN "LW" ELSE "SW"
      /\ ex_ma.jump_or_branch = 0 /\ ex_ma.wb = IF ex_ma.mem = "read" THEN 1 ELSE 0
      /\ ex_ma.mem \in {"read", "write"}
  BY <1>4 DEF Carries, decode
<1>6. Behind = Plus(AbsPC, 4)
  <2>1. Behind = ex_ma.PC_next
    BY <1>1, <1>5 DEF Path, GuessMa
  <2>2. ex_ma.PC_next = Plus(AbsPC, 4)
    BY <1>4, <1>5 DEF TargetOf
  <2>3. QED
    BY <2>1, <2>2
<1>7. QED
  BY <1>1, <1>2, <1>3, <1>4, <1>5, <1>6 DEF Carries, ResultOf, Instr

LEMMA MaAccessRefines ==
  ASSUME Proved, RefInv, status = "running", status' = "running", Proved', RefInv',
         MaLoad \/ MaStore
  PROVE  [Sequential!Next]_Sequential!vars
<1> USE DEF Proved, RefInv
<1>1. /\ stage = "MA" /\ stage' = "EX" /\ UNCHANGED <<prog, reg_file, status, syscall>>
      /\ ex_ma.mem # "none"
  BY DEF MaLoad, MaStore, Accesses, Runs, config
<1>2. /\ Ready /\ AbsStatus = "running" /\ AbsRegs = reg_file
      /\ AbsInstr.op = IF ex_ma.mem = "read" THEN "LW" ELSE "SW"
      /\ ex_ma.result = Plus(AbsRegs[AbsInstr.rs1], AbsInstr.imm)
      /\ ex_ma.nrd = AbsInstr.rd /\ ex_ma.wb = IF ex_ma.mem = "read" THEN 1 ELSE 0
      /\ ex_ma.mem = "write" => ex_ma.R2 = AbsRegs[AbsInstr.rs2] /\ ex_ma.nrs2 = AbsInstr.rs2
      /\ AbsInstr.rs2 \in Reg
      /\ Behind = Plus(AbsPC, 4)
  BY <1>1, AccessIsNext
<1>3. AbsStatus' = AbsStatus
  BY <1>1, AbsStatusKept
<1>4. Behind' = Behind /\ ~ExMaHolds'
  BY <1>1, MemoryPath DEF ExMaHolds
<1>5. AbsPC' = Plus(AbsPC, 4)
  BY <1>2, <1>3, <1>4, AbsPCBecomes
<1>6. CASE MaLoad
  <2>1. /\ ex_ma.mem = "read" /\ ~LoadFault(ex_ma.result) /\ UNCHANGED dram
        /\ ma_wb' = MaWb(LoadWord(prog, dram, ex_ma.result))
    BY <1>6 DEF MaLoad
  <2>2. AbsRegs' = WriteReg(AbsRegs, AbsInstr.rd, LoadWord(prog, dram, ex_ma.result))
    BY <1>1, <1>2, <2>1, MaWritesBack
  <2>3. QED
    BY <1>2, <1>3, <1>5, <2>1, <2>2, AsLoad
<1>7. CASE MaStore
  <2>1. /\ ex_ma.mem = "write" /\ ~StoreFault(ex_ma.result)
        /\ dram' = [dram EXCEPT ![ex_ma.result] = forward_ma(ex_ma.R2, ex_ma.nrs2)]
        /\ ma_wb' = MaWb(ex_ma.result)
    BY <1>7 DEF MaStore
  <2>2. AbsRegs' = AbsRegs
    BY <1>1, <1>2, <2>1, MaWritesBack
  <2>3. forward_ma(ex_ma.R2, ex_ma.nrs2) = AbsRegs[AbsInstr.rs2]
    BY <1>1, <1>2, <2>1, ForwardedStore
  <2>4. QED
    BY <1>2, <1>3, <1>5, <2>1, <2>2, <2>3, AsStore
<1>8. QED
  BY <1>6, <1>7

LEMMA MaFaultRefines ==
  ASSUME Proved, RefInv, status = "running", MaFault
  PROVE  [Sequential!Next]_Sequential!vars
<1>1. /\ stage = "MA" /\ ex_ma.mem # "none" /\ status' = "dfault"
      /\ UNCHANGED <<prog, reg_file, dram, stage, pc, if_id, id_ex, ex_ma, ma_wb>>
      /\ \/ ex_ma.mem = "read"  /\ LoadFault(ex_ma.result)
         \/ ex_ma.mem = "write" /\ StoreFault(ex_ma.result)
  BY DEF MaFault, Accesses, Runs, config
<1>2. /\ Ready /\ AbsStatus = "running"
      /\ AbsInstr.op = IF ex_ma.mem = "read" THEN "LW" ELSE "SW"
      /\ ex_ma.result = Plus(AbsRegs[AbsInstr.rs1], AbsInstr.imm)
  BY <1>1, AccessIsNext
<1>3. AbsStatus' = "fault"
  BY <1>1 DEF AbsStatus
<1>4. AbsPC' = AbsPC
  BY <1>1, <1>2, <1>3 DEF AbsPC, ExMaHolds, IdExHolds, IfIdHolds, ExMaPC
<1>5. AbsRegs' = AbsRegs
  BY <1>1 DEF AbsRegs
<1>6. QED
  BY <1>1, <1>2, <1>3, <1>4, <1>5, AsFault

(* The steps that leave EX/MA's instruction in MA, or come before it gets  *)
(* there.                                                                  *)
LEMMA WriteBackRefines ==
  ASSUME Proved, RefInv, status = "running", status' = "running", Proved', RefInv',
         WriteBack \/ MaStall
  PROVE  [Sequential!Next]_Sequential!vars
<1> USE DEF Proved, RefInv
<1>1. UNCHANGED <<prog, dram, status, syscall>> /\ stage' \in {"WB", "MA"}
  BY DEF WriteBack, MaStall, Accesses, Runs, config, NextCycle
<1>2. TRAP = 1 => reg_file'[17] = reg_file[17]
  <2>1. CASE WriteBack
    BY <2>1, RegAssumption, ZeroWrite DEF WriteBack, Waits, Waiting, Settled, TypeOK
  <2>2. CASE MaStall
    BY <2>2 DEF MaStall
  <2>3. QED
    BY <2>1, <2>2
<1>3. AbsStatus' = AbsStatus
  BY <1>1, <1>2 DEF AbsStatus, syscall, TypeOK, Bit
<1>4. AbsRegs' = AbsRegs
  BY AbsRegsKept
<1>5. Behind' = Behind /\ ExMaHolds' = ExMaHolds /\ ExMaPC' = ExMaPC
  BY <1>1, MemoryPath DEF ExMaHolds, ExMaPC
<1>6. AbsPC' = AbsPC
  BY <1>3, <1>5, AbsPCIs, AbsPCBecomes
<1>7. QED
  BY <1>1, <1>3, <1>4, <1>6, AsStutter

(* EX hands on the next instruction but one, or a bubble. *)
LEMMA ExecuteKeepsPC ==
  ASSUME Proved, RefInv, status' = "running", Proved', RefInv', ExDrains \/ Execute,
         AbsStatus' = AbsStatus, ~CallWaits
  PROVE  AbsPC' = AbsPC
<1> USE DEF Proved, RefInv
<1>1. /\ stage = "EX" /\ stage' = "ID" /\ ex_ma' = ex_stage /\ Behind' = NextPC
      /\ id_ex.cs.system = 0 /\ ex_stage.ins = id_ex.ins
  BY ExecutePath, Executed DEF CallWaits
<1>2. AbsPC = IF AbsStatus = "halted" THEN 0 ELSE IF id_ex.ins # Blank THEN id_ex.PC ELSE NextPC
  BY <1>1, AbsPCIs DEF ExMaHolds, Behind, IdExHolds
<1>3. CASE id_ex.ins # Blank
  <2>1. id_ex.ins \notin {"ECALL", "EBREAK"} /\ ExMaPC' = id_ex.PC
    BY <1>1, <1>3, DecodedCall, ExecutedPC
  <2>2. ExMaHolds'
    BY <1>1, <1>3, <2>1 DEF ExMaHolds
  <2>3. QED
    BY <1>2, <1>3, <2>1, <2>2, AbsPCBecomes
<1>4. CASE id_ex.ins = Blank
  BY <1>1, <1>2, <1>4, AbsPCBecomes DEF ExMaHolds
<1>5. QED
  BY <1>3, <1>4

LEMMA ExDrainsRefines ==
  ASSUME Proved, RefInv, status = "running", status' = "running", Proved', RefInv', ExDrains
  PROVE  [Sequential!Next]_Sequential!vars
<1> USE DEF Proved, RefInv
<1>1. /\ stage = "EX" /\ stage' = "ID" /\ ex_ma' = ex_stage /\ Behind' = NextPC
      /\ UNCHANGED <<prog, status, dram, reg_file, ma_wb>>
      /\ PAUSE' = PauseRaised /\ TRAP' = TrapRaised
  BY ExecutePath DEF ExDrains, ExPasses, Runs, config
<1>2. /\ PAUSE \in Bit /\ TRAP \in Bit /\ id_ex.cs.system \in 0 .. 2
  BY DEF TypeOK, IdExLatch, Control
<1>3. AbsRegs' = AbsRegs
  BY <1>1 DEF AbsRegs
<1>4. CASE ~CallWaits
  <2>1. PAUSE' = PAUSE /\ TRAP' = TRAP
    BY <1>1, <1>4 DEF CallWaits, PauseRaised, TrapRaised
  <2>2. AbsStatus' = AbsStatus
    BY <1>1, <2>1 DEF AbsStatus
  <2>3. AbsPC' = AbsPC
    BY <1>4, <2>2, ExecuteKeepsPC
  <2>4. QED
    BY <1>1, <1>3, <2>2, <2>3, AsStutter
<1>5. CASE CallWaits
  <2>1. ~Waiting
    BY <1>1, <1>5 DEF Waits, IdleId, CallWaits
  <2>2. AbsStatus = "running"
    BY <2>1, AbsStatusIs
  <2>3. id_ex.ins # Blank
    BY <1>5 DEF CallWaits, Texts, NoControl
  <2>4. /\ id_ex.cs = decode(TextWord(prog, id_ex.PC)) /\ ~FetchFault(id_ex.PC)
        /\ id_ex.PC_next = Plus(id_ex.PC, 4)
    BY <2>3, DecodedCall DEF Texts
  <2>5. AbsPC = id_ex.PC
    BY <1>1, <2>2, <2>3, AbsPCIs DEF ExMaHolds, Behind, IdExHolds
  <2>6. Ready /\ id_ex.cs = decode(AbsInstr)
    BY <1>1, <2>2, <2>4, <2>5 DEF Ready, AbsInstr
  <2>7. QuietMa(ex_ma) /\ ma_wb.wb = 0
    BY <1>1, <1>5, CallAhead DEF ExDrains
  <2>8. AbsRegs = reg_file
    BY <2>7 DEF AbsRegs
  <2>9. CASE id_ex.cs.system = 1
    <3>1. AbsInstr.op = "EBREAK"
      BY <2>6, <2>9 DEF decode
    <3>2. AbsStatus' = "halted"
      BY <1>1, <2>9 DEF PauseRaised, AbsStatus
    <3>3. AbsPC' = 0
      BY <3>2, AbsPCBecomes
    <3>4. QED
      BY <1>1, <1>3, <2>6, <3>1, <3>2, <3>3, AsHalt
  <2>10. CASE id_ex.cs.system = 2
    <3>1. AbsInstr.op = "ECALL"
      BY <2>6, <2>10 DEF decode
    <3>2. PAUSE' = 0 /\ TRAP' = 1
      BY <1>1, <1>2, <2>1, <2>10 DEF PauseRaised, TrapRaised, Waiting, Bit
    <3>3. CASE reg_file[17] = 0
      <4>1. AbsStatus' = "halted"
        BY <1>1, <3>2, <3>3 DEF AbsStatus
      <4>2. AbsPC' = 0
        BY <4>1, AbsPCBecomes
      <4>3. QED
        BY <1>1, <1>3, <2>6, <2>8, <3>1, <3>3, <4>1, <4>2, AsHalt
    <3>4. CASE reg_file[17] # 0
      <4>1. AbsStatus' = "running"
        BY <1>1, <3>2, <3>4 DEF AbsStatus
      <4>2. ~ExMaHolds'
        <5>1. ex_stage.ins = id_ex.ins
          BY <1>5 DEF ex_stage, CallWaits, TypeOK, ExMaLatch
        <5>2. id_ex.ins = "ECALL"
          BY <2>10 DEF DrainInv, TextNames
        <5>3. QED
          BY <1>1, <5>1, <5>2 DEF ExMaHolds
      <4>3. NextPC = Plus(AbsPC, 4)
        <5>1. NextPC = Guess
          BY <1>1, <2>3 DEF Path, IdExHolds
        <5>2. Guess = id_ex.PC_next
          BY <2>6, <3>1 DEF Guess, decode
        <5>3. QED
          BY <2>4, <2>5, <5>1, <5>2
      <4>4. AbsPC' = Plus(AbsPC, 4)
        BY <1>1, <4>1, <4>2, <4>3, AbsPCBecomes
      <4>5. QED
        BY <1>1, <1>3, <2>2, <2>6, <2>8, <3>1, <3>4, <4>1, <4>4, AsReturn
    <3>5. QED
      BY <3>3, <3>4
  <2>11. QED
    BY <1>2, <1>5, <2>9, <2>10 DEF CallWaits
<1>6. QED
  BY <1>4, <1>5

LEMMA ExecuteStageRefines ==
  ASSUME Proved, RefInv, status = "running", status' = "running", Proved', RefInv',
         ExBreakpoint \/ ExSystemCall \/ ExStall \/ Execute
  PROVE  [Sequential!Next]_Sequential!vars
<1> USE DEF Proved, RefInv
<1>1. UNCHANGED <<prog, status, dram, reg_file, ma_wb>> /\ stage = "EX"
  BY DEF ExBreakpoint, ExSystemCall, ExStall, Execute, ExBubble, ExPasses, Runs, config
<1>2. PAUSE \in Bit /\ TRAP \in Bit /\ id_ex.cs.system \in 0 .. 2
  BY DEF TypeOK, IdExLatch, Control
<1>3. AbsRegs' = AbsRegs
  BY <1>1 DEF AbsRegs
<1>4. ~Waiting /\ ~Waiting'
  <2>1. CASE ExBreakpoint \/ ExSystemCall
    <3>1. CallWaits
      BY <2>1, CallEnters
    <3>2. ~Waiting
      BY <1>1, <3>1 DEF Waits, IdleId, CallWaits
    <3>3. QED
      BY <1>2, <2>1, <3>2 DEF ExBreakpoint, ExSystemCall, PauseRaised, TrapRaised, Waiting, Bit
  <2>2. CASE ExStall \/ Execute
    <3>1. PauseRaised = 0 /\ TrapRaised = 0
      BY <2>2 DEF ExStall, Execute
    <3>2. PAUSE = 0 /\ TRAP = 0
      BY <1>2, <3>1 DEF PauseRaised, TrapRaised, Bit
    <3>3. PAUSE' = 0 /\ TRAP' = 0
      BY <2>2, <3>1, <3>2 DEF ExStall, Execute, ExPasses, syscall
    <3>4. QED
      BY <3>2, <3>3 DEF Waiting
  <2>3. QED
    BY <2>1, <2>2
<1>5. AbsStatus = "running" /\ AbsStatus' = "running"
  BY <1>4, AbsStatusIs DEF AbsStatus, Waiting
<1>6. AbsPC' = AbsPC
  <2>1. CASE Execute
    <3>1. ~CallWaits
      BY <1>2, <2>1 DEF Execute, PauseRaised, TrapRaised, CallWaits
    <3>2. QED
      BY <1>5, <2>1, <3>1, ExecuteKeepsPC
  <2>2. CASE ExBreakpoint \/ ExSystemCall \/ ExStall
    <3>1. ~ExMaHolds /\ ~ExMaHolds' /\ Behind' = Behind
      BY <2>2, BubblePath DEF ExMaHolds, NoExMa
    <3>2. QED
      BY <1>5, <3>1, AbsPCIs, AbsPCBecomes
  <2>3. QED
    BY <2>1, <2>2
<1>7. QED
  BY <1>1, <1>3, <1>5, <1>6, AsStutter

LEMMA DecodeStageRefines ==
  ASSUME Proved, RefInv, status = "running", status' = "running", Proved', RefInv',
         Decode \/ DecodeStall \/ FollowPrediction
  PROVE  [Sequential!Next]_Sequential!vars
<1> USE DEF Proved, RefInv
<1>1. UNCHANGED <<prog, status, dram, reg_file, ma_wb, syscall>>
  BY DEF Decode, DecodeStall, FollowPrediction, Runs, config
<1>2. AbsStatus' = AbsStatus /\ AbsRegs' = AbsRegs
  BY <1>1, AbsStatusKept DEF AbsRegs
<1>3. ExMaHolds' = ExMaHolds /\ ExMaPC' = ExMaPC /\ Behind' = Behind
  BY DecodePath DEF ExMaHolds, ExMaPC
<1>4. AbsPC' = AbsPC
  BY <1>2, <1>3, AbsPCIs, AbsPCBecomes
<1>5. QED
  BY <1>1, <1>2, <1>4, AsStutter

LEMMA FetchStageRefines ==
  ASSUME Proved, RefInv, status = "running", Proved', Running',
         Fetch \/ FetchStall \/ Break \/ SystemCall
  PROVE  [Sequential!Next]_Sequential!vars
<1> USE DEF Proved, RefInv
<1>1. UNCHANGED <<prog, dram, reg_file, ma_wb>>
  BY DEF Fetch, FetchStall, Break, SystemCall, AfterFetch, Runs, config
<1>2. PAUSE \in Bit /\ TRAP \in Bit
  BY DEF TypeOK
<1>3. /\ status' \in {"running", "halted"}
      /\ status' = "halted" => AbsStatus = "halted" /\ AbsStatus' = "halted"
      /\ status' = "running" => AbsStatus' = AbsStatus
  <2>1. CASE Fetch \/ FetchStall
    BY <1>1, <2>1, AbsStatusKept DEF Fetch, FetchStall
  <2>2. CASE Break
    BY <2>2, AbsStatusIs DEF Break, AbsStatus
  <2>3. CASE SystemCall
    BY <1>1, <2>3, AbsStatusIs DEF SystemCall, AbsStatus
  <2>4. QED
    BY <2>1, <2>2, <2>3
<1>4. CASE status' = "running"
  <2>1. AbsRegs' = AbsRegs
    BY <1>1, <1>4 DEF AbsRegs
  <2>2. ExMaHolds' = ExMaHolds /\ ExMaPC' = ExMaPC /\ Behind' = Behind
    BY FetchPath DEF ExMaHolds, ExMaPC
  <2>3. AbsPC' = AbsPC
    BY <1>3, <1>4, <2>2, AbsPCIs, AbsPCBecomes DEF Running
  <2>4. QED
    BY <1>1, <1>3, <1>4, <2>1, <2>3, AsStutter
<1>5. CASE status' = "halted"
  <2>1. Waiting /\ AbsStatus = "halted" /\ AbsStatus' = "halted"
    BY <1>3, <1>5, AbsStatusIs
  <2>2. AbsRegs = reg_file /\ AbsRegs' = reg_file
    <3>1. ma_wb.wb = 1 => ma_wb.nrd = 0
      BY <2>1 DEF Waits
    <3>2. QED
      BY <1>1, <1>5, <3>1, ZeroWrite DEF AbsRegs, Settled, TypeOK
  <2>3. AbsPC = 0 /\ AbsPC' = 0
    BY <2>1 DEF AbsPC
  <2>4. QED
    BY <1>1, <2>1, <2>2, <2>3, AsStutter
<1>6. QED
  BY <1>3, <1>4, <1>5

LEMMA FetchFaultRefines ==
  ASSUME TypeOK, status = "running", FetchFaults
  PROVE  [Sequential!Next]_Sequential!vars
<1>1. /\ UNCHANGED <<prog, dram, reg_file, ma_wb, stage, pc, if_id, id_ex, ex_ma, syscall>>
      /\ status' = "ifault"
  BY DEF FetchFaults, AfterFetch, Refused, Runs, config
<1>2. AbsStatus' = AbsStatus
  BY <1>1 DEF AbsStatus, syscall
<1>3. AbsRegs' = AbsRegs
  BY <1>1 DEF AbsRegs
<1>4. AbsPC' = AbsPC
  BY <1>1, <1>2 DEF AbsPC, ExMaHolds, IdExHolds, IfIdHolds, ExMaPC
<1>5. QED
  BY <1>1, <1>2, <1>3, <1>4, AsStutter

----------------------------------------------------------------------------
(* The theorems. *)

LEMMA StepRefines ==
  ASSUME Undisturbed, Proved, Running, Proved', Running', [Next]_vars
  PROVE  [Sequential!Next]_Sequential!vars
<1>1. CASE UNCHANGED vars
  <2>1. UNCHANGED <<prog, stage, status, pc, reg_file, dram, if_id, id_ex, ex_ma, ma_wb,
                    PAUSE, TRAP>>
    BY <1>1 DEF vars, config, syscall
  <2>2. AbsStatus' = AbsStatus /\ AbsRegs' = AbsRegs
    BY <2>1 DEF AbsRegs, AbsStatus
  <2>3. /\ ExMaHolds' = ExMaHolds /\ IdExHolds' = IdExHolds /\ IfIdHolds' = IfIdHolds
        /\ ExMaPC' = ExMaPC
    BY <2>1 DEF ExMaHolds, IdExHolds, IfIdHolds, ExMaPC
  <2>4. AbsPC' = AbsPC
    BY <2>1, <2>2, <2>3 DEF AbsPC
  <2>5. QED
    BY <2>1, <2>2, <2>4, AsStutter
<1>2. ASSUME Next, status # "running" PROVE UNCHANGED vars
  <2>1. ~WriteBack /\ ~MaIdle /\ ~MaLoad /\ ~MaStore /\ ~MaFault
    BY <1>2 DEF Runs, WriteBack, MaIdle, MaLoad, MaStore, MaFault, Accesses
  <2>2. ~MaStall /\ ~MaFlush /\ ~MaRefused /\ ~FetchFaults
    BY <1>2 DEF Runs, MaStall, MaFlush, MaRefused, FetchFaults, Accesses, Refused
  <2>3. ~ExBreakpoint /\ ~ExSystemCall /\ ~ExDrains /\ ~ExStall /\ ~Execute
    BY <1>2 DEF Runs, ExBreakpoint, ExSystemCall, ExDrains, ExStall, Execute
  <2>4. ~Decode /\ ~DecodeStall /\ ~FollowPrediction
    BY <1>2 DEF Runs, Decode, DecodeStall, FollowPrediction
  <2>5. ~Fetch /\ ~FetchStall /\ ~Break /\ ~SystemCall
    BY <1>2 DEF Runs, Fetch, FetchStall, Break, SystemCall
  <2>6. QED
    BY <1>2, <2>1, <2>2, <2>3, <2>4, <2>5 DEF Next, Stopped
<1>3. CASE Next /\ status = "running"
  <2>1. RefInv /\ ~MaRefused
    BY <1>3, NeverRefused DEF Running, Proved, MaRefused
  <2>2. CASE status' = "running"
    <3>1. RefInv'
      BY <2>2 DEF Running
    <3>2. ~MaFault /\ ~FetchFaults
      BY <2>2 DEF MaFault, FetchFaults
    <3>3. QED
      BY <1>3, <2>1, <2>2, <3>1, <3>2, MaIdleRefines, MaFlushRefines, MaAccessRefines,
         WriteBackRefines, ExDrainsRefines, ExecuteStageRefines, DecodeStageRefines,
         FetchStageRefines
      DEF Next, Stopped
  <2>3. CASE status' # "running"
    <3>1. MaFault \/ FetchFaults \/ Break \/ SystemCall
      BY <1>3, <2>1, <2>3
      DEF Next, Stopped, Runs, WriteBack, MaIdle, MaLoad, MaStore, MaStall, MaFlush,
          Accesses, ExBreakpoint, ExSystemCall, ExDrains, ExStall, Execute, ExBubble, ExPasses,
          Decode, DecodeStall, FollowPrediction, Fetch, FetchStall
    <3>2. QED
      <4>1. TypeOK
        BY DEF Proved
      <4>2. CASE MaFault
        BY <1>3, <2>1, <4>1, <4>2, MaFaultRefines
      <4>3. CASE FetchFaults
        BY <1>3, <4>1, <4>3, FetchFaultRefines
      <4>4. CASE Break \/ SystemCall
        BY <1>3, <2>1, <4>1, <4>4, FetchStageRefines DEF Proved
      <4>5. QED
        BY <3>1, <4>2, <4>3, <4>4
  <2>4. QED
    BY <2>2, <2>3
<1>4. QED
  BY <1>1, <1>2, <1>3 DEF Next

LEMMA InitRefines == Init => Sequential!Init
<1> SUFFICES ASSUME Init PROVE Sequential!Init
  OBVIOUS
<1>1. AbsStatus = "running"
  BY DEF Init, AbsStatus
<1>2. AbsPC = 0
  BY <1>1 DEF Init, AbsPC, ExMaHolds, IdExHolds, IfIdHolds, NoExMa, NoIdEx, NoIfId
<1>3. AbsRegs = [r \in Reg |-> 0]
  BY DEF Init, AbsRegs, NoMaWb
<1>4. QED
  BY <1>1, <1>2, <1>3 DEF Init, Sequential!Init

(* As long as calls and accesses are undisturbed, the pipeline does to     *)
(* registers and memory what its instructions do one after the other: for  *)
(* every program, latency, forwarding switch and predictor, every step is  *)
(* a step of the sequential machine or none.                               *)
THEOREM PipelineImplementsIsa ==
  ASSUME Undisturbed PROVE Spec => ImplementsIsa
<1>1. Proved /\ Running /\ (Proved /\ Running)' /\ [Next]_vars
        => [Sequential!Next]_Sequential!vars
  BY StepRefines
<1>2. QED
  BY <1>1, InitRefines, RunningInvariant, PTL DEF Spec, ImplementsIsa, Sequential!Spec

(* Once a call has ended the program, nothing changes a register or the    *)
(* memory: the sequential machine has no step left.                        *)
THEOREM HaltStaysFinal ==
  ASSUME Undisturbed PROVE Spec => HaltIsFinal
<1>1. [Sequential!Next]_Sequential!vars =>
        [AbsStatus = "halted" /\ status = "running" =>
           AbsStatus' = "halted" /\ AbsRegs' = AbsRegs /\ dram' = dram]_vars
  BY DEF Sequential!Next, Sequential!vars, Sequential!Executes, Sequential!NoOperation,
         Sequential!Compute, Sequential!Load, Sequential!Store, Sequential!Fault,
         Sequential!Branch, Sequential!Jump, Sequential!EcallReturns, Sequential!Halt
<1>2. QED
  BY <1>1, PipelineImplementsIsa, PTL DEF ImplementsIsa, Sequential!Spec, HaltIsFinal
=============================================================================
