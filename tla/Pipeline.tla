------------------------------ MODULE Pipeline ------------------------------
(***************************************************************************)
(* The five-stage pipeline: simulate() of simulator.c and the stage        *)
(* functions it calls.                                                     *)
(*                                                                         *)
(* One iteration of simulate()'s loop is one clock cycle.  It runs the     *)
(* stages backwards, WB, MA, EX, ID, IF, and after each of them looks at   *)
(* the flags the stage raised: a stall ends the iteration early.  Here a   *)
(* step is one stage function together with the checks simulate() makes    *)
(* right after it, and "stage" says which one comes next.                  *)
(*                                                                         *)
(* FLUSH, DATA_HAZARD_STALL and STRUCTURAL_HAZARD_STALL are raised by a    *)
(* stage and cleared by the check that follows it, within one step, so     *)
(* they are no variables.  PAUSE, TRAP and FORWARDING_STALL can survive    *)
(* the check, so they are.                                                 *)
(*                                                                         *)
(* The caches answer an access with its latency.  Which latency that is,   *)
(* is a choice here (the module MemorySystem is about the caches): from    *)
(* FetchLatency for the instruction port and from DataLatency for the data *)
(* port of the machine the program runs on.  -1 is the answer of a cache that found no block to evict, 0 the  *)
(* answer of a level configured with no latency.                           *)
(***************************************************************************)
EXTENDS Machine, MemoryPort

CONSTANTS
  FetchLatency(_),   \* what set_read_i_counter may return to a program
  DataLatency(_),    \* what set_read_counter and set_write_counter may return
  Switches,       \* values of FORWARDING_SWITCH to consider
  Strategies      \* values of BRANCH_PREDICTION_STRATEGY to consider

ASSUME LatencyAssumption ==
  \A p \in Programs :
    /\ FetchLatency(p) \subseteq Int /\ 0 \notin FetchLatency(p)
    /\ DataLatency(p) \subseteq Int /\ ~({-1, 0} \subseteq DataLatency(p))

ASSUME ConfigAssumption ==
  /\ Switches \subseteq Bit
  /\ Strategies \subseteq {"NOT_TAKEN", "TAKEN", "OFFSET", "TWO_BIT_SWITCH", "HISTORY_TABLE"}

VARIABLES
  prog,              \* the text segment
  FORWARDING_SWITCH, \* the configuration, fixed before simulate() starts
  BRANCH_PREDICTION_STRATEGY,
  stage,             \* the stage function simulate() calls next
  status,            \* "running", "halted" (simulate() returned), or the
                     \* access that made the program exit: "ifault", "dfault"
  pc, reg_file, dram,
  if_id, id_ex, ex_ma, ma_wb, wb_if, recent_wb,      \* pipeline registers
  change_pc, jump_pc,          \* id.c: a predicted-taken branch to follow
  mfc_i, mar_i, mfc, counter,  \* memory.c: the ports and their counters
  PAUSE, TRAP, pause_counter, trap_counter, FORWARDING_STALL

config  == <<prog, FORWARDING_SWITCH, BRANCH_PREDICTION_STRATEGY>>
decoder == <<change_pc, jump_pc>>
iport   == <<mfc_i, mar_i>>
history == <<wb_if, recent_wb>>
syscall == <<PAUSE, TRAP, pause_counter, trap_counter>>
vars    == <<config, stage, status, pc, reg_file, dram, if_id, id_ex, ex_ma, ma_wb,
             history, decoder, iport, mfc, counter, syscall, FORWARDING_STALL>>

----------------------------------------------------------------------------
(* The pipeline registers.  "ins" is the text shown for the latch's        *)
(* instruction: "blank" marks a bubble.                                    *)
Blank == "blank"

NoControl == [source1 |-> "pc", source2 |-> "rs2", alu |-> "add", system |-> 0,
              mem |-> "none", predicted |-> 0, jump_or_branch |-> 0, wb |-> 0]

NoIfId == [IR |-> NoInstr, PC |-> 0, PC_next |-> 0, ins |-> Blank]

NoIdEx == [PC |-> 0, PC_next |-> 0, nrs1 |-> 0, R1 |-> 0, nrs2 |-> 0, R2 |-> 0,
           imm |-> 0, nrd |-> 0, cs |-> NoControl, ins |-> Blank]

NoExMa == [PC_next |-> 0, nrs2 |-> 0, R2 |-> 0, result |-> 0, nrd |-> 0, mem |-> "none",
           predicted |-> 0, actual |-> 0, jump_or_branch |-> 0, wb |-> 0, ins |-> Blank]

NoMaWb == [result |-> 0, nrd |-> 0, wb |-> 0]

Init ==
  /\ prog \in Programs
  /\ FORWARDING_SWITCH \in Switches
  /\ BRANCH_PREDICTION_STRATEGY \in Strategies
  /\ stage = "WB" /\ status = "running"
  /\ pc = 0 /\ reg_file = [r \in Reg |-> 0] /\ dram \in Images
  /\ if_id = NoIfId /\ id_ex = NoIdEx /\ ex_ma = NoExMa
  /\ ma_wb = NoMaWb /\ wb_if = NoMaWb /\ recent_wb = NoMaWb
  /\ change_pc = 0 /\ jump_pc = 0
  /\ mfc_i = "COMPLETED" /\ mar_i = 0 /\ mfc = "COMPLETED"
  /\ counter = [i |-> -1, r |-> -1, w |-> -1]
  /\ PAUSE = 0 /\ TRAP = 0 /\ pause_counter = -1 /\ trap_counter = -1
  /\ FORWARDING_STALL = 0

(* A slip: a flush that leaves a predicted redirection standing. *)
reset_decode_flags_Nothing == UNCHANGED decoder

reset_decode_flags == change_pc' = 0 /\ jump_pc' = 0

Runs(s) == status = "running" /\ stage = s /\ UNCHANGED config

NextCycle == stage' = "WB"

----------------------------------------------------------------------------
(* The memory ports. *)

(* Slips: a cancellation that forgets the port's state or its counter. *)
CancelFetch_StaysBusy ==
  /\ counter' = [counter EXCEPT !.i = -1]
  /\ UNCHANGED <<mfc_i, mar_i>>

CancelFetch_KeepsCounter ==
  /\ mfc_i' = "COMPLETED"
  /\ UNCHANGED <<counter, mar_i>>

CancelFetch ==
  /\ mfc_i' = "COMPLETED"
  /\ counter' = [counter EXCEPT !.i = -1]
  /\ UNCHANGED mar_i

FetchAddress == IF mfc_i = "COMPLETED" THEN pc ELSE mar_i

Fetches(outcome) ==
  \E lat \in Answers(counter.i, FetchLatency(prog)) :
    LET call == Attempt(counter.i, lat)
    IN  /\ call.result = outcome
        /\ counter' = [counter EXCEPT !.i = call.counter]
        /\ mar_i' = FetchAddress

(* A slip: a pending fetch that leaves the consumed instruction in IF/ID.  *)
FetchPending_KeepsLatch ==
  /\ Fetches("pending")
  /\ mfc_i' = "NOT_COMPLETED"
  /\ UNCHANGED <<if_id, pc>>

(* if_stage() when its fetch completes, and when it does not. *)
FetchCompletes ==
  /\ Fetches("done")
  /\ ~FetchFault(FetchAddress)
  /\ mfc_i' = "COMPLETED"
  /\ if_id' = [IR |-> TextWord(prog, FetchAddress), PC |-> pc, PC_next |-> Plus(pc, 4),
               ins |-> TextWord(prog, pc).op]
  /\ pc' = Plus(pc, 4)

FetchPending ==
  /\ Fetches("pending")
  /\ mfc_i' = "NOT_COMPLETED"
  /\ if_id' = NoIfId
  /\ UNCHANGED pc

----------------------------------------------------------------------------
(* WB *)

WriteBack ==
  /\ Runs("WB")
  /\ reg_file' = IF ma_wb.wb = 1 THEN WriteReg(reg_file, ma_wb.nrd, ma_wb.result) ELSE reg_file
  /\ recent_wb' = wb_if
  /\ wb_if' = ma_wb
  /\ stage' = "MA"
  /\ UNCHANGED <<status, pc, dram, if_id, id_ex, ex_ma, ma_wb, decoder, iport, mfc, counter,
                 syscall, FORWARDING_STALL>>

----------------------------------------------------------------------------
(* MA *)

(* The instruction in the latch writes register r. *)
Pending(latch, r) == latch.wb = 1 /\ latch.nrd = r /\ r # 0

forward_ma(original_value, n_reg) ==
  IF Pending(ma_wb, n_reg) THEN ma_wb.result
  ELSE IF Pending(recent_wb, n_reg) THEN recent_wb.result
  ELSE original_value

(* A slip: a stall during which the waiting operands are not read again. *)
update_operands_Nothing == UNCHANGED id_ex

update_operands ==
  id_ex' = [id_ex EXCEPT !.R1 = reg_file[id_ex.nrs1], !.R2 = reg_file[id_ex.nrs2]]

MaWb(value) == [result |-> value, nrd |-> ex_ma.nrd, wb |-> ex_ma.wb]

Mispredicted == ex_ma.jump_or_branch = 2 /\ ex_ma.actual # ex_ma.predicted

Redirects == ex_ma.jump_or_branch = 1 \/ Mispredicted

(* Neither an access, nor a jump, nor a mispredicted branch. *)
MaIdle ==
  /\ Runs("MA")
  /\ ex_ma.mem = "none" /\ ~Redirects /\ mfc = "COMPLETED"
  /\ ma_wb' = MaWb(ex_ma.result)
  /\ stage' = "EX"
  /\ UNCHANGED <<status, pc, reg_file, dram, if_id, id_ex, ex_ma, history, decoder, iport, mfc,
                 counter, syscall, FORWARDING_STALL>>

(* A jump or a mispredicted branch empties the stages behind it. *)
MaFlush ==
  /\ Runs("MA")
  /\ ex_ma.mem = "none" /\ Redirects /\ mfc = "COMPLETED"
  /\ pc' = IF ex_ma.jump_or_branch = 2 /\ ex_ma.actual = 0 THEN ex_ma.result ELSE ex_ma.PC_next
  /\ ma_wb' = MaWb(ex_ma.result)
  /\ ex_ma' = NoExMa /\ id_ex' = NoIdEx /\ if_id' = NoIfId
  /\ CancelFetch
  /\ reset_decode_flags
  /\ stage' = "EX"
  /\ UNCHANGED <<status, reg_file, dram, history, mfc, syscall, FORWARDING_STALL>>

(* One call of the data port by the load or store in EX/MA. *)
Accesses(outcome) ==
  LET port == IF ex_ma.mem = "read" THEN "r" ELSE "w"
  IN  /\ Runs("MA") /\ ex_ma.mem # "none"
      /\ \E lat \in Answers(counter[port], DataLatency(prog)) :
           LET call == Attempt(counter[port], lat)
           IN  /\ call.result = outcome
               /\ counter' = [counter EXCEPT ![port] = call.counter]

MaLoad ==
  /\ Accesses("done") /\ ex_ma.mem = "read" /\ ~LoadFault(ex_ma.result)
  /\ mfc' = "COMPLETED"
  /\ ma_wb' = MaWb(LoadWord(prog, dram, ex_ma.result))
  /\ stage' = "EX"
  /\ UNCHANGED <<status, pc, reg_file, dram, if_id, id_ex, ex_ma, history, decoder, iport,
                 syscall, FORWARDING_STALL>>

MaStore ==
  /\ Accesses("done") /\ ex_ma.mem = "write" /\ ~StoreFault(ex_ma.result)
  /\ mfc' = "COMPLETED"
  /\ dram' = [dram EXCEPT ![ex_ma.result] = forward_ma(ex_ma.R2, ex_ma.nrs2)]
  /\ ma_wb' = MaWb(ex_ma.result)
  /\ stage' = "EX"
  /\ UNCHANGED <<status, pc, reg_file, if_id, id_ex, ex_ma, history, decoder, iport, syscall,
                 FORWARDING_STALL>>

MaFault ==
  /\ Accesses("done")
  /\ \/ ex_ma.mem = "read"  /\ LoadFault(ex_ma.result)
     \/ ex_ma.mem = "write" /\ StoreFault(ex_ma.result)
  /\ status' = "dfault"
  /\ UNCHANGED <<stage, pc, reg_file, dram, if_id, id_ex, ex_ma, ma_wb, history, decoder, iport,
                 mfc, syscall, FORWARDING_STALL>>

(* The access takes longer: EX, ID and IF stand still for a cycle. *)
MaStall ==
  /\ Accesses("pending")
  /\ mfc' = "NOT_COMPLETED"
  /\ ma_wb' = NoMaWb
  /\ update_operands
  /\ NextCycle
  /\ UNCHANGED <<status, pc, reg_file, dram, if_id, ex_ma, history, decoder, iport, syscall,
                 FORWARDING_STALL>>

(* STRUCTURAL_HAZARD_STALL: the access was refused. *)
Refused ==
  /\ Runs("MA") /\ ex_ma.mem # "none" /\ mfc = "COMPLETED"
  /\ LET port == IF ex_ma.mem = "read" THEN "r" ELSE "w"
     IN  \E lat \in Answers(counter[port], DataLatency(prog)) :
           Attempt(counter[port], lat).result = "refused"

(* if_stage() still runs in that cycle, though IF/ID was not consumed. *)
MaRefused ==
  /\ Refused
  /\ ma_wb' = NoMaWb
  /\ update_operands
  /\ FetchCompletes \/ FetchPending
  /\ NextCycle
  /\ UNCHANGED <<status, reg_file, dram, ex_ma, history, decoder, mfc, syscall,
                 FORWARDING_STALL>>

----------------------------------------------------------------------------
(* EX *)

(* A slip: an operand that is not taken from what WB has just written. *)
forward_ex_NoWbIf(original_value, n_reg) ==
  IF Pending(ex_ma, n_reg)
  THEN IF ex_ma.mem # "none" THEN [stall |-> 1, value |-> 0]
                             ELSE [stall |-> 0, value |-> ex_ma.result]
  ELSE IF Pending(ma_wb, n_reg) THEN [stall |-> 1, value |-> 0]
  ELSE [stall |-> 0, value |-> original_value]

forward_ex(original_value, n_reg) ==
  IF Pending(ex_ma, n_reg)
  THEN IF ex_ma.mem # "none" THEN [stall |-> 1, value |-> 0]
                             ELSE [stall |-> 0, value |-> ex_ma.result]
  ELSE IF Pending(ma_wb, n_reg) THEN [stall |-> 1, value |-> 0]
  ELSE IF Pending(wb_if, n_reg) THEN [stall |-> 0, value |-> wb_if.result]
  ELSE [stall |-> 0, value |-> original_value]

Operand1 == IF id_ex.cs.source1 = "rs1" THEN forward_ex(id_ex.R1, id_ex.nrs1)
                                        ELSE [stall |-> 0, value |-> id_ex.PC]

Operand2 == IF id_ex.cs.source2 = "rs2" THEN forward_ex(id_ex.R2, id_ex.nrs2)
                                        ELSE [stall |-> 0, value |-> id_ex.imm]

StoreData == IF id_ex.cs.mem = "write" THEN forward_ex(id_ex.R2, id_ex.nrs2)
                                       ELSE [stall |-> 0, value |-> id_ex.R2]

alu(a, b) ==
  IF id_ex.cs.alu = "add" THEN Plus(a, b)
  ELSE IF id_ex.cs.alu = "lui" THEN Plus(0, b)
  ELSE id_ex.PC_next

TargetPC(a, b) ==
  IF id_ex.cs.alu = "jump" THEN Plus(a, b)
  ELSE IF id_ex.cs.alu \in {"beq", "bne"} THEN Plus(id_ex.PC, id_ex.imm)
  ELSE id_ex.PC_next

BranchTaken(a, b) == IF \/ id_ex.cs.alu = "jump"
                        \/ id_ex.cs.alu = "beq" /\ a = b
                        \/ id_ex.cs.alu = "bne" /\ a # b
                     THEN 1 ELSE 0

(* What ex_stage() leaves in EX/MA; a system call only moves its text on. *)
ex_stage ==
  LET a == Operand1.value
      b == Operand2.value
  IN  IF id_ex.cs.system # 0
      THEN [ex_ma EXCEPT !.ins = id_ex.ins]
      ELSE [PC_next |-> TargetPC(a, b), nrs2 |-> id_ex.nrs2, R2 |-> StoreData.value,
            result |-> alu(a, b), nrd |-> id_ex.nrd, mem |-> id_ex.cs.mem,
            predicted |-> id_ex.cs.predicted, actual |-> BranchTaken(a, b),
            jump_or_branch |-> id_ex.cs.jump_or_branch, wb |-> id_ex.cs.wb, ins |-> id_ex.ins]

PauseRaised == IF id_ex.cs.system = 1 THEN 1 ELSE PAUSE

TrapRaised == IF id_ex.cs.system = 2 THEN 1 ELSE TRAP

StallRaised ==
  IF id_ex.cs.system = 0 /\ 1 \in {Operand1.stall, Operand2.stall, StoreData.stall}
  THEN 1 ELSE FORWARDING_STALL

(* The rest of the cycle follows: ID and IF. *)
ExPasses ==
  /\ ex_ma' = ex_stage
  /\ PAUSE' = PauseRaised /\ TRAP' = TrapRaised /\ FORWARDING_STALL' = StallRaised
  /\ stage' = "ID"
  /\ UNCHANGED <<status, pc, reg_file, dram, if_id, id_ex, ma_wb, history, decoder, iport, mfc,
                 counter, pause_counter, trap_counter>>

(* A slip: a stalled EX that leaves the consumed instruction in EX/MA. *)
ExBubble_KeepsLatch ==
  /\ NextCycle
  /\ UNCHANGED <<status, pc, reg_file, dram, if_id, ex_ma, ma_wb, history, decoder, iport, mfc, counter>>

(* The cycle ends here and EX/MA is a bubble. *)
ExBubble ==
  /\ ex_ma' = NoExMa
  /\ NextCycle
  /\ UNCHANGED <<status, pc, reg_file, dram, if_id, ma_wb, history, decoder, iport, mfc, counter>>

(* The cycle an ebreak enters EX. *)
ExBreakpoint ==
  /\ Runs("EX") /\ PauseRaised = 1 /\ pause_counter # 0
  /\ ExBubble
  /\ pause_counter' = 0 /\ PAUSE' = 0 /\ TRAP' = TrapRaised
  /\ FORWARDING_STALL' = StallRaised
  /\ UNCHANGED <<id_ex, trap_counter>>

(* The cycle an ecall enters EX. *)
ExSystemCall ==
  /\ Runs("EX") /\ PauseRaised = 0 /\ TrapRaised = 1 /\ trap_counter # 0
  /\ ExBubble
  /\ trap_counter' = 0 /\ TRAP' = 0 /\ PAUSE' = 0
  /\ FORWARDING_STALL' = StallRaised
  /\ UNCHANGED <<id_ex, pause_counter>>

PauseDrains == PauseRaised = 1 /\ pause_counter = 0

TrapDrains == PauseRaised = 0 /\ TrapRaised = 1 /\ trap_counter = 0

(* An ebreak or ecall waits for ID and IF to complete a cycle. *)
ExDrains ==
  /\ Runs("EX")
  /\ PauseDrains \/ TrapDrains
  /\ ExPasses

ExStall ==
  /\ Runs("EX") /\ PauseRaised = 0 /\ TrapRaised = 0 /\ StallRaised = 1
  /\ ExBubble
  /\ update_operands
  /\ FORWARDING_STALL' = 0
  /\ UNCHANGED syscall

Execute ==
  /\ Runs("EX") /\ PauseRaised = 0 /\ TrapRaised = 0 /\ StallRaised = 0
  /\ ExPasses

----------------------------------------------------------------------------
(* ID *)

predict_based_on_offset(ir) == IF ir.imm < 0 THEN 1 ELSE 0

predict(ir) ==
  IF BRANCH_PREDICTION_STRATEGY = "OFFSET" THEN predict_based_on_offset(ir)
  ELSE IF BRANCH_PREDICTION_STRATEGY = "TAKEN" THEN 1 ELSE 0

decode(ir) ==
  [source1        |-> IF ir.op \in {"ADD", "ADDI", "LW", "SW", "BEQ", "BNE", "JALR"}
                      THEN "rs1" ELSE "pc",
   source2        |-> IF ir.op \in {"ADDI", "LUI", "LW", "SW", "JAL", "JALR"}
                      THEN "imm" ELSE "rs2",
   alu            |-> IF ir.op = "LUI" THEN "lui"
                      ELSE IF ir.op = "BEQ" THEN "beq"
                      ELSE IF ir.op = "BNE" THEN "bne"
                      ELSE IF ir.op \in {"JAL", "JALR"} THEN "jump" ELSE "add",
   system         |-> IF ir.op = "EBREAK" THEN 1 ELSE IF ir.op = "ECALL" THEN 2 ELSE 0,
   mem            |-> IF ir.op = "LW" THEN "read" ELSE IF ir.op = "SW" THEN "write" ELSE "none",
   predicted      |-> IF ir.op \in {"JAL", "JALR"} THEN 1
                      ELSE IF ir.op \in {"BEQ", "BNE"} THEN predict(ir) ELSE 0,
   jump_or_branch |-> IF ir.op \in {"JAL", "JALR"} THEN 1
                      ELSE IF ir.op \in {"BEQ", "BNE"} THEN 2 ELSE 0,
   wb             |-> IF ir.op \in {"ADD", "ADDI", "LUI", "LW", "JAL", "JALR"} THEN 1 ELSE 0]

id_stage ==
  LET ir == if_id.IR
  IN  [PC |-> if_id.PC, PC_next |-> if_id.PC_next, nrs1 |-> ir.rs1, R1 |-> reg_file[ir.rs1],
       nrs2 |-> ir.rs2, R2 |-> reg_file[ir.rs2], imm |-> ir.imm, nrd |-> ir.rd,
       cs |-> decode(ir), ins |-> if_id.ins]

(* The registers the instruction in a latch reads; a store reads its data  *)
(* from rs2 although its second ALU operand is the immediate.              *)
Sources(latch) ==
  (IF latch.cs.source1 = "rs1" THEN {latch.nrs1} ELSE {}) \cup
  (IF latch.cs.source2 = "rs2" \/ latch.cs.mem = "write" THEN {latch.nrs2} ELSE {})

(* The decoded instruction reads a register that an older one has not yet  *)
(* written, or has written in this very cycle.                             *)
set_hazard_stall ==
  \E r \in Sources(id_stage), latch \in {ex_ma, ma_wb, wb_if} : Pending(latch, r)

Stalls == FORWARDING_SWITCH = 0 /\ set_hazard_stall

PredictsTaken == id_stage.cs.jump_or_branch = 2 /\ id_stage.cs.predicted = 1

Decode ==
  /\ Runs("ID") /\ change_pc = 0 /\ ~Stalls
  /\ id_ex' = id_stage
  /\ change_pc' = IF PredictsTaken THEN 1 ELSE 0
  /\ jump_pc' = IF PredictsTaken THEN Plus(if_id.PC, if_id.IR.imm) ELSE jump_pc
  /\ stage' = "IF"
  /\ UNCHANGED <<status, pc, reg_file, dram, if_id, ex_ma, ma_wb, history, iport, mfc, counter,
                 syscall, FORWARDING_STALL>>

DecodeStall ==
  /\ Runs("ID") /\ change_pc = 0 /\ Stalls
  /\ id_ex' = NoIdEx
  /\ NextCycle
  /\ UNCHANGED <<status, pc, reg_file, dram, if_id, ex_ma, ma_wb, history, decoder, iport, mfc,
                 counter, syscall, FORWARDING_STALL>>

(* The redirection asked for by the branch decoded a cycle earlier. *)
FollowPrediction ==
  /\ Runs("ID") /\ change_pc = 1
  /\ pc' = jump_pc
  /\ change_pc' = 0 /\ jump_pc' = 0
  /\ id_ex' = NoIdEx /\ if_id' = NoIfId
  /\ CancelFetch
  /\ stage' = "IF"
  /\ UNCHANGED <<status, reg_file, dram, ex_ma, ma_wb, history, mfc, syscall, FORWARDING_STALL>>

----------------------------------------------------------------------------
(* IF *)

AfterFetch == UNCHANGED <<reg_file, dram, id_ex, ex_ma, ma_wb, history, decoder, mfc,
                          FORWARDING_STALL>>

Fetch ==
  /\ Runs("IF") /\ PAUSE = 0 /\ TRAP = 0
  /\ FetchCompletes
  /\ NextCycle /\ AfterFetch
  /\ UNCHANGED <<status, syscall>>

FetchStall ==
  /\ Runs("IF")
  /\ FetchPending
  /\ NextCycle /\ AfterFetch
  /\ UNCHANGED <<status, syscall>>

(* A slip: an ebreak after which simulate() does not return. *)
Break_GoesOn ==
  /\ Runs("IF") /\ PAUSE = 1
  /\ FetchCompletes
  /\ pause_counter' = -1 /\ PAUSE' = 0
  /\ NextCycle /\ AfterFetch
  /\ UNCHANGED <<status, TRAP, trap_counter>>

Break ==
  /\ Runs("IF") /\ PAUSE = 1
  /\ FetchCompletes
  /\ pause_counter' = -1 /\ PAUSE' = 0
  /\ status' = "halted"
  /\ NextCycle /\ AfterFetch
  /\ UNCHANGED <<TRAP, trap_counter>>

SystemCall ==
  /\ Runs("IF") /\ PAUSE = 0 /\ TRAP = 1
  /\ FetchCompletes
  /\ trap_counter' = -1 /\ TRAP' = 0
  /\ status' = IF reg_file[17] = 0 THEN "halted" ELSE "running"
  /\ NextCycle /\ AfterFetch
  /\ UNCHANGED <<PAUSE, pause_counter>>

FetchFaults ==
  /\ Runs("IF") \/ Refused
  /\ Fetches("done") /\ FetchFault(FetchAddress)
  /\ status' = "ifault"
  /\ AfterFetch
  /\ UNCHANGED <<stage, pc, if_id, mfc_i, syscall>>

(* simulate() has returned, or the program has exited. *)
Stopped == status # "running" /\ UNCHANGED vars

----------------------------------------------------------------------------
Next ==
  \/ WriteBack
  \/ MaIdle \/ MaFlush \/ MaLoad \/ MaStore \/ MaFault \/ MaStall \/ MaRefused
  \/ ExBreakpoint \/ ExSystemCall \/ ExDrains \/ ExStall \/ Execute
  \/ Decode \/ DecodeStall \/ FollowPrediction
  \/ Fetch \/ FetchStall \/ Break \/ SystemCall \/ FetchFaults
  \/ Stopped

Spec == Init /\ [][Next]_vars

(* simulate() is a single loop that never waits for anything outside it. *)
FairSpec == Spec /\ WF_vars(Next)

----------------------------------------------------------------------------
(* Properties *)

Text == Op \cup {Blank}

Control == [source1 : {"pc", "rs1"}, source2 : {"rs2", "imm"},
            alu : {"add", "lui", "beq", "bne", "jump"}, system : 0 .. 2,
            mem : {"none", "read", "write"}, predicted : Bit, jump_or_branch : 0 .. 2, wb : Bit]

IfIdLatch == [IR : Instr, PC : Word, PC_next : Word, ins : Text]

IdExLatch == [PC : Word, PC_next : Word, nrs1 : Reg, R1 : Word, nrs2 : Reg, R2 : Word,
              imm : Int, nrd : Reg, cs : Control, ins : Text]

ExMaLatch == [PC_next : Word, nrs2 : Reg, R2 : Word, result : Word, nrd : Reg,
              mem : {"none", "read", "write"}, predicted : Bit, actual : Bit,
              jump_or_branch : 0 .. 2, wb : Bit, ins : Text]

MaWbLatch == [result : Word, nrd : Reg, wb : Bit]

(* Every variable holds what its C declaration and its writers allow. *)
TypeOK ==
  /\ prog \in Programs
  /\ FORWARDING_SWITCH \in Switches /\ BRANCH_PREDICTION_STRATEGY \in Strategies
  /\ stage \in {"WB", "MA", "EX", "ID", "IF"}
  /\ status \in {"running", "halted", "ifault", "dfault"}
  /\ pc \in Word /\ reg_file \in [Reg -> Word] /\ dram \in [DataAddr -> Word]
  /\ if_id \in IfIdLatch /\ id_ex \in IdExLatch /\ ex_ma \in ExMaLatch
  /\ ma_wb \in MaWbLatch /\ wb_if \in MaWbLatch /\ recent_wb \in MaWbLatch
  /\ change_pc \in Bit /\ jump_pc \in Word
  /\ mfc_i \in {"COMPLETED", "NOT_COMPLETED"} /\ mfc \in {"COMPLETED", "NOT_COMPLETED"}
  /\ mar_i \in Word
  /\ counter \in [i : Int, r : Int, w : Int]
  /\ PAUSE \in Bit /\ TRAP \in Bit /\ pause_counter \in {-1, 0} /\ trap_counter \in {-1, 0}
  /\ FORWARDING_STALL \in Bit

(* A fetch in flight is for the instruction pc names, even after jumps,    *)
(* flushes and predicted branches moved pc: each of them cancels it.  So   *)
(* the word latched with an address is the word at that address, and ID/EX *)
(* carries what the decoder makes of it.                                   *)
FetchedWord ==
  /\ mfc_i = "NOT_COMPLETED" => mar_i = pc
  /\ if_id.ins # Blank => if_id.IR = TextWord(prog, if_id.PC)
  /\ id_ex.ins # Blank =>
       LET ir == TextWord(prog, id_ex.PC)
       IN  /\ id_ex.cs = decode(ir) /\ id_ex.imm = ir.imm /\ id_ex.nrd = ir.rd
           /\ id_ex.nrs1 = ir.rs1 /\ id_ex.nrs2 = ir.rs2

(* A data access in flight belongs to the instruction in EX/MA, whose      *)
(* port it uses, and no stage behind MA runs before it has completed.      *)
AccessOwned ==
  /\ mfc = "NOT_COMPLETED" => ex_ma.mem # "none" /\ stage \in {"WB", "MA"}
  /\ counter.r # -1 => ex_ma.mem = "read" /\ mfc = "NOT_COMPLETED"
  /\ counter.w # -1 => ex_ma.mem = "write" /\ mfc = "NOT_COMPLETED"
  /\ counter.i # -1 => mfc_i = "NOT_COMPLETED"

(* id.c's change_pc is about to redirect the fetch only on behalf of a     *)
(* branch predicted taken that is still in the pipeline, right behind MA,  *)
(* and to that branch's own target: a flush also takes the redirection of  *)
(* a flushed branch back (reset_decode_flags).                             *)
RedirectPending ==
  change_pc = 1 =>
    IF stage = "ID"
    THEN ex_ma.jump_or_branch = 2 /\ ex_ma.predicted = 1 /\ jump_pc = ex_ma.PC_next
    ELSE /\ id_ex.cs.jump_or_branch = 2 /\ id_ex.cs.predicted = 1
         /\ jump_pc = Plus(id_ex.PC, id_ex.imm)

(* The stall a forwarding conflict asks for happens in the cycle that      *)
(* asked: the flag is never left over for another instruction, not even    *)
(* when a pending ebreak or ecall is looked at first.                      *)
StallFlagConsumed == FORWARDING_STALL = 0

(* An ebreak or ecall that waits for a fetch lets at most one younger      *)
(* instruction into ID: the one that was in IF/ID behind it.               *)
SkidOfOne ==
  (PAUSE = 1 \/ TRAP = 1) /\ stage = "ID" /\ if_id.ins # Blank
     => id_ex.ins \in {"ECALL", "EBREAK", Blank}

(* Every program of the instance stops, whatever its stalls, if the memory *)
(* answers every access.                                                   *)
Answered == \A lat \in FetchLatency(prog) \cup DataLatency(prog) : lat > 0

Terminates == Answered => <>(status = "halted")
=============================================================================
