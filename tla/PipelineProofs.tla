--------------------------- MODULE PipelineProofs ---------------------------
(***************************************************************************)
(* Safety of the pipeline for every word size, memory layout, program,     *)
(* latency, forwarding switch and predictor; then what happens while an    *)
(* ebreak or ecall is in the machine, from the cycle it enters EX to the   *)
(* fetch that ends its stay.                                               *)
(***************************************************************************)
EXTENDS Pipeline, TLAPS

----------------------------------------------------------------------------
(* What the operators return. *)

LEMMA PlusType ==
  ASSUME NEW x \in Int, NEW y \in Int PROVE Plus(x, y) \in Word
  BY WordsAssumption DEF Plus, Word

LEMMA WordFacts == 0 \in Word /\ 0 \in Reg /\ Word \subseteq Nat /\ Word \subseteq Int
  BY WordsAssumption, RegAssumption DEF Word

LEMMA TextWordType ==
  ASSUME NEW p \in Programs, NEW a \in Nat PROVE TextWord(p, a) \in Instr
<1>1. NoInstr \in Instr
  BY RegAssumption DEF NoInstr, Instr, Op
<1>2. p \in Seq(Instr)
  BY LoaderAssumption
<1>3. CASE a \div 4 < Len(p)
  <2>1. a \div 4 + 1 \in 1 .. Len(p)
    BY <1>2, <1>3
  <2>2. QED
    BY <1>2, <1>3, <2>1 DEF TextWord
<1>4. QED
  BY <1>1, <1>3 DEF TextWord

LEMMA DecodeType ==
  ASSUME NEW ir \in Instr PROVE decode(ir) \in Control
<1>1. predict(ir) \in Bit
  BY DEF predict, predict_based_on_offset, Instr, Bit
<1>2. QED
  BY <1>1 DEF decode, Control, Bit

LEMMA LoadWordType ==
  ASSUME NEW p \in Programs, NEW m \in [DataAddr -> Word], NEW a \in Word, ~LoadFault(a)
  PROVE  LoadWord(p, m, a) \in Word
<1>1. CASE a <= TextLimit
  <2>1. a \in 0 .. TextLimit
    BY <1>1, WordsAssumption DEF Word
  <2>2. QED
    BY <1>1, <2>1, CodeWordAssumption DEF LoadWord
<1>2. CASE ~(a <= TextLimit)
  <2>1. a \in DataAddr
    BY <1>2, WordsAssumption DEF Word, DataAddr, LoadFault
  <2>2. QED
    BY <1>2, <2>1 DEF LoadWord
<1>3. QED
  BY <1>1, <1>2

LEMMA WriteRegType ==
  ASSUME NEW f \in [Reg -> Word], NEW r \in Reg, NEW v \in Word
  PROVE  WriteReg(f, r, v) \in [Reg -> Word]
  BY WordFacts DEF WriteReg

LEMMA AttemptType ==
  ASSUME NEW c \in Int, NEW lat \in Int
  PROVE  /\ Attempt(c, lat).counter \in Int
         /\ Attempt(c, lat).result \in {"pending", "done", "refused"}
         /\ Attempt(c, lat).result = "done" => Attempt(c, lat).counter = -1
<1> DEFINE n == IF c < 0 THEN lat - 1 ELSE c
<1>1. n \in Int
  OBVIOUS
<1>2. CASE n > 0
  BY <1>2 DEF Attempt
<1>3. CASE n = 0
  BY <1>3 DEF Attempt
<1>4. CASE n = -1
  BY <1>4 DEF Attempt
<1>5. CASE n < -1
  BY <1>5 DEF Attempt
<1>6. QED
  BY <1>1, <1>2, <1>3, <1>4, <1>5

LEMMA BubbleTypes ==
  NoIfId \in IfIdLatch /\ NoIdEx \in IdExLatch /\ NoExMa \in ExMaLatch /\ NoMaWb \in MaWbLatch
<1>1. NoInstr \in Instr
  BY RegAssumption DEF NoInstr, Instr, Op
<1>2. NoControl \in Control
  BY DEF NoControl, Control, Bit
<1>3. QED
  BY <1>1, <1>2, WordFacts
  DEF NoIfId, NoIdEx, NoExMa, NoMaWb, IfIdLatch, IdExLatch, ExMaLatch, MaWbLatch, Text, Blank, Bit

LEMMA ForwardExType ==
  ASSUME TypeOK, NEW v \in Word, NEW r \in Reg
  PROVE  forward_ex(v, r) \in [stall : Bit, value : Word]
  BY WordFacts DEF TypeOK, forward_ex, ExMaLatch, MaWbLatch, Bit

LEMMA ForwardMaType ==
  ASSUME TypeOK, NEW v \in Word, NEW r \in Reg PROVE forward_ma(v, r) \in Word
  BY DEF TypeOK, forward_ma, MaWbLatch

LEMMA ExStageType ==
  ASSUME TypeOK
  PROVE  /\ ex_stage \in ExMaLatch
         /\ PauseRaised \in Bit /\ TrapRaised \in Bit /\ StallRaised \in Bit
<1>1. id_ex \in IdExLatch /\ ex_ma \in ExMaLatch
  BY DEF TypeOK
<1>2. /\ Operand1 \in [stall : Bit, value : Word]
      /\ Operand2 \in [stall : Bit, value : Int]
      /\ StoreData \in [stall : Bit, value : Word]
  <2>1. /\ forward_ex(id_ex.R1, id_ex.nrs1) \in [stall : Bit, value : Word]
        /\ forward_ex(id_ex.R2, id_ex.nrs2) \in [stall : Bit, value : Word]
    BY <1>1, ForwardExType DEF IdExLatch
  <2>2. Word \subseteq Int
    BY WordFacts
  <2>3. QED
    BY <1>1, <2>1, <2>2 DEF Operand1, Operand2, StoreData, IdExLatch, Bit
<1> DEFINE a == Operand1.value
           b == Operand2.value
<1>3. a \in Word /\ a \in Int /\ b \in Int
  BY <1>2 DEF Word
<1>4. alu(a, b) \in Word /\ TargetPC(a, b) \in Word
  <2>1. Plus(a, b) \in Word /\ Plus(0, b) \in Word /\ Plus(id_ex.PC, id_ex.imm) \in Word
    <3>1. id_ex.PC \in Int /\ id_ex.imm \in Int
      BY <1>1 DEF IdExLatch, Word
    <3>2. QED
      BY <1>3, <3>1, PlusType
  <2>2. id_ex.PC_next \in Word
    BY <1>1 DEF IdExLatch
  <2>3. QED
    BY <2>1, <2>2 DEF alu, TargetPC
<1>5. BranchTaken(a, b) \in Bit
  BY DEF BranchTaken, Bit
<1>6. ex_stage \in ExMaLatch
  <2>1. CASE id_ex.cs.system # 0
    BY <1>1, <2>1 DEF ex_stage, ExMaLatch, IdExLatch
  <2>2. CASE id_ex.cs.system = 0
    BY <1>1, <1>2, <1>4, <1>5, <2>2 DEF ex_stage, ExMaLatch, IdExLatch, Control
  <2>3. QED
    BY <2>1, <2>2
<1>7. QED
  BY <1>6 DEF TypeOK, PauseRaised, TrapRaised, StallRaised, Bit

LEMMA IdStageType ==
  ASSUME TypeOK
  PROVE  id_stage \in IdExLatch /\ Plus(if_id.PC, if_id.IR.imm) \in Word
<1>1. if_id \in IfIdLatch /\ if_id.IR \in Instr
  BY DEF TypeOK, IfIdLatch
<1>2. decode(if_id.IR) \in Control
  BY <1>1, DecodeType
<1>3. id_stage \in IdExLatch
  BY <1>1, <1>2 DEF TypeOK, id_stage, IfIdLatch, IdExLatch, Instr
<1>4. if_id.PC \in Int /\ if_id.IR.imm \in Int
  BY <1>1 DEF IfIdLatch, Instr, Word
<1>5. QED
  BY <1>3, <1>4, PlusType

LEMMA FetchesType ==
  ASSUME TypeOK, NEW outcome, Fetches(outcome)
  PROVE  FetchAddress \in Word /\ counter' \in [i : Int, r : Int, w : Int] /\ mar_i' \in Word
<1>1. FetchAddress \in Word
  BY DEF TypeOK, FetchAddress
<1>2. PICK lat \in Answers(counter.i, FetchLatency(prog)) :
        /\ counter' = [counter EXCEPT !.i = Attempt(counter.i, lat).counter]
        /\ mar_i' = FetchAddress
  BY DEF Fetches
<1>3. lat \in Int /\ counter.i \in Int
  BY LatencyAssumption DEF Answers, TypeOK
<1>4. Attempt(counter.i, lat).counter \in Int
  BY <1>3, AttemptType
<1>5. QED
  BY <1>1, <1>2, <1>4 DEF TypeOK

LEMMA FetchType ==
  ASSUME TypeOK, FetchCompletes \/ FetchPending
  PROVE  /\ counter' \in [i : Int, r : Int, w : Int]
         /\ mar_i' \in Word /\ pc' \in Word
         /\ mfc_i' \in {"COMPLETED", "NOT_COMPLETED"}
         /\ if_id' \in IfIdLatch
<1>1. CASE FetchCompletes
  <2>1. FetchAddress \in Nat /\ pc \in Nat /\ pc \in Word
    BY <1>1, FetchesType, WordFacts DEF FetchCompletes, TypeOK
  <2>2. TextWord(prog, FetchAddress) \in Instr /\ TextWord(prog, pc) \in Instr
    BY <2>1, TextWordType DEF TypeOK
  <2>3. Plus(pc, 4) \in Word
    BY <2>1, PlusType
  <2>4. TextWord(prog, pc).op \in Text
    BY <2>2 DEF Instr, Text
  <2>5. QED
    BY <1>1, <2>1, <2>2, <2>3, <2>4, FetchesType DEF FetchCompletes, IfIdLatch
<1>2. CASE FetchPending
  BY <1>2, FetchesType, BubbleTypes DEF FetchPending, TypeOK
<1>3. QED
  BY <1>1, <1>2

LEMMA AccessType ==
  ASSUME TypeOK, NEW outcome, Accesses(outcome)
  PROVE  counter' \in [i : Int, r : Int, w : Int]
<1> DEFINE port == IF ex_ma.mem = "read" THEN "r" ELSE "w"
<1>1. PICK lat \in Answers(counter[port], DataLatency(prog)) :
        counter' = [counter EXCEPT ![port] = Attempt(counter[port], lat).counter]
  BY DEF Accesses
<1>2. lat \in Int /\ counter[port] \in Int
  BY LatencyAssumption DEF Answers, TypeOK
<1>3. Attempt(counter[port], lat).counter \in Int
  BY <1>2, AttemptType
<1>4. QED
  BY <1>1, <1>3 DEF TypeOK

----------------------------------------------------------------------------
(* Type correctness. *)

LEMMA InitType == Init => TypeOK
<1> SUFFICES ASSUME Init PROVE TypeOK
  OBVIOUS
<1>1. dram \in [DataAddr -> Word]
  BY LoaderAssumption DEF Init
<1>2. QED
  BY <1>1, BubbleTypes, WordFacts DEF Init, TypeOK, Bit

LEMMA MemoryStageType ==
  ASSUME TypeOK,
         MaIdle \/ MaFlush \/ MaLoad \/ MaStore \/ MaFault \/ MaStall \/ MaRefused
  PROVE  TypeOK'
<1> USE DEF Runs, config, decoder, iport, history, syscall, NextCycle
<1>1. \A value \in Word : MaWb(value) \in MaWbLatch
  BY DEF TypeOK, MaWb, ExMaLatch, MaWbLatch
<1>2. ex_ma.result \in Word /\ ex_ma.PC_next \in Word
  BY DEF TypeOK, ExMaLatch
<1>3. update_operands => id_ex' \in IdExLatch
  BY DEF TypeOK, update_operands, IdExLatch
<1>4. CASE MaIdle
  BY <1>1, <1>2, <1>4 DEF TypeOK, MaIdle
<1>5. CASE MaFlush
  BY <1>1, <1>2, <1>5, BubbleTypes, WordFacts DEF TypeOK, MaFlush, CancelFetch, reset_decode_flags, Bit
<1>6. CASE MaLoad
  <2>1. LoadWord(prog, dram, ex_ma.result) \in Word
    BY <1>2, <1>6, LoadWordType DEF TypeOK, MaLoad
  <2>2. counter' \in [i : Int, r : Int, w : Int]
    BY <1>6, AccessType DEF MaLoad
  <2>3. QED
    BY <1>1, <1>6, <2>1, <2>2 DEF TypeOK, MaLoad, Accesses
<1>7. CASE MaStore
  <2>1. forward_ma(ex_ma.R2, ex_ma.nrs2) \in Word
    BY ForwardMaType DEF TypeOK, ExMaLatch
  <2>2. counter' \in [i : Int, r : Int, w : Int]
    BY <1>7, AccessType DEF MaStore
  <2>3. QED
    BY <1>1, <1>2, <1>7, <2>1, <2>2 DEF TypeOK, MaStore, Accesses
<1>8. CASE MaFault
  <2>1. counter' \in [i : Int, r : Int, w : Int]
    BY <1>8, AccessType DEF MaFault
  <2>2. QED
    BY <1>8, <2>1 DEF TypeOK, MaFault, Accesses
<1>9. CASE MaStall
  <2>1. counter' \in [i : Int, r : Int, w : Int]
    BY <1>9, AccessType DEF MaStall
  <2>2. QED
    BY <1>3, <1>9, <2>1, BubbleTypes DEF TypeOK, MaStall, Accesses
<1>10. CASE MaRefused
  <2>1. FetchCompletes \/ FetchPending
    BY <1>10 DEF MaRefused
  <2>2. QED
    BY <1>3, <1>10, <2>1, FetchType, BubbleTypes DEF TypeOK, MaRefused, Refused
<1>11. QED
  BY <1>4, <1>5, <1>6, <1>7, <1>8, <1>9, <1>10

LEMMA ExecuteStageType ==
  ASSUME TypeOK, ExBreakpoint \/ ExSystemCall \/ ExDrains \/ ExStall \/ Execute
  PROVE  TypeOK'
<1> USE DEF Runs, config, decoder, iport, history, syscall, NextCycle
<1>1. CASE ExBreakpoint
  BY <1>1, ExStageType, BubbleTypes DEF TypeOK, ExBreakpoint, ExBubble, Bit
<1>2. CASE ExSystemCall
  BY <1>2, ExStageType, BubbleTypes DEF TypeOK, ExSystemCall, ExBubble, Bit
<1>3. CASE ExDrains
  BY <1>3, ExStageType DEF TypeOK, ExDrains, ExPasses
<1>4. CASE ExStall
  <2>1. id_ex' \in IdExLatch
    BY <1>4 DEF TypeOK, ExStall, update_operands, IdExLatch
  <2>2. QED
    BY <1>4, <2>1, BubbleTypes DEF TypeOK, ExStall, ExBubble, Bit
<1>5. CASE Execute
  BY <1>5, ExStageType DEF TypeOK, Execute, ExPasses
<1>6. QED
  BY <1>1, <1>2, <1>3, <1>4, <1>5

LEMMA DecodeStageType ==
  ASSUME TypeOK, Decode \/ DecodeStall \/ FollowPrediction PROVE TypeOK'
<1> USE DEF Runs, config, decoder, iport, history, syscall, NextCycle
<1>1. CASE Decode
  BY <1>1, IdStageType DEF TypeOK, Decode, Bit
<1>2. CASE DecodeStall
  BY <1>2, BubbleTypes DEF TypeOK, DecodeStall
<1>3. CASE FollowPrediction
  BY <1>3, BubbleTypes, WordFacts DEF TypeOK, FollowPrediction, CancelFetch, Bit
<1>4. QED
  BY <1>1, <1>2, <1>3

LEMMA FetchStageType ==
  ASSUME TypeOK, Fetch \/ FetchStall \/ Break \/ SystemCall \/ FetchFaults
  PROVE  TypeOK'
<1> USE DEF Runs, config, decoder, iport, history, syscall, NextCycle, AfterFetch
<1>1. CASE Fetch
  BY <1>1, FetchType DEF TypeOK, Fetch
<1>2. CASE FetchStall
  BY <1>2, FetchType DEF TypeOK, FetchStall
<1>3. CASE Break
  BY <1>3, FetchType DEF TypeOK, Break, Bit
<1>4. CASE SystemCall
  BY <1>4, FetchType DEF TypeOK, SystemCall, Bit
<1>5. CASE FetchFaults
  <2>1. counter' \in [i : Int, r : Int, w : Int] /\ mar_i' \in Word
    BY <1>5, FetchesType DEF FetchFaults
  <2>2. QED
    BY <1>5, <2>1 DEF TypeOK, FetchFaults, Refused
<1>6. QED
  BY <1>1, <1>2, <1>3, <1>4, <1>5

LEMMA NextType == TypeOK /\ [Next]_vars => TypeOK'
<1> SUFFICES ASSUME TypeOK, [Next]_vars PROVE TypeOK'
  OBVIOUS
<1>1. CASE WriteBack
  <2>1. reg_file' \in [Reg -> Word]
    BY <1>1, WriteRegType DEF TypeOK, WriteBack, MaWbLatch
  <2>2. QED
    BY <1>1, <2>1
    DEF TypeOK, WriteBack, Runs, config, decoder, iport, syscall
<1>2. CASE UNCHANGED vars
  BY <1>2 DEF TypeOK, vars, config, decoder, iport, history, syscall
<1>3. QED
  BY <1>1, <1>2, MemoryStageType, ExecuteStageType, DecodeStageType, FetchStageType
  DEF Next, Stopped

(* Every variable keeps the range its C type and its writers give it.      *)
THEOREM TypeCorrect == Spec => []TypeOK
  BY InitType, NextType, PTL DEF Spec

----------------------------------------------------------------------------
(* Accesses in flight. *)

LEMMA FetchCounter ==
  ASSUME TypeOK, NEW outcome, Fetches(outcome)
  PROVE  /\ counter'.r = counter.r /\ counter'.w = counter.w
         /\ outcome = "done" => counter'.i = -1
<1>1. PICK lat \in Answers(counter.i, FetchLatency(prog)) :
        /\ Attempt(counter.i, lat).result = outcome
        /\ counter' = [counter EXCEPT !.i = Attempt(counter.i, lat).counter]
  BY DEF Fetches
<1>2. lat \in Int /\ counter.i \in Int
  BY LatencyAssumption DEF Answers, TypeOK
<1>3. outcome = "done" => Attempt(counter.i, lat).counter = -1
  BY <1>1, <1>2, AttemptType
<1>4. QED
  BY <1>1, <1>3 DEF TypeOK

LEMMA AccessCounter ==
  ASSUME TypeOK, NEW outcome, Accesses(outcome)
  PROVE  /\ counter'.i = counter.i
         /\ ex_ma.mem = "read"  => counter'.w = counter.w
         /\ ex_ma.mem = "write" => counter'.r = counter.r
         /\ outcome = "done" /\ ex_ma.mem = "read"  => counter'.r = -1
         /\ outcome = "done" /\ ex_ma.mem = "write" => counter'.w = -1
<1> DEFINE port == IF ex_ma.mem = "read" THEN "r" ELSE "w"
<1>1. PICK lat \in Answers(counter[port], DataLatency(prog)) :
        /\ Attempt(counter[port], lat).result = outcome
        /\ counter' = [counter EXCEPT ![port] = Attempt(counter[port], lat).counter]
  BY DEF Accesses
<1>2. lat \in Int /\ counter[port] \in Int
  BY LatencyAssumption DEF Answers, TypeOK
<1>3. outcome = "done" => Attempt(counter[port], lat).counter = -1
  BY <1>1, <1>2, AttemptType
<1>4. QED
  BY <1>1, <1>3 DEF TypeOK

LEMMA AccessOwnedStep == TypeOK /\ AccessOwned /\ [Next]_vars => AccessOwned'
<1> SUFFICES ASSUME TypeOK, AccessOwned, [Next]_vars PROVE AccessOwned'
  OBVIOUS
<1> USE DEF Runs, iport, NextCycle
<1>1. ex_ma.mem \in {"none", "read", "write"}
  BY DEF TypeOK, ExMaLatch
<1>2. FetchCompletes \/ FetchPending =>
        /\ counter'.r = counter.r /\ counter'.w = counter.w
        /\ counter'.i # -1 => mfc_i' = "NOT_COMPLETED"
  BY FetchCounter DEF FetchCompletes, FetchPending
<1>3. CancelFetch =>
        counter'.r = counter.r /\ counter'.w = counter.w /\ counter'.i = -1
  BY DEF CancelFetch, TypeOK
<1>4. CASE WriteBack
  BY <1>4 DEF WriteBack, AccessOwned
<1>5. CASE MaIdle
  BY <1>5 DEF MaIdle, AccessOwned
<1>6. CASE MaFlush
  BY <1>3, <1>6 DEF MaFlush, AccessOwned
<1>7. CASE MaLoad
  BY <1>7, AccessCounter DEF MaLoad, AccessOwned
<1>8. CASE MaStore
  BY <1>8, AccessCounter DEF MaStore, AccessOwned
<1>9. CASE MaFault
  <2>1. Accesses("done")
    BY <1>9 DEF MaFault
  <2>2. QED
    BY <1>1, <1>9, <2>1, AccessCounter DEF MaFault, AccessOwned
<1>10. CASE MaStall
  <2>1. Accesses("pending")
    BY <1>10 DEF MaStall
  <2>2. ex_ma.mem # "none"
    BY <2>1 DEF Accesses
  <2>3. QED
    BY <1>1, <1>10, <2>1, <2>2, AccessCounter DEF MaStall, AccessOwned
<1>11. CASE MaRefused
  BY <1>2, <1>11 DEF MaRefused, Refused, AccessOwned
<1>12. CASE ExBreakpoint \/ ExSystemCall \/ ExDrains \/ ExStall \/ Execute
  BY <1>12
  DEF ExBreakpoint, ExSystemCall, ExDrains, ExStall, Execute, ExBubble, ExPasses, AccessOwned
<1>13. CASE Decode \/ DecodeStall
  BY <1>13 DEF Decode, DecodeStall, AccessOwned
<1>14. CASE FollowPrediction
  BY <1>3, <1>14 DEF FollowPrediction, AccessOwned
<1>15. CASE Fetch \/ FetchStall \/ Break \/ SystemCall
  BY <1>2, <1>15 DEF Fetch, FetchStall, Break, SystemCall, AfterFetch, AccessOwned
<1>16. CASE FetchFaults
  <2>1. Fetches("done")
    BY <1>16 DEF FetchFaults
  <2>2. QED
    BY <1>16, <2>1, FetchCounter DEF FetchFaults, Refused, AfterFetch, AccessOwned
<1>17. CASE UNCHANGED vars
  BY <1>17 DEF vars, AccessOwned
<1>18. QED
  BY <1>4, <1>5, <1>6, <1>7, <1>8, <1>9, <1>10, <1>11, <1>12, <1>13, <1>14, <1>15, <1>16,
     <1>17
  DEF Next, Stopped

(* A data access in flight belongs to the instruction in EX/MA and to its  *)
(* port, and nothing behind MA runs before it completes.                   *)
THEOREM AccessIsOwned == Spec => []AccessOwned
<1>1. Init => AccessOwned
  BY DEF Init, AccessOwned
<1>2. QED
  BY <1>1, AccessOwnedStep, TypeCorrect, PTL DEF Spec

----------------------------------------------------------------------------
(* The fetch follows pc, and the latches follow the fetch. *)

LEMMA FetchLatches ==
  ASSUME TypeOK, FetchedWord, FetchCompletes \/ FetchPending
  PROVE  /\ mfc_i' = "NOT_COMPLETED" => mar_i' = pc'
         /\ if_id'.ins # Blank => if_id'.IR = TextWord(prog, if_id'.PC)
<1>1. FetchAddress = pc
  BY DEF FetchedWord, FetchAddress, TypeOK
<1>2. CASE FetchCompletes
  BY <1>1, <1>2 DEF FetchCompletes
<1>3. CASE FetchPending
  BY <1>1, <1>3 DEF FetchPending, Fetches, NoIfId
<1>4. QED
  BY <1>2, <1>3

(* What the decoder makes of an instruction depends on the configuration   *)
(* only.                                                                   *)
LEMMA DecodeStable ==
  ASSUME UNCHANGED config, NEW ir PROVE (decode(ir))' = decode(ir)
  BY DEF config, decode, predict, predict_based_on_offset

LEMMA FetchedWordStep == TypeOK /\ FetchedWord /\ [Next]_vars => FetchedWord'
<1> SUFFICES ASSUME TypeOK, FetchedWord, [Next]_vars PROVE FetchedWord'
  OBVIOUS
<1> DEFINE PortOK == mfc_i = "NOT_COMPLETED" => mar_i = pc
           IfIdOK == if_id.ins # Blank => if_id.IR = TextWord(prog, if_id.PC)
           Matches(latch) ==
             LET ir == TextWord(prog, latch.PC)
             IN  /\ latch.cs = decode(ir) /\ latch.imm = ir.imm /\ latch.nrd = ir.rd
                 /\ latch.nrs1 = ir.rs1 /\ latch.nrs2 = ir.rs2
           IdExOK == id_ex.ins # Blank => Matches(id_ex)
<1>1. FetchedWord <=> PortOK /\ IfIdOK /\ IdExOK
  BY DEF FetchedWord
<1>2. FetchedWord' <=> PortOK' /\ IfIdOK' /\ IdExOK'
  BY DEF FetchedWord
<1>3. UNCHANGED config
  BY DEF Next, vars, Runs, Stopped, WriteBack, MaIdle, MaFlush, MaLoad, MaStore, MaFault,
         MaStall, MaRefused, Accesses, Refused, ExBreakpoint, ExSystemCall, ExDrains, ExStall,
         Execute, Decode, DecodeStall, FollowPrediction, Fetch, FetchStall, Break, SystemCall,
         FetchFaults
<1>4. prog' = prog
  BY <1>3 DEF config
<1>5. CancelFetch => PortOK'
  BY DEF CancelFetch
<1>6. if_id' = NoIfId => IfIdOK'
  BY DEF NoIfId
<1>7. id_ex' = NoIdEx => IdExOK'
  BY DEF NoIdEx
<1>8. FetchCompletes \/ FetchPending => PortOK' /\ IfIdOK'
  BY <1>4, FetchLatches
<1>9. UNCHANGED <<iport, pc>> => PortOK'
  BY <1>1 DEF iport
<1>10. UNCHANGED if_id => IfIdOK'
  BY <1>1, <1>4
<1>11. UNCHANGED id_ex => IdExOK'
  BY <1>1, <1>3, <1>4, DecodeStable
<1>12. update_operands => IdExOK'
  <2>1. ASSUME update_operands
        PROVE  /\ id_ex'.ins = id_ex.ins /\ id_ex'.PC = id_ex.PC /\ id_ex'.cs = id_ex.cs
               /\ id_ex'.imm = id_ex.imm /\ id_ex'.nrd = id_ex.nrd
               /\ id_ex'.nrs1 = id_ex.nrs1 /\ id_ex'.nrs2 = id_ex.nrs2
    BY <2>1 DEF update_operands, TypeOK, IdExLatch
  <2>2. QED
    BY <1>1, <1>3, <1>4, <2>1, DecodeStable
<1>13. id_ex' = id_stage => IdExOK'
  BY <1>1, <1>3, <1>4, DecodeStable DEF id_stage
<1>14. CASE WriteBack \/ MaIdle \/ MaLoad \/ MaStore \/ MaFault
  BY <1>2, <1>9, <1>10, <1>11, <1>14 DEF WriteBack, MaIdle, MaLoad, MaStore, MaFault
<1>15. CASE MaFlush
  BY <1>2, <1>5, <1>6, <1>7, <1>15 DEF MaFlush
<1>16. CASE MaStall
  BY <1>2, <1>9, <1>10, <1>12, <1>16 DEF MaStall
<1>17. CASE MaRefused
  BY <1>2, <1>8, <1>12, <1>17 DEF MaRefused
<1>18. CASE ExBreakpoint \/ ExSystemCall \/ ExDrains \/ Execute
  BY <1>2, <1>9, <1>10, <1>11, <1>18
  DEF ExBreakpoint, ExSystemCall, ExDrains, Execute, ExBubble, ExPasses
<1>19. CASE ExStall
  BY <1>2, <1>9, <1>10, <1>12, <1>19 DEF ExStall, ExBubble
<1>20. CASE Decode
  BY <1>2, <1>9, <1>10, <1>13, <1>20 DEF Decode
<1>21. CASE DecodeStall
  BY <1>2, <1>7, <1>9, <1>10, <1>21 DEF DecodeStall
<1>22. CASE FollowPrediction
  BY <1>2, <1>5, <1>6, <1>7, <1>22 DEF FollowPrediction
<1>23. CASE Fetch \/ FetchStall \/ Break \/ SystemCall
  BY <1>2, <1>8, <1>11, <1>23 DEF Fetch, FetchStall, Break, SystemCall, AfterFetch
<1>24. CASE FetchFaults
  <2>1. mar_i' = FetchAddress
    BY <1>24 DEF FetchFaults, Fetches
  <2>2. PortOK'
    BY <1>1, <1>24, <2>1 DEF FetchFaults, FetchAddress
  <2>3. QED
    BY <1>2, <1>10, <1>11, <1>24, <2>2 DEF FetchFaults, AfterFetch
<1>25. CASE UNCHANGED vars
  BY <1>2, <1>9, <1>10, <1>11, <1>25 DEF vars
<1>26. QED
  BY <1>14, <1>15, <1>16, <1>17, <1>18, <1>19, <1>20, <1>21, <1>22, <1>23, <1>24, <1>25
  DEF Next, Stopped

(* Whatever flushes, predictions and latencies do, the word latched with   *)
(* an address is the word at that address, and ID/EX carries what the      *)
(* decoder makes of it.                                                    *)
THEOREM WordIsFetched == Spec => []FetchedWord
<1>1. Init => FetchedWord
  BY DEF Init, FetchedWord, NoIfId, NoIdEx
<1>2. QED
  BY <1>1, FetchedWordStep, TypeCorrect, PTL DEF Spec

----------------------------------------------------------------------------
(* The redirection of a predicted-taken branch. *)

(* The decoder gives only conditional branches jump_or_branch 2, so what   *)
(* waits in ID/EX under that flag is no system call and EX computes its    *)
(* target.                                                                 *)
BranchControl ==
  id_ex.cs.jump_or_branch = 2 => id_ex.cs.system = 0 /\ id_ex.cs.alu \in {"beq", "bne"}

LEMMA BranchDecodes ==
  ASSUME NEW ir \in Instr, decode(ir).jump_or_branch = 2
  PROVE  decode(ir).system = 0 /\ decode(ir).alu \in {"beq", "bne"}
  BY DEF decode

LEMMA BranchControlStep == TypeOK /\ BranchControl /\ [Next]_vars => BranchControl'
<1> SUFFICES ASSUME TypeOK, BranchControl, [Next]_vars PROVE BranchControl'
  OBVIOUS
<1>1. id_ex' = NoIdEx => BranchControl'
  BY DEF NoIdEx, NoControl, BranchControl
<1>2. update_operands => BranchControl'
  BY DEF update_operands, TypeOK, IdExLatch, BranchControl
<1>3. UNCHANGED id_ex => BranchControl'
  BY DEF BranchControl
<1>4. id_ex' = id_stage => BranchControl'
  <2>1. if_id.IR \in Instr
    BY DEF TypeOK, IfIdLatch
  <2>2. QED
    BY <2>1, BranchDecodes DEF id_stage, BranchControl
<1>5. id_ex' = NoIdEx \/ update_operands \/ UNCHANGED id_ex \/ id_ex' = id_stage
  BY DEF Next, vars, Stopped, WriteBack, MaIdle, MaFlush, MaLoad, MaStore, MaFault, MaStall,
         MaRefused, ExBreakpoint, ExSystemCall, ExDrains, ExStall, Execute, ExBubble, ExPasses,
         Decode, DecodeStall, FollowPrediction, Fetch, FetchStall, Break, SystemCall,
         FetchFaults, AfterFetch
<1>6. QED
  BY <1>1, <1>2, <1>3, <1>4, <1>5

LEMMA RedirectPendingStep ==
  TypeOK /\ BranchControl /\ RedirectPending /\ [Next]_vars => RedirectPending'
<1> SUFFICES ASSUME TypeOK, BranchControl, RedirectPending, [Next]_vars PROVE RedirectPending'
  OBVIOUS
<1> USE DEF Runs, decoder, NextCycle
<1>1. change_pc' = 0 => RedirectPending'
  BY DEF RedirectPending
<1>2. ASSUME update_operands
      PROVE  id_ex'.cs = id_ex.cs /\ id_ex'.PC = id_ex.PC /\ id_ex'.imm = id_ex.imm
  BY <1>2 DEF update_operands, TypeOK, IdExLatch
<1>3. ASSUME stage # "ID", stage' # "ID", UNCHANGED decoder, UNCHANGED id_ex \/ update_operands
      PROVE  RedirectPending'
  BY <1>2, <1>3 DEF RedirectPending
<1>4. CASE WriteBack \/ MaIdle \/ MaLoad \/ MaStore
  BY <1>3, <1>4 DEF WriteBack, MaIdle, MaLoad, MaStore, Accesses
<1>5. CASE MaFault
  BY <1>3, <1>5 DEF MaFault, Accesses
<1>6. CASE MaFlush
  BY <1>1, <1>6 DEF MaFlush, reset_decode_flags
<1>7. CASE MaStall
  BY <1>3, <1>7 DEF MaStall, Accesses
<1>8. CASE MaRefused
  BY <1>3, <1>8 DEF MaRefused, Refused
<1>9. CASE ExBreakpoint \/ ExSystemCall \/ ExStall
  BY <1>3, <1>9 DEF ExBreakpoint, ExSystemCall, ExStall, ExBubble
<1>10. CASE ExDrains \/ Execute
  <2>1. /\ stage = "EX" /\ stage' = "ID" /\ ex_ma' = ex_stage
        /\ change_pc' = change_pc /\ jump_pc' = jump_pc
    BY <1>10 DEF ExDrains, Execute, ExPasses
  <2>2. ASSUME change_pc = 1
        PROVE  /\ ex_stage.jump_or_branch = 2 /\ ex_stage.predicted = 1
               /\ ex_stage.PC_next = jump_pc
    <3>1. /\ id_ex.cs.jump_or_branch = 2 /\ id_ex.cs.predicted = 1
          /\ jump_pc = Plus(id_ex.PC, id_ex.imm)
      BY <2>1, <2>2 DEF RedirectPending
    <3>2. id_ex.cs.system = 0 /\ id_ex.cs.alu \in {"beq", "bne"}
      BY <3>1 DEF BranchControl
    <3>3. QED
      BY <3>1, <3>2 DEF ex_stage, TargetPC
  <2>3. QED
    BY <2>1, <2>2 DEF RedirectPending
<1>11. CASE Decode
  <2>1. /\ stage' = "IF" /\ id_ex' = id_stage
        /\ change_pc' = IF PredictsTaken THEN 1 ELSE 0
        /\ PredictsTaken => jump_pc' = Plus(if_id.PC, if_id.IR.imm)
    BY <1>11 DEF Decode
  <2>2. id_stage.PC = if_id.PC /\ id_stage.imm = if_id.IR.imm
    BY DEF id_stage
  <2>3. QED
    BY <2>1, <2>2 DEF RedirectPending, PredictsTaken
<1>12. CASE DecodeStall
  BY <1>1, <1>12 DEF DecodeStall
<1>13. CASE FollowPrediction
  BY <1>1, <1>13 DEF FollowPrediction
<1>14. CASE Fetch \/ FetchStall \/ Break \/ SystemCall
  BY <1>3, <1>14 DEF Fetch, FetchStall, Break, SystemCall, AfterFetch
<1>15. CASE FetchFaults
  BY <1>3, <1>15 DEF FetchFaults, Refused, AfterFetch
<1>16. CASE UNCHANGED vars
  BY <1>16 DEF vars, RedirectPending
<1>17. QED
  BY <1>4, <1>5, <1>6, <1>7, <1>8, <1>9, <1>10, <1>11, <1>12, <1>13, <1>14, <1>15, <1>16
  DEF Next, Stopped

(* A redirection waits only for a branch predicted taken that is right     *)
(* behind MA, and leads to that branch's own target.                       *)
THEOREM RedirectIsPending == Spec => []RedirectPending
<1>1. Init => BranchControl /\ RedirectPending
  BY DEF Init, BranchControl, RedirectPending, NoIdEx, NoControl
<1>2. QED
  BY <1>1, BranchControlStep, RedirectPendingStep, TypeCorrect, PTL DEF Spec

----------------------------------------------------------------------------
(* An ebreak or ecall in the machine. *)

Draining == pause_counter = 0 \/ trap_counter = 0

(* A latch whose instruction changes nothing, and needs no operand. *)
Quiet(latch) ==
  /\ latch.ins = Blank
  /\ latch.cs.system = 0 /\ latch.cs.mem = "none"
  /\ latch.cs.jump_or_branch = 0 /\ latch.cs.wb = 0
  /\ latch.cs.source1 = "rs1" => latch.nrs1 = 0
  /\ latch.cs.source2 = "rs2" => latch.nrs2 = 0

QuietMa(latch) == latch.wb = 0 /\ latch.mem = "none" /\ latch.jump_or_branch = 0

Fetched == if_id # NoIfId

CallWaits == id_ex.cs.system # 0

(* The text that goes along with an instruction names it. *)
TextNames ==
  /\ Fetched => if_id.ins = if_id.IR.op
  /\ id_ex.cs.system = 1 => id_ex.ins = "EBREAK"
  /\ id_ex.cs.system = 2 => id_ex.ins = "ECALL"

(* A flag is up only while its call, or an ebreak before it, drains; when  *)
(* it is down the call itself is in ID/EX, and nothing in front of it.     *)
FlagsFollowCalls ==
  /\ PAUSE = 1 => pause_counter = 0
  /\ TRAP = 1 => Draining
  /\ pause_counter = 0 /\ PAUSE = 0
       => stage \in {"WB", "MA", "EX"} /\ id_ex.cs.system = 1 /\ QuietMa(ex_ma)
  /\ trap_counter = 0 /\ TRAP = 0
       => stage \in {"WB", "MA", "EX"} /\ id_ex.cs.system = 2 /\ QuietMa(ex_ma)

(* Of two neighbouring latches behind MA one is a bubble or a call. *)
SpacedOut ==
  /\ stage \in {"WB", "MA"} =>
       Quiet(id_ex) \/ (QuietMa(ex_ma) /\ (~Fetched \/ CallWaits))
  /\ stage = "EX" =>
       Quiet(id_ex) \/ (QuietMa(ex_ma) /\ ma_wb.wb = 0 /\ (~Fetched \/ CallWaits))
  /\ stage = "ID" => ~Fetched \/ (QuietMa(ex_ma) /\ id_ex.ins \in {"ECALL", "EBREAK", Blank})
  /\ stage = "IF" => Quiet(id_ex) \/ QuietMa(ex_ma)

DrainInv ==
  /\ FORWARDING_STALL = 0 /\ TextNames
  /\ status = "running" => FlagsFollowCalls /\ (Draining => SpacedOut)

----------------------------------------------------------------------------
(* What an empty latch becomes. *)

LEMMA BubblesAreQuiet ==
  /\ Quiet(NoIdEx) /\ QuietMa(NoExMa) /\ NoMaWb.wb = 0
  BY DEF Quiet, QuietMa, NoIdEx, NoExMa, NoMaWb, NoControl

LEMMA NothingFetchedIsQuiet ==
  ASSUME ~Fetched PROVE Quiet(id_stage)
  BY DEF Fetched, Quiet, id_stage, decode, NoIfId, NoInstr

LEMMA QuietExecutes ==
  ASSUME TypeOK, Quiet(id_ex) PROVE QuietMa(ex_stage)
  BY DEF Quiet, QuietMa, ex_stage

LEMMA CallExecutes ==
  ASSUME TypeOK, CallWaits, QuietMa(ex_ma) PROVE QuietMa(ex_stage)
<1>1. ex_stage = [ex_ma EXCEPT !.ins = id_ex.ins]
  BY DEF CallWaits, ex_stage
<1>2. QED
  BY <1>1 DEF TypeOK, ExMaLatch, QuietMa

LEMMA OperandsKeepQuiet ==
  ASSUME TypeOK, update_operands
  PROVE  /\ id_ex'.ins = id_ex.ins /\ id_ex'.cs = id_ex.cs
         /\ id_ex'.nrs1 = id_ex.nrs1 /\ id_ex'.nrs2 = id_ex.nrs2
  BY DEF update_operands, TypeOK, IdExLatch

(* A bubble asks for no stall, and nothing does with empty latches ahead.  *)
LEMMA NoStall ==
  ASSUME TypeOK, FORWARDING_STALL = 0,
         CallWaits \/ Quiet(id_ex) \/ (QuietMa(ex_ma) /\ ma_wb.wb = 0)
  PROVE  StallRaised = 0
<1>1. CASE CallWaits
  BY <1>1 DEF CallWaits, StallRaised
<1>2. \A v, r : r = 0 \/ (QuietMa(ex_ma) /\ ma_wb.wb = 0) => forward_ex(v, r).stall = 0
  BY DEF forward_ex, Pending, QuietMa
<1>3. CASE Quiet(id_ex) \/ (QuietMa(ex_ma) /\ ma_wb.wb = 0)
  <2>1. id_ex.cs \in Control
    BY DEF TypeOK, IdExLatch
  <2>2. Operand1.stall = 0
    BY <1>2, <1>3, <2>1 DEF Operand1, Quiet
  <2>3. Operand2.stall = 0
    BY <1>2, <1>3, <2>1 DEF Operand2, Quiet
  <2>4. StoreData.stall = 0
    BY <1>2, <1>3, <2>1 DEF StoreData, Quiet
  <2>5. QED
    BY <2>2, <2>3, <2>4 DEF StallRaised
<1>4. QED
  BY <1>1, <1>3

----------------------------------------------------------------------------
(* The text. *)

LEMMA TextNamesStep == TypeOK /\ FetchedWord /\ TextNames /\ [Next]_vars => TextNames'
<1> SUFFICES ASSUME TypeOK, FetchedWord, TextNames, [Next]_vars PROVE TextNames'
  OBVIOUS
<1> DEFINE IfIdOK == Fetched => if_id.ins = if_id.IR.op
           IdExOK == /\ id_ex.cs.system = 1 => id_ex.ins = "EBREAK"
                     /\ id_ex.cs.system = 2 => id_ex.ins = "ECALL"
<1>1. TextNames => IfIdOK /\ IdExOK
  BY DEF TextNames
<1>2. IfIdOK' /\ IdExOK' => TextNames'
  BY DEF TextNames, Fetched
<1>3. if_id' = NoIfId \/ UNCHANGED if_id \/ FetchCompletes
  BY DEF Next, vars, Stopped, WriteBack, MaIdle, MaFlush, MaLoad, MaStore, MaFault, MaStall,
         MaRefused, ExBreakpoint, ExSystemCall, ExDrains, ExStall, Execute, ExBubble, ExPasses,
         Decode, DecodeStall, FollowPrediction, Fetch, FetchStall, Break, SystemCall,
         FetchFaults, FetchPending
<1>4. IfIdOK'
  <2>1. CASE FetchCompletes
    <3>1. FetchAddress = pc
      BY DEF FetchedWord, FetchAddress, TypeOK
    <3>2. QED
      BY <2>1, <3>1 DEF FetchCompletes
  <2>2. QED
    BY <1>1, <1>3, <2>1 DEF Fetched
<1>5. id_ex' = NoIdEx \/ update_operands \/ UNCHANGED id_ex \/ id_ex' = id_stage
  BY DEF Next, vars, Stopped, WriteBack, MaIdle, MaFlush, MaLoad, MaStore, MaFault, MaStall,
         MaRefused, ExBreakpoint, ExSystemCall, ExDrains, ExStall, Execute, ExBubble, ExPasses,
         Decode, DecodeStall, FollowPrediction, Fetch, FetchStall, Break, SystemCall,
         FetchFaults, AfterFetch
<1>6. IdExOK'
  <2>1. CASE id_ex' = NoIdEx
    BY <2>1 DEF NoIdEx, NoControl
  <2>2. CASE update_operands
    BY <1>1, <2>2, OperandsKeepQuiet
  <2>3. CASE id_ex' = id_stage
    <3>1. CASE Fetched
      BY <1>1, <2>3, <3>1 DEF id_stage, decode
    <3>2. CASE ~Fetched
      BY <2>3, <3>2, NothingFetchedIsQuiet DEF Quiet
    <3>3. QED
      BY <3>1, <3>2
  <2>4. QED
    BY <1>1, <1>5, <2>1, <2>2, <2>3
<1>7. QED
  BY <1>2, <1>4, <1>6

----------------------------------------------------------------------------
(* The invariant, stage by stage. *)

LEMMA DrainMemoryStage ==
  ASSUME TypeOK, DrainInv, TextNames',
         MaIdle \/ MaFlush \/ MaLoad \/ MaStore \/ MaFault \/ MaStall \/ MaRefused
  PROVE  DrainInv'
<1> USE DEF Runs, syscall, NextCycle
<1>1. status = "running" /\ stage = "MA"
  BY DEF MaIdle, MaFlush, MaLoad, MaStore, MaFault, MaStall, MaRefused, Accesses, Refused
<1>2. UNCHANGED <<syscall, FORWARDING_STALL>>
  BY DEF MaIdle, MaFlush, MaLoad, MaStore, MaFault, MaStall, MaRefused
<1>3. FlagsFollowCalls /\ (Draining => SpacedOut) /\ FORWARDING_STALL = 0
  BY <1>1 DEF DrainInv
<1>4. CASE MaIdle
  <2>1. /\ UNCHANGED <<if_id, id_ex, ex_ma>> /\ stage' = "EX"
        /\ ma_wb'.wb = ex_ma.wb
    BY <1>4 DEF MaIdle, MaWb
  <2>2. QED
    BY <1>1, <1>2, <1>3, <2>1
    DEF DrainInv, FlagsFollowCalls, SpacedOut, Draining, Quiet, QuietMa, Fetched, CallWaits
<1>5. ASSUME ~QuietMa(ex_ma), stage' \in {"EX", "WB"}, Quiet(id_ex) => Quiet(id_ex')
      PROVE  DrainInv'
  <2>1. ~(pause_counter = 0 /\ PAUSE = 0) /\ ~(trap_counter = 0 /\ TRAP = 0)
    BY <1>3, <1>5 DEF FlagsFollowCalls
  <2>2. FlagsFollowCalls'
    BY <1>2, <1>3, <2>1 DEF FlagsFollowCalls, Draining
  <2>3. Draining => Quiet(id_ex)
    BY <1>1, <1>3, <1>5 DEF SpacedOut
  <2>4. Draining' => SpacedOut'
    BY <1>2, <1>5, <2>3 DEF Draining, SpacedOut, Quiet
  <2>5. QED
    BY <1>2, <1>3, <2>2, <2>4 DEF DrainInv
<1>6. CASE MaFlush
  <2>1. ~QuietMa(ex_ma)
    BY <1>6 DEF MaFlush, Redirects, Mispredicted, QuietMa
  <2>2. QED
    BY <1>5, <1>6, <2>1, BubblesAreQuiet DEF MaFlush
<1>7. CASE MaLoad \/ MaStore
  <2>1. ~QuietMa(ex_ma)
    BY <1>7 DEF MaLoad, MaStore, QuietMa
  <2>2. QED
    BY <1>5, <1>7, <2>1 DEF MaLoad, MaStore, Quiet
<1>8. CASE MaFault
  BY <1>2, <1>3, <1>8 DEF MaFault, DrainInv
<1>9. CASE MaStall \/ MaRefused
  <2>1. ~QuietMa(ex_ma) /\ stage' = "WB" /\ update_operands
    BY <1>9 DEF MaStall, MaRefused, Accesses, Refused, QuietMa
  <2>2. Quiet(id_ex) => Quiet(id_ex')
    BY <2>1, OperandsKeepQuiet DEF Quiet
  <2>3. QED
    BY <1>5, <2>1, <2>2
<1>10. QED
  BY <1>4, <1>6, <1>7, <1>8, <1>9

LEMMA DrainExecuteStage ==
  ASSUME TypeOK, DrainInv, TextNames',
         ExBreakpoint \/ ExSystemCall \/ ExDrains \/ ExStall \/ Execute
  PROVE  DrainInv'
<1> USE DEF Runs, syscall, NextCycle
<1>1. status = "running" /\ stage = "EX" /\ status' = "running"
  BY DEF ExBreakpoint, ExSystemCall, ExDrains, ExStall, Execute, ExBubble, ExPasses
<1>2. FlagsFollowCalls /\ (Draining => SpacedOut) /\ FORWARDING_STALL = 0 /\ TextNames
  BY <1>1 DEF DrainInv
<1>3. /\ PAUSE \in Bit /\ TRAP \in Bit /\ pause_counter \in {-1, 0} /\ trap_counter \in {-1, 0}
      /\ id_ex.cs.system \in 0 .. 2
  BY DEF TypeOK, IdExLatch, Control
<1>4. ExBubble => QuietMa(ex_ma') /\ stage' = "WB" /\ UNCHANGED if_id
  BY BubblesAreQuiet DEF ExBubble
<1>5. CASE ExBreakpoint
  <2>1. id_ex.cs.system = 1 /\ PAUSE = 0
    BY <1>2, <1>3, <1>5 DEF ExBreakpoint, PauseRaised, FlagsFollowCalls, Bit
  <2>2. ~(trap_counter = 0 /\ TRAP = 0)
    BY <1>2, <2>1 DEF FlagsFollowCalls
  <2>3. /\ pause_counter' = 0 /\ PAUSE' = 0 /\ TRAP' = TRAP /\ trap_counter' = trap_counter
        /\ FORWARDING_STALL' = 0 /\ UNCHANGED id_ex
    BY <1>2, <1>5, <2>1 DEF ExBreakpoint, TrapRaised, StallRaised
  <2>4. FlagsFollowCalls'
    BY <1>4, <1>5, <2>1, <2>2, <2>3 DEF ExBreakpoint, FlagsFollowCalls, Draining
  <2>5. SpacedOut'
    BY <1>4, <1>5, <2>1, <2>3 DEF ExBreakpoint, SpacedOut, CallWaits
  <2>6. QED
    BY <2>3, <2>4, <2>5 DEF DrainInv
<1>6. CASE ExSystemCall
  <2>1. PAUSE = 0 /\ id_ex.cs.system # 1 /\ (TRAP = 1 \/ id_ex.cs.system = 2)
    BY <1>3, <1>6 DEF ExSystemCall, PauseRaised, TrapRaised, Bit
  <2>2. pause_counter # 0
    BY <1>2, <2>1 DEF FlagsFollowCalls
  <2>3. id_ex.cs.system = 2
    BY <1>2, <1>6, <2>1, <2>2 DEF ExSystemCall, FlagsFollowCalls, Draining
  <2>4. /\ pause_counter' # 0 /\ PAUSE' = 0 /\ TRAP' = 0 /\ trap_counter' = 0
        /\ FORWARDING_STALL' = 0 /\ UNCHANGED id_ex
    BY <1>2, <1>6, <2>2, <2>3 DEF ExSystemCall, StallRaised
  <2>5. FlagsFollowCalls'
    BY <1>4, <1>6, <2>3, <2>4 DEF ExSystemCall, FlagsFollowCalls
  <2>6. SpacedOut'
    BY <1>4, <1>6, <2>3, <2>4 DEF ExSystemCall, SpacedOut, CallWaits
  <2>7. QED
    BY <2>4, <2>5, <2>6 DEF DrainInv
<1>7. CASE ExDrains
  <2>1. Draining /\ SpacedOut
    BY <1>2, <1>7 DEF ExDrains, PauseDrains, TrapDrains, Draining
  <2>2. /\ ex_ma' = ex_stage /\ stage' = "ID" /\ UNCHANGED <<if_id, id_ex>>
        /\ PAUSE' = PauseRaised /\ TRAP' = TrapRaised /\ FORWARDING_STALL' = StallRaised
        /\ UNCHANGED <<pause_counter, trap_counter>>
    BY <1>7 DEF ExDrains, ExPasses
  <2>3. Quiet(id_ex) \/ (QuietMa(ex_ma) /\ ma_wb.wb = 0 /\ (~Fetched \/ CallWaits))
    BY <1>1, <2>1 DEF SpacedOut
  <2>4. FORWARDING_STALL' = 0
    BY <1>2, <2>2, <2>3, NoStall
  <2>5. FlagsFollowCalls'
    <3>1. ~(pause_counter = 0 /\ PauseRaised = 0) /\ ~(trap_counter = 0 /\ TrapRaised = 0)
      BY <1>2, <1>3 DEF FlagsFollowCalls, PauseRaised, TrapRaised, Bit
    <3>2. PauseRaised = 1 => pause_counter = 0
      BY <1>7 DEF ExDrains, PauseDrains, TrapDrains
    <3>3. QED
      BY <2>1, <2>2, <3>1, <3>2 DEF FlagsFollowCalls, Draining
  <2>6. ~Fetched \/ (QuietMa(ex_stage) /\ id_ex.ins \in {"ECALL", "EBREAK", Blank})
    <3>1. CASE Quiet(id_ex)
      BY <3>1, QuietExecutes DEF Quiet
    <3>2. CASE QuietMa(ex_ma) /\ CallWaits
      BY <1>2, <1>3, <3>2, CallExecutes DEF CallWaits, TextNames
    <3>3. QED
      BY <2>3, <3>1, <3>2
  <2>7. SpacedOut'
    BY <2>2, <2>6 DEF SpacedOut, Fetched, QuietMa
  <2>8. QED
    BY <2>4, <2>5, <2>7 DEF DrainInv
<1>8. CASE ExStall \/ Execute
  <2>1. PauseRaised = 0 /\ TrapRaised = 0
    BY <1>8 DEF ExStall, Execute
  <2>2. PAUSE = 0 /\ TRAP = 0 /\ id_ex.cs.system = 0
    BY <1>3, <2>1 DEF PauseRaised, TrapRaised, Bit
  <2>3. ~Draining
    BY <1>2, <2>2 DEF FlagsFollowCalls, Draining
  <2>4. /\ UNCHANGED <<pause_counter, trap_counter>> /\ PAUSE' = 0 /\ TRAP' = 0
        /\ FORWARDING_STALL' = 0
    BY <1>8, <2>1, <2>2 DEF ExStall, Execute, ExPasses
  <2>5. QED
    BY <2>3, <2>4 DEF DrainInv, FlagsFollowCalls, Draining
<1>9. QED
  BY <1>5, <1>6, <1>7, <1>8

LEMMA DrainDecodeStage ==
  ASSUME TypeOK, DrainInv, TextNames', Decode \/ DecodeStall \/ FollowPrediction
  PROVE  DrainInv'
<1> USE DEF Runs, syscall, NextCycle
<1>1. /\ status = "running" /\ stage = "ID"
      /\ UNCHANGED <<syscall, FORWARDING_STALL, ex_ma>>
      /\ stage' = "IF" \/ (stage' = "WB" /\ id_ex' = NoIdEx)
      /\ id_ex' = NoIdEx \/ id_ex' = id_stage
  BY DEF Decode, DecodeStall, FollowPrediction
<1>2. FlagsFollowCalls /\ (Draining => SpacedOut) /\ FORWARDING_STALL = 0
  BY <1>1 DEF DrainInv
<1>3. FlagsFollowCalls'
  BY <1>1, <1>2 DEF FlagsFollowCalls, Draining
<1>4. ASSUME Draining PROVE Quiet(id_ex') \/ QuietMa(ex_ma')
  BY <1>1, <1>2, <1>4, BubblesAreQuiet, NothingFetchedIsQuiet DEF SpacedOut
<1>5. Draining' => SpacedOut'
  BY <1>1, <1>4, BubblesAreQuiet DEF Draining, SpacedOut
<1>6. QED
  BY <1>1, <1>2, <1>3, <1>5 DEF DrainInv

LEMMA DrainFetchStage ==
  ASSUME TypeOK, DrainInv, TextNames', Fetch \/ FetchStall \/ Break \/ SystemCall \/ FetchFaults
  PROVE  DrainInv'
<1> USE DEF Runs, syscall, NextCycle, AfterFetch
<1>1. status = "running" /\ FlagsFollowCalls /\ (Draining => SpacedOut) /\ FORWARDING_STALL = 0
  BY DEF Fetch, FetchStall, Break, SystemCall, FetchFaults, Refused, DrainInv
<1>2. FORWARDING_STALL' = 0
  BY <1>1 DEF Fetch, FetchStall, Break, SystemCall, FetchFaults
<1>3. stage = "IF" =>
        ~(pause_counter = 0 /\ PAUSE = 0) /\ ~(trap_counter = 0 /\ TRAP = 0)
  BY <1>1 DEF FlagsFollowCalls
<1>4. CASE Fetch
  <2>1. ~Draining /\ PAUSE = 0 /\ TRAP = 0
    BY <1>3, <1>4 DEF Fetch, Draining
  <2>2. QED
    BY <1>2, <1>4, <2>1 DEF Fetch, DrainInv, FlagsFollowCalls, Draining
<1>5. CASE FetchStall
  <2>1. UNCHANGED <<syscall, id_ex, ex_ma>> /\ ~Fetched' /\ stage = "IF" /\ stage' = "WB"
    BY <1>5 DEF FetchStall, FetchPending, Fetched
  <2>2. FlagsFollowCalls'
    BY <1>1, <1>3, <2>1 DEF FlagsFollowCalls, Draining
  <2>3. Draining' => SpacedOut'
    BY <1>1, <2>1 DEF Draining, SpacedOut, Quiet, QuietMa
  <2>4. QED
    BY <1>2, <2>2, <2>3 DEF DrainInv
<1>6. CASE Break \/ FetchFaults
  BY <1>2, <1>6 DEF Break, FetchFaults, DrainInv
<1>7. CASE SystemCall
  <2>1. PAUSE = 0 /\ PAUSE' = 0 /\ TRAP' = 0 /\ trap_counter' = -1 /\ pause_counter' = pause_counter
    BY <1>7 DEF SystemCall
  <2>2. pause_counter # 0
    BY <1>3, <1>7, <2>1 DEF SystemCall
  <2>3. QED
    BY <1>2, <2>1, <2>2 DEF DrainInv, FlagsFollowCalls, Draining
<1>8. QED
  BY <1>4, <1>5, <1>6, <1>7

LEMMA DrainStep == TypeOK /\ FetchedWord /\ DrainInv /\ [Next]_vars => DrainInv'
<1> SUFFICES ASSUME TypeOK, FetchedWord, DrainInv, [Next]_vars PROVE DrainInv'
  OBVIOUS
<1>1. TextNames'
  BY TextNamesStep DEF DrainInv
<1>2. CASE WriteBack
  BY <1>1, <1>2
  DEF WriteBack, Runs, syscall, DrainInv, FlagsFollowCalls, SpacedOut, Draining, Quiet, QuietMa,
      Fetched, CallWaits
<1>3. CASE UNCHANGED vars
  BY <1>1, <1>3
  DEF vars, syscall, DrainInv, FlagsFollowCalls, SpacedOut, Draining, Quiet, QuietMa, Fetched,
      CallWaits
<1>4. QED
  BY <1>1, <1>2, <1>3, DrainMemoryStage, DrainExecuteStage, DrainDecodeStage, DrainFetchStage
  DEF Next, Stopped

LEMMA DrainInvariant == Spec => []DrainInv
<1>1. Init => DrainInv
  BY DEF Init, DrainInv, TextNames, FlagsFollowCalls, Draining, Fetched, NoIdEx, NoControl
<1>2. QED
  BY <1>1, DrainStep, TypeCorrect, WordIsFetched, PTL DEF Spec

(* A forwarding conflict stalls in the cycle that finds it: a waiting      *)
(* ebreak or ecall, which simulate() looks at first, never leaves the flag *)
(* to another instruction.                                                 *)
THEOREM StallIsConsumed == Spec => []StallFlagConsumed
<1>1. DrainInv => StallFlagConsumed
  BY DEF DrainInv, StallFlagConsumed
<1>2. QED
  BY <1>1, DrainInvariant, PTL

(* The program ends in IF or in MA, so ID always has a cycle to complete. *)
DecodeRuns == stage = "ID" => status = "running"

LEMMA DecodeIsReached == Spec => []DecodeRuns
<1>1. Init => DecodeRuns
  BY DEF Init, DecodeRuns
<1>2. DecodeRuns /\ [Next]_vars => DecodeRuns'
  BY DEF DecodeRuns, Next, vars, Runs, NextCycle, Stopped, WriteBack, MaIdle, MaFlush, MaLoad,
         MaStore, MaFault, MaStall, MaRefused, Accesses, Refused, ExBreakpoint, ExSystemCall,
         ExDrains, ExStall, Execute, ExBubble, ExPasses, Decode, DecodeStall, FollowPrediction,
         Fetch, FetchStall, Break, SystemCall, FetchFaults
<1>3. QED
  BY <1>1, <1>2, PTL DEF Spec

(* At most one instruction passes a waiting ebreak or ecall into ID.       *)
THEOREM SkidIsOfOne == Spec => []SkidOfOne
<1>1. TypeOK /\ DrainInv /\ DecodeRuns => SkidOfOne
  <2> SUFFICES ASSUME DrainInv, DecodeRuns, PAUSE = 1 \/ TRAP = 1, stage = "ID", if_id.ins # Blank
               PROVE  id_ex.ins \in {"ECALL", "EBREAK", Blank}
    BY DEF SkidOfOne
  <2>1. Draining /\ SpacedOut
    BY DEF DrainInv, DecodeRuns, FlagsFollowCalls, Draining
  <2>2. Fetched
    BY DEF Fetched, NoIfId
  <2>3. QED
    BY <2>1, <2>2 DEF SpacedOut
<1>2. QED
  BY <1>1, DrainInvariant, DecodeIsReached, TypeCorrect, PTL
=============================================================================
