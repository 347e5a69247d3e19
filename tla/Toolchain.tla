----------------------------- MODULE Toolchain -----------------------------
(***************************************************************************)
(* A program on its way from source text to execution: the assembler, the  *)
(* object file, custom_loader.c, and the decoder, ALU and memory lanes     *)
(* working on one of the loaded instructions at a time.  What the pipeline *)
(* does when several are in flight is the subject of module Pipeline.      *)
(***************************************************************************)
EXTENDS Assembler, Datapath, SourceText

CONSTANTS
  TextLimits,      \* values of text_segment_limit
  Operands,        \* values of source registers
  Images,          \* contents of the data memory
  ExecutedSources  \* bound: the sources whose instructions are executed

ASSUME ExecutedAssumption == ExecutedSources \subseteq Sources

VARIABLES
  text_segment_limit,
  text,           \* the DRAM from address 0 up to the last byte loaded
  instructions,   \* the strings shown for the loaded instructions
  data,           \* the data part of the DRAM
  executed        \* the instruction executed: where it is, what it read and did

loader_vars == <<text_segment_limit, text, instructions>>

machine_vars == <<data, executed>>

vars == <<assembler_vars, loader_vars, machine_vars>>

Nothing == [index |-> -1, x |-> 0, y |-> 0, rd |-> 0, imm |-> 0, value |-> -1, pc |-> 0, stop |-> "no"]

Init ==
  /\ AssemblerInit
  /\ text_segment_limit \in TextLimits
  /\ text = <<>> /\ instructions = <<>>
  /\ data \in Images
  /\ executed = Nothing

Others == <<loader_vars, machine_vars>>

----------------------------------------------------------------------------
(* custom_loader_i() *)

StartLoading ==
  /\ phase = "assembled"
  /\ phase' = "load" /\ line' = 1
  /\ UNCHANGED <<source, verbose, instruction_number, address, symbols, object, loader_vars,
                 machine_vars>>

LoadsLine ==
  /\ phase = "load" /\ line <= Len(object)
  /\ line' = line + 1
  /\ UNCHANGED <<source, verbose, instruction_number, address, symbols, object, machine_vars>>

(* Lines without a bracket are passed over. *)
SkipObjectLine ==
  /\ LoadsLine /\ ~object[line].bracket
  /\ UNCHANGED <<phase, loader_vars>>

(* A slip: a bound that lets the word after the segment in. *)
TooLarge_AtTheEnd == Len(text) > text_segment_limit

(* It also refuses the word that ends at the last address of the segment. *)
TooLarge ==
  \/ Len(text) + 3 >= text_segment_limit
  \/ Len(instructions) >= (text_segment_limit + 1) \div 4

Bytes(word) == [n \in 1 .. 4 |-> Shr(word, 8 * (n - 1)) \cap (0 .. 7)]

StoreInstruction ==
  /\ LoadsLine /\ object[line].bracket
  /\ ~TooLarge
  /\ text' = text \o Bytes(object[line].word)
  /\ instructions' = Append(instructions, object[line].text)
  /\ UNCHANGED <<phase, text_segment_limit>>

LoadFails ==
  /\ LoadsLine /\ object[line].bracket
  /\ TooLarge
  /\ phase' = "exit"
  /\ UNCHANGED loader_vars

EndOfObject ==
  /\ phase = "load" /\ line > Len(object)
  /\ phase' = "loaded"
  /\ UNCHANGED <<source, verbose, line, instruction_number, address, symbols, object,
                 loader_vars, machine_vars>>

----------------------------------------------------------------------------
(* Execution *)

(* The fetch: read_memory_i(). *)
FetchedWord(index) ==
  LET b(n) == text[4 * index + n]
  IN  b(1) \cup Shl(b(2), 8) \cup Shl(b(3), 16) \cup Shl(b(4), 24)

(* Every register holds another value; r1 holds x and r2 holds y. *)
RegisterFile(x, y) ==
  [n \in 0 .. 31 |-> IF n = 0 THEN 0
                     ELSE IF n % 2 = 1 THEN (x + n - 1) % Modulus ELSE (y + n - 2) % Modulus]

Stops(reason, pc) == [stop |-> reason, value |-> -1, pc |-> pc, data |-> data]

(* What MA and WB leave behind: the value for the destination register,    *)
(* the next pc and the memory, or the reason why they stop.                *)
MemoryStage(cs, ex, stored, pc) ==
  LET isRead  == cs.mem = 1 /\ cs.rw < 8
      isWrite == cs.mem = 1 /\ cs.rw >= 8
  IN  CASE cs.format = "illegal" -> Stops("exit", pc)
        [] cs.system = 1 -> Stops("ebreak", pc)
        [] cs.system = 2 -> Stops("ecall", pc)
        [] isRead /\ ReadFaults(cs.rw, ex.result) -> Stops("fault", pc)
        [] isWrite /\ StoreFaults(cs.rw - 8, ex.result) -> Stops("fault", pc)
        [] OTHER ->
             [stop  |-> "no",
              value |-> IF cs.wb = 0 THEN -1
                        ELSE IF isRead THEN read_memory(data, cs.rw, ex.result) ELSE ex.result,
              pc    |-> IF ex.taken = 1 THEN ex.PC_next ELSE (pc + 4) % Modulus,
              data  |-> IF isWrite THEN write_memory(data, cs.rw - 8, ex.result, stored) ELSE data]

(* EX with the operands that ID has read. *)
ExecuteStage(cs, ir, pc, regs) ==
  MemoryStage(cs, ex_stage(cs, ImmWord(generate_immediate(cs.format, ir)), pc,
                           regs[Nrs1(ir)], regs[Nrs2(ir)]),
              regs[Nrs2(ir)], pc)

(* The lowest 20 bits of the immediate. *)
Immediate20(ir) == Field(generate_immediate(get_format(Opcode(ir)), ir), 0, 19)

Outcome(ir, pc, regs) == ExecuteStage(decode(ir, 0), ir, pc, regs)

ExecutesOne ==
  /\ phase = "loaded" /\ executed = Nothing /\ source \in ExecutedSources
  /\ \E index \in 0 .. Len(instructions) - 1, x, y \in Operands :
       \E ir \in {FetchedWord(index)} :
         \E o \in {Outcome(ir, (4 * index) % Modulus, RegisterFile(x, y))} :
           /\ executed' = [index |-> index, x |-> x, y |-> y, rd |-> Nrd(ir),
                            imm |-> Immediate20(ir), value |-> o.value, pc |-> o.pc, stop |-> o.stop]
           /\ data' = o.data
  /\ UNCHANGED <<assembler_vars, loader_vars>>

(* The assembler, the loader or the machine has come to its end. *)
Ended ==
  /\ phase \in {"rejected", "exit", "loaded"}
  /\ UNCHANGED vars

Next ==
  \/ SkipLine /\ UNCHANGED Others
  \/ DefineLabel /\ UNCHANGED Others
  \/ CheckInstruction /\ UNCHANGED Others
  \/ Reject /\ UNCHANGED Others
  \/ SecondPass /\ UNCHANGED Others
  \/ PassLabel /\ UNCHANGED Others
  \/ Emit /\ UNCHANGED Others
  \/ Finish /\ UNCHANGED Others
  \/ StartLoading \/ SkipObjectLine \/ StoreInstruction \/ LoadFails \/ EndOfObject
  \/ ExecutesOne
  \/ Ended

Spec == Init /\ [][Next]_vars

----------------------------------------------------------------------------
(* Properties *)

TypeOK ==
  /\ verbose \in BOOLEAN
  /\ phase \in {"check", "generate", "assembled", "rejected", "load", "loaded", "exit"}
  /\ line \in Nat /\ instruction_number \in Nat /\ address \in Nat
  /\ \A i \in DOMAIN symbols : symbols[i] \in symbol_node
  /\ \A i \in DOMAIN object : object[i].bracket \in BOOLEAN /\ object[i].word \subseteq BitPositions
  /\ text_segment_limit \in TextLimits
  /\ \A i \in DOMAIN text : text[i] \subseteq 0 .. 7
  /\ Len(text) = 4 * Len(instructions)
  /\ DOMAIN data = 0 .. DramBytes - 1 /\ \A a \in DOMAIN data : data[a] \in Byte

(* The second pass meets a label where the first pass said it would be:    *)
(* both passes count the same lines as instructions.                       *)
LabelsAgree ==
  phase = "generate" /\ line <= Len(source) /\ Is("label") => get_address(Parsed.tokens[1]) = address

(* A listing goes into memory whole: the string shown for the instruction  *)
(* at address 4 * k is the k-th instruction line of the source, whatever   *)
(* labels, comments and blank lines stand between.                         *)
ListingAligned ==
  phase = "loaded" /\ verbose => instructions = InstructionTexts(source)

(* The loader writes nothing beyond the last address of the text segment,  *)
(* lets no listing through that is larger than the segment, and turns none *)
(* away that ends before that address.  Of a program that ends at it this  *)
(* says nothing: custom_loader.c:76 refuses it, although the limit is the  *)
(* last valid address (memory_configurables.h:1).                          *)
FitsTheSegment ==
  /\ Len(text) <= text_segment_limit + 1
  /\ phase = "loaded" /\ verbose => 4 * Len(InstructionTexts(source)) <= text_segment_limit + 1
  /\ phase = "exit" => 4 * Len(InstructionTexts(source)) > text_segment_limit

(* What the documents of the assembler allow, it does not refuse: lines of *)
(* the right shape, operands in range, labels defined once and close       *)
(* enough.  The code does not keep this for a plus sign.                   *)
AcceptsWhatIsWritten == phase = "rejected" => ~WellWritten(source)

(* What they do not allow, it refuses.  The code does not keep this for a  *)
(* label line without a name.                                              *)
AcceptsNothingElse == phase = "assembled" => WellWritten(source)


----------------------------------------------------------------------------
(* Execution against the meaning of the source line. *)

Rv == INSTANCE Rv32i WITH Width <- WidthOfWord, ByteValues <- 2 ^ ByteBits,
                           UpperImmediate <- UpperShift

Touches(i, x) ==
  IF i.name \in Rv!Loads \cup Rv!Stores
  THEN LET a == (x + i.imm) % Modulus IN a .. a + Rv!Size(i.name) - 1 ELSE {}

Misaligned(i, x) ==
  i.name \in Rv!Loads \cup Rv!Stores /\ ((x + i.imm) % Modulus) % Rv!Size(i.name) # 0

Faults(i, x) ==
  \/ Misaligned(i, x)
  \/ ~(Touches(i, x) \subseteq 0 .. DramBytes - 1)
  \/ i.name \in Rv!Stores /\ Touches(i, x) \cap ReadOnly # {}

(* The result e of an execution is the one the instruction i has for       *)
(* operands x and y.                                                       *)
IsResult(e, means, after) ==
  /\ e.stop = "no"
  /\ e.value = means.value /\ e.pc = means.pc
  /\ after = means.memory

(* The unit masks the amount of a shift, which shares its field with funct7. *)
SameImmediate(i, imm) ==
  IF i.name \in {"slli", "srli", "srai"} THEN imm % 32 = i.imm ELSE imm = i.imm % 2 ^ 20

IsAsMeant(e, i, x, y, before, after) ==
  CASE i.name \in {"ebreak", "ecall"} -> e.stop = i.name
    [] Faults(i, x) -> e.stop = "fault" /\ after = before
    [] OTHER -> /\ IsResult(e, Rv!Meaning(i, 4 * e.index, x, y, before), after)
                /\ e.value # -1 => e.rd = i.rd
                /\ i.rs2 = -1 \/ i.name \notin Rv!Computes => SameImmediate(i, e.imm)

ValueIn(file, register) == IF register = -1 THEN 0 ELSE file[register]

IsAsWritten(e, i, file, before, after) ==
  IsAsMeant(e, i, ValueIn(file, i.rs1), ValueIn(file, i.rs2), before, after)

(* The k-th instruction line, assembled, loaded, fetched, decoded and      *)
(* executed, does what the instruction written there means: the value, the *)
(* register it goes to, the immediate, the next pc and the memory are right, and it stops *)
(* the machine only for ebreak, ecall and an access that is not allowed.   *)
ExecutesItsSource ==
  [][ executed' # executed =>
        IsAsWritten(executed', Written(source, executed'.index),
                    RegisterFile(executed'.x, executed'.y), data, data') ]_vars
=============================================================================
