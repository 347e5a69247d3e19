----------------------------- MODULE Assembler -----------------------------
(***************************************************************************)
(* The two passes of the assembler (main.c), its symbol table and its code *)
(* generation.  A step reads one line of the source; "phase" says in which *)
(* pass, or how the assembler ended.                                       *)
(***************************************************************************)
EXTENDS LineParser

CONSTANT Sources   \* the source files: sequences of lines

VARIABLES
  source,               \* the file, read once in each pass
  verbose,              \* -v: the object file is a listing
  phase,                \* "check", "generate", or "assembled", "rejected"
  line,                 \* the number of the next line
  instruction_number,   \* instructions found by the first pass
  address,              \* of the next instruction of the second pass
  symbols,              \* the symbol table, a list with the newest node first
  object                \* the lines of the object file

assembler_vars == <<source, verbose, phase, line, instruction_number, address, symbols, object>>

ASSUME SourcesAssumption == \A s \in Sources : s \in Seq(Seq(STRING))

----------------------------------------------------------------------------
(* symbol_table.c *)

symbol_node == [name : Seq(STRING), address : Nat]

Defines(name) == \E i \in DOMAIN symbols : symbols[i].name = name

get_address(name) ==
  IF Defines(name)
  THEN symbols[CHOOSE i \in DOMAIN symbols :
                 symbols[i].name = name /\ \A j \in 1 .. i - 1 : symbols[j].name # name].address
  ELSE -1

----------------------------------------------------------------------------
(* opcode_generator.c *)

Offset(token, current) == get_address(token) - current

(* How far a branch and a jump reach. *)
Reach(format) == IF format = "b" THEN -4096 .. 4095 ELSE -1048576 .. 1048575

(* The word for the tokens of an instruction, {} if a label is unknown or  *)
(* too far.                                                                *)
get_opcode(tokens, current) ==
  LET row      == get_i_block(tokens)
      arg(i)   == tokens[i + 1]
      label    == arg(Len(row.operands))
      indexed  == read_a(arg(2))
      reg(i)   == read_r(arg(i))
      number(type, token) == CASE type = "i" -> read_i(token) [] type = "s" -> read_s(token)
  IN  CASE row.operands = <<>>               -> Encode(row, 0, 0, 0, 0)
        [] row.format = "r"                  -> Encode(row, reg(1), reg(2), reg(3), 0)
        [] row.operands = <<"r", "a">> /\ row.format = "i" ->
             Encode(row, reg(1), indexed.reg, 0, indexed.imm)
        [] row.format = "s"                  -> Encode(row, 0, indexed.reg, reg(1), indexed.imm)
        [] row.format = "i" /\ Len(row.operands) = 3 ->
             Encode(row, reg(1), reg(2), 0, number(row.operands[3], arg(3)))
        [] row.format = "u"                  -> Encode(row, reg(1), 0, 0, read_u(arg(2)))
        [] row.format \in {"b", "j"} ->
             IF ~Defines(label) \/ Offset(label, current) \notin Reach(row.format) THEN {}
             ELSE IF row.format = "b" THEN Encode(row, 0, reg(1), reg(2), Offset(label, current))
             ELSE Encode(row, reg(1), 0, 0, Offset(label, current))

----------------------------------------------------------------------------
(* main.c *)

AssemblerInit ==
  /\ source \in Sources
  /\ verbose \in BOOLEAN
  /\ phase = "check" /\ line = 1
  /\ instruction_number = 0 /\ address = 0
  /\ symbols = <<>> /\ object = <<>>

(* The next line is read in a pass. *)
Reads(pass) == phase = pass /\ line <= Len(source) /\ line' = line + 1

Parsed == get_tokens(source[line])

Ignored == is_white(source[line]) \/ Parsed.kind = "comment"

Is(kind) == ~is_white(source[line]) /\ Parsed.kind = kind

SkipLine ==
  /\ Reads("check") \/ Reads("generate")
  /\ Ignored
  /\ UNCHANGED <<source, verbose, phase, instruction_number, address, symbols, object>>

(* A slip: a label that names the instruction before it. *)
LabelAddress_Previous == IF instruction_number = 0 THEN 0 ELSE instruction_number * 4 - 4

(* A label names the instruction that comes next. *)
LabelAddress == instruction_number * 4

DefineLabel ==
  /\ Reads("check") /\ Is("label")
  /\ ~Defines(Parsed.tokens[1])
  /\ symbols' = <<[name |-> Parsed.tokens[1], address |-> LabelAddress]>> \o symbols
  /\ UNCHANGED <<source, verbose, phase, instruction_number, address, object>>

Valid == check_syntax(Parsed.tokens) /\ check_semantics(Parsed.tokens)

CheckInstruction ==
  /\ Reads("check") /\ Is("operation")
  /\ Valid
  /\ instruction_number' = instruction_number + 1
  /\ UNCHANGED <<source, verbose, phase, address, symbols, object>>

(* The assembler stops; an object file keeps what it has got so far. *)
Reject ==
  /\ \/ /\ Reads("check")
        /\ \/ Is("error")
           \/ Is("label") /\ Defines(Parsed.tokens[1])
           \/ Is("operation") /\ ~Valid
     \/ /\ Reads("generate") /\ Is("operation")
        /\ get_opcode(Parsed.tokens, address) = {}
  /\ phase' = "rejected"
  /\ UNCHANGED <<source, verbose, instruction_number, address, symbols, object>>

SecondPass ==
  /\ phase = "check" /\ line > Len(source)
  /\ phase' = "generate" /\ line' = 1
  /\ UNCHANGED <<source, verbose, instruction_number, address, symbols, object>>

(* A slip: a bracket on the lines of labels. *)
Listing_Bracket(bracket, word, text) == [bracket |-> TRUE, word |-> word, text |-> text]

(* A listing line: the bracket and the address, the word, the source.  A   *)
(* plain object file has the word only.                                    *)
Listing(bracket, word, text) == [bracket |-> bracket, word |-> word, text |-> text]

PassLabel ==
  /\ Reads("generate") /\ Is("label")
  /\ object' = IF verbose THEN Append(object, Listing(FALSE, {}, remove_comments(source[line]))) ELSE object
  /\ UNCHANGED <<source, verbose, phase, instruction_number, address, symbols>>

Emit ==
  /\ Reads("generate") /\ Is("operation")
  /\ LET opcode == get_opcode(Parsed.tokens, address)
     IN  /\ opcode # {}
         /\ object' = Append(object,
                        IF verbose THEN Listing(TRUE, opcode, remove_comments(source[line]))
                                   ELSE Listing(FALSE, opcode, <<>>))
  /\ address' = address + 4
  /\ UNCHANGED <<source, verbose, phase, instruction_number, symbols>>

Finish ==
  /\ phase = "generate" /\ line > Len(source)
  /\ phase' = "assembled"
  /\ UNCHANGED <<source, verbose, line, instruction_number, address, symbols, object>>
=============================================================================
