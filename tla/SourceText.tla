----------------------------- MODULE SourceText -----------------------------
(***************************************************************************)
(* What a source file says, read off its text: the language that the       *)
(* assembler's README and the list of formats at the top of parser.c       *)
(* describe, and the instruction each line stands for.  White space around *)
(* the parts and comments do not count; a line is empty, or a name and a   *)
(* colon, or a name and its operands with commas between them.  Where the  *)
(* assembler takes another line than this is in Peculiar, case by case.    *)
(***************************************************************************)
EXTENDS LineParser, SequencesExt

Trim(s) ==
  LET ink == {i \in DOMAIN s : s[i] # " "}
  IN  IF ink = {} THEN <<>> ELSE SubSeq(s, Min(ink), Max(ink))

BeforeComment(s) ==
  LET slashes == {i \in DOMAIN s : s[i] = "//"}
  IN  IF slashes = {} THEN s ELSE SubSeq(s, 1, Min(slashes) - 1)

Lower(s) == [i \in DOMAIN s |-> tolower(s[i])]

Code(s) == Trim(Lower(BeforeComment(s)))

Parts(s) == FoldLeft(LAMBDA parts, x : IF x = "," THEN Append(parts, <<>>)
                                       ELSE [parts EXCEPT ![Len(parts)] = Append(@, x)],
                     <<<<>>>>, s)

(* What stands behind the name. *)
ArgumentsIn(s) ==
  IF s = <<>> THEN <<>> ELSE LET parts == Parts(s) IN [i \in DOMAIN parts |-> Trim(parts[i])]

Arguments(s) == ArgumentsIn(Trim(Tail(Code(s))))

IsEmptyLine(s) == Code(s) = <<>>

IsLabelLine(s) == ":" \in CharsOf(Code(s))

IsInstructionLine(s) == ~IsEmptyLine(s) /\ ~IsLabelLine(s)

LabelOf(s) == Front(Code(s))

(* The strings of the instruction lines, and their number before line n. *)
InstructionTexts(source) ==
  LET lines == SelectSeq(source, IsInstructionLine)
  IN  [i \in DOMAIN lines |-> remove_comments(lines[i])]

InstructionsBefore(source, n) == Len(SelectSeq(SubSeq(source, 1, n - 1), IsInstructionLine))

LabelLines(source, name) ==
  {n \in DOMAIN source : IsLabelLine(source[n]) /\ LabelOf(source[n]) = name}

----------------------------------------------------------------------------
(* Operands. *)

Signs == {"-", "+"}

(* A numeral, with or without a sign. *)
NumberOf(t) == IF Head(t) = "-" THEN -Numerals[Last(t)] ELSE Numerals[Last(t)]

IsNumber(t, range) ==
  /\ Len(t) = 1 \/ (Len(t) = 2 /\ Head(t) \in Signs)
  /\ Last(t) \in DOMAIN Numerals /\ NumberOf(t) \in range

(* "r" and a number below 32. *)
IsRegister(t) == Len(t) = 1 /\ t[1] \in DOMAIN Registers /\ Registers[t[1]] \in 0 .. 31

RegisterOf(t) == Registers[t[1]]

(* offset(register) *)
Position(t, x) == SelectInSeq(t, LAMBDA y : y = x)

OffsetPart(t) == SubSeq(t, 1, Position(t, "(") - 1)

BasePart(t) == SubSeq(t, Position(t, "(") + 1, Len(t) - 1)

IsIndexed(t) ==
  /\ Position(t, "(") # 0 /\ Last(t) = ")"
  /\ IsNumber(OffsetPart(t), -2048 .. 2047) /\ IsRegister(BasePart(t))

(* Alphanumerics and underscores. *)
IsLabel(t) == t # <<>> /\ \A i \in DOMAIN t : IsName(t[i]) \/ t[i] = "_"

IsOperand(type, t) ==
  /\ t # <<>> /\ \A i \in DOMAIN t : t[i] \notin {" ", ":", "#", "/"}
  /\ CASE type = "r" -> IsRegister(t)
       [] type = "i" -> IsNumber(t, -2048 .. 2047)
       [] type = "s" -> IsNumber(t, 0 .. 31)
       [] type = "u" -> IsNumber(t, 0 .. 1048575)
       [] type = "l" -> IsLabel(t)
       [] type = "a" -> IsIndexed(t)

----------------------------------------------------------------------------
(* Lines. *)

(* The name, what stands behind it, and its parts. *)
IsInstructionOf(name, rest, a) ==
  /\ name \in Mnemonics
  /\ Len(a) = Len(i_table[name].operands)
  /\ \A i \in DOMAIN a : IsOperand(i_table[name].operands[i], a[i])
  /\ rest = <<>> \/ Head(rest) = " "

IsInstruction(s) == IsInstructionOf(Head(Code(s)), Tail(Code(s)), Arguments(s))

WellWrittenLine(s) ==
  \/ IsEmptyLine(s)
  \/ IsLabelLine(s) /\ Last(Code(s)) = ":" /\ IsLabel(LabelOf(s))
  \/ IsInstructionLine(s) /\ IsInstruction(s)

Distance(source, n, name) ==
  4 * (InstructionsBefore(source, CHOOSE m \in LabelLines(source, name) : TRUE)
         - InstructionsBefore(source, n))

JumpsTo(s) == Last(Arguments(s))

IsJump(s) == IsInstructionLine(s) /\ Head(Code(s)) \in {"jal", "beq", "bne", "blt", "bge", "bltu", "bgeu"}

Reaches(name, d) == IF name = "jal" THEN d \in -(2 ^ 20) .. 2 ^ 20 - 1 ELSE d \in -(2 ^ 12) .. 2 ^ 12 - 1

JumpsWell(source, n, label) ==
  LabelLines(source, label) # {} /\ Reaches(Head(Code(source[n])), Distance(source, n, label))

WellWritten(source) ==
  /\ \A n \in DOMAIN source : WellWrittenLine(source[n])
  /\ \A n \in DOMAIN source :
       IsLabelLine(source[n]) => LabelLines(source, LabelOf(source[n])) = {n}
  /\ \A n \in DOMAIN source :
       IsJump(source[n]) => JumpsWell(source, n, JumpsTo(source[n]))

(* The lines on which the assembler and the documents part, each by a rule *)
(* of its own: a plus sign; a minus sign with no numeral behind it, or in  *)
(* a register; text after a closing bracket; a label line with a comma or  *)
(* without a name; a jump to a label that starts with a digit.             *)
BareMinus(s) ==
  \E i \in DOMAIN s : s[i] = "-" /\ (i < Len(s) => s[i + 1] \notin DOMAIN Numerals)

SignedRegister(s) == \E i \in 2 .. Len(s) : s[i] = "-" /\ s[i - 1] = "r"

AfterBracket(s) == \E i \in 1 .. Len(s) - 1 : s[i] = ")" /\ s[i + 1] \notin {" ", ","}

OddLabel(s) == ":" \in CharsOf(s) /\ (Head(s) = ":" \/ "," \in CharsOf(s))

JumpsToNumeral(s) ==
  IsJump(s) /\ Arguments(s) # <<>> /\ Starts(JumpsTo(s), DOMAIN Numerals)

Peculiar(s) ==
  LET code == Code(s)
  IN  \/ "+" \in CharsOf(code) \/ BareMinus(code) \/ SignedRegister(code)
      \/ AfterBracket(code) \/ OddLabel(code) \/ JumpsToNumeral(s)

(* An instruction as Rv32i names it; -1 stands for a register it has not  *)
(* got.  A jump goes "distance" far.                                       *)
AsInstruction(name, ops, a, distance) ==
  LET Reg(i) == RegisterOf(a[i])
      Form(rd, rs1, rs2, imm) == [name |-> name, rd |-> rd, rs1 |-> rs1, rs2 |-> rs2, imm |-> imm]
      IsStore == name \in {"sb", "sh", "sw"}
  IN  CASE ops = <<>>                       -> Form(0, -1, -1, 0)
        [] ops = <<"r", "r", "r">>          -> Form(Reg(1), Reg(2), Reg(3), 0)
        [] ops \in {<<"r", "r", "i">>, <<"r", "r", "s">>} -> Form(Reg(1), Reg(2), -1, NumberOf(a[3]))
        [] ops = <<"r", "u">>               -> Form(Reg(1), -1, -1, NumberOf(a[2]))
        [] ops = <<"r", "l">>               -> Form(Reg(1), -1, -1, distance)
        [] ops = <<"r", "r", "l">>          -> Form(-1, Reg(1), Reg(2), distance)
        [] ops = <<"r", "a">> /\ IsStore    ->
             Form(-1, RegisterOf(BasePart(a[2])), Reg(1), NumberOf(OffsetPart(a[2])))
        [] ops = <<"r", "a">> /\ ~IsStore   ->
             Form(Reg(1), RegisterOf(BasePart(a[2])), -1, NumberOf(OffsetPart(a[2])))

LineAsInstruction(source, n, name) ==
  AsInstruction(name, i_table[name].operands, Arguments(source[n]),
                IF IsJump(source[n]) THEN Distance(source, n, JumpsTo(source[n])) ELSE 0)

InstructionAt(source, n) == LineAsInstruction(source, n, Head(Code(source[n])))

(* The k-th instruction of a source, counted from 0. *)
Written(source, k) ==
  InstructionAt(source, CHOOSE m \in DOMAIN source :
                          IsInstructionLine(source[m]) /\ InstructionsBefore(source, m) = k)
=============================================================================
