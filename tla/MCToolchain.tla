---------------------------- MODULE MCToolchain ----------------------------
(* Sources, lexemes and data for checking module Toolchain. *)
EXTENDS Toolchain

(* The rows that are not well-formed have a funct7 instead of the upper    *)
(* bits of an immediate.                                                   *)
ASSUME TableIsWellFormed ==
  \A m \in Mnemonics : WellFormed(i_table[m]) \/ m \in {"srai", "ebreak"}

ASSUME NumbersHaveTheirSigns ==
  /\ \A n \in -2048 .. 2047 : SignedFrom(Bits(n), 11)
  /\ \A n \in -4096 .. 4095 : SignedFrom(Bits(n), 12)
  /\ \A n \in 0 .. 31 : Bits(n) \subseteq 0 .. 4

MCLowerCase == [ADDI |-> "addi", Loop |-> "loop", R5 |-> "r5"] @@ ("0X10" :> "0x10")

MCRegisters == [r0 |-> 0, r1 |-> 1, r2 |-> 2, r5 |-> 5, r31 |-> 31, r32 |-> 32]

NumeralNames == {"0", "1", "3", "31", "32", "2047", "2048", "0x10", "1048575", "1048576"}

MCNumerals ==
  [n \in NumeralNames |->
     CASE n = "0" -> 0 [] n = "1" -> 1 [] n = "3" -> 3 [] n = "31" -> 31 [] n = "32" -> 32
       [] n = "2047" -> 2047 [] n = "2048" -> 2048 [] n = "0x10" -> 16
       [] n = "1048575" -> 1048575 [] n = "1048576" -> 1048576]

(* The operands of a kind, sequences of lexemes. *)
OperandsOf(kind) ==
  CASE kind = "i" -> {<<"3">>, <<"-", "1">>, <<"2047">>, <<"-", "2048">>}
    [] kind = "s" -> {<<"1">>, <<"31">>}
    [] kind = "u" -> {<<"1">>, <<"1048575">>}
    [] kind = "a" -> {<<"0", "(", "r1", ")">>, <<"-", "3", "(", "r1", ")">>, <<"2047", "(", "r1", ")">>}
    [] kind = "l" -> {<<"loop">>}

(* The lines of a mnemonic: destination r5, sources r1 and r2, for a store *)
(* the base r1 and the data r2.                                            *)
Instructions(name) ==
  LET ops   == i_table[name].operands
      First == <<name, " ">>
      Comma == <<",">>
      store == IF i_table[name].format \in {"s", "b"} THEN <<"r2">> ELSE <<"r5">>
  IN  CASE ops = <<>> -> {<<name>>}
        [] Len(ops) = 2 -> {First \o store \o Comma \o x : x \in OperandsOf(ops[2])}
        [] ops = <<"r", "r", "r">> -> {First \o <<"r5", ",", "r1", ",", "r2">>}
        [] ops = <<"r", "r", "l">> -> {First \o <<"r1", ",", "r2", ",", "loop">>}
        [] Len(ops) = 3 /\ ops[3] \in {"i", "s"} ->
             {First \o <<"r5", ",", "r1", ",">> \o x : x \in OperandsOf(ops[3])}

LoopLine == <<"Loop", ":">>

Jumps == {"jal", "beq", "bne", "blt", "bge", "bltu", "bgeu"}

(* Every instruction by itself; jumps to the following and to their own line. *)
Single ==
  UNION {IF name \in Jumps
         THEN UNION {{<<LoopLine, i>>, <<i, LoopLine>>} : i \in Instructions(name)}
         ELSE {<<i>> : i \in Instructions(name)} : name \in Mnemonics}

(* Lines of every kind, three in a source. *)
Lines ==
  {<<>>, <<" ", "//", ":">>, LoopLine, <<"x", "_", "1", ":", "//", "x">>, <<"Loop", " ", ":">>,
   <<"nop", " ", "//", "#">>, <<"ADDI", " ", "R5", ",", "r1", ",", "-", "1">>,
   <<"jal", " ", "r1", ",", "loop">>, <<"beq", " ", "r1", ",", "r2", ",", "x", "_", "1">>,
   <<"addi", " ", "r1", ",", "r1", ",", "2048">>, <<"sw", " ", "r32", ",", "0", "(", "r1", ")">>}

ThreeLines == {<<a, b, c>> : a, b, c \in Lines}

(* Operands at and beyond their limits, and wrong in number or kind. *)
Odd ==
  {<<"slli", " ", "r1", ",", "r1", ",", "32">>, <<"slli", " ", "r1", ",", "r1", ",", "-", "1">>,
   <<"lui", " ", "r1", ",", "1048576">>, <<"lui", " ", "r1", ",", "-", "1">>,
   <<"addi", " ", "r1", ",", "r1", ",", "-", "2048">>, <<"addi", " ", "r1", ",", "r1", ",", "-">>,
   <<"addi", " ", "r1", ",", "r1", ",", "r2">>, <<"add", " ", "r1", ",", "r1", ",", "1">>,
   <<"add", " ", "r1", ",", "r2">>, <<"nop", " ", "r1">>, <<"add", " ", "r1", ",", "r1", ",", "r1", ",", "r1">>,
   <<"addi", " ", "r", "-", "0", ",", "r31", ",", "0x10">>, <<"x", " ", "r1">>,
   <<"lw", " ", "r1", ",", "(", "r1", ")">>, <<"lw", " ", "r1", ",", "1", "(", "r1">>,
   <<"lw", " ", "r1", ",", "1", ")", "r1", "(">>, <<"lw", " ", "r1", ",", "1", "(", "r1", ")", "x">>,
   <<"lw", " ", "r1", ",", "2048", "(", "r1", ")">>, <<"jal", " ", "r1", ",", "1">>,
   <<"jal", " ", "r1", ",", "x">>, <<"beq", " ", "r1", ",", "r2", ",", "-", "x">>,
   <<"addi", " ", "r1", ",", "r1", ",", "0X10">>, <<"lui", " ", "r1", ",", "-", "0x10">>,
   <<"lw", " ", "r1", ",", "-", "(", "r1", ")">>, <<"lw", " ", "r1", ",", "1", "(", "r", "-", "0", ")">>,
   <<"lw", " ", "r1", ",", "1", "(", "r1", ")", ",", "r1">>,
   <<"addi", " ", "r1", ",", "r1", ",", "+", "1">>}

(* A jump to a label that starts with a digit. *)
DigitLabel == <<<<"1", ":">>, <<"jal", " ", "r1", ",", "1">>>>

(* Short lines of any lexemes.  Two names or slashes do not stand side by  *)
(* side.                                                                   *)
Lexemes == {"nop", "jal", "r1", ",", ":", "_", " ", "//", "(", "+", "#"}

IsLine(s) ==
  \A i \in 1 .. Len(s) - 1 : ~(IsName(s[i]) /\ IsName(s[i + 1])) /\ ~(s[i] = "//" /\ s[i + 1] = "//")

ShortLines == {<<s>> : s \in {t \in UNION {[1 .. n -> Lexemes] : n \in 1 .. 4} : IsLine(t)}}

(* A jump over n instructions, forwards and backwards. *)
Branch == <<"beq", " ", "r1", ",", "r2", ",", "loop">>

Jump == <<"jal", " ", "r5", ",", "loop">>

Nops(n) == [i \in 1 .. n |-> <<"nop">>]

Forward(i, n) == <<i>> \o Nops(n) \o <<LoopLine>>

Backward(i, n) == <<LoopLine>> \o Nops(n) \o <<i>>

(* As far as a branch reaches, and one instruction farther. *)
Far == {Forward(Branch, 1022), Forward(Branch, 1023), Backward(Branch, 1024), Backward(Branch, 1025)}

Near == UNION {{Forward(i, n), Backward(i, n)} : i \in {Branch, Jump}, n \in {1, 20}}

MCExecutedSources == Single \cup Near

MCSources == MCExecutedSources \cup ThreeLines \cup {<<l>> : l \in Odd} \cup {DigitLabel} \cup ShortLines \cup Far

MCImages == {[a \in 0 .. DramBytes - 1 |-> (a + a \div 4) % 4]}

MCOperands == {0, 1, 6, 8, 127, 128, 255}

(* The addresses up to the limit of the read-only data. *)
MCReadOnly == 0 .. 3

=============================================================================
