----------------------------- MODULE LineParser -----------------------------
(***************************************************************************)
(* From a line of assembly source to an instruction: parser.c, the operand *)
(* checks of semantics_analyzer.c, syntax_analyzer.c.                      *)
(*                                                                         *)
(* A line is a sequence of lexemes: names and numerals (whatever isalnum() *)
(* accepts, so two of them are never adjacent), the punctuation below, " " *)
(* for white space, "//", and "#" for any character that is not allowed.   *)
(* A token is the sequence of the lexemes that get_tokens() copies into    *)
(* one element of its array.                                               *)
(***************************************************************************)
EXTENDS Encoding

CONSTANTS
  LowerCase,   \* tolower(), for the names that have upper-case letters
  Registers,   \* the number a name like "r7" stands for: r, then a numeral
  Numerals     \* the int that atoi() or strtol() make of a numeral

ASSUME LexemesAssumption ==
  /\ DOMAIN Registers \cap DOMAIN Numerals = {}
  /\ \A x \in DOMAIN Numerals : Numerals[x] \in Int
  /\ \A x \in DOMAIN Registers : Registers[x] \in Int

Punctuation == {",", ":", "(", ")", "-", "+", "_", " ", "/", "//", "#"}

IsName(x) == x \notin Punctuation

tolower(x) == IF x \in DOMAIN LowerCase THEN LowerCase[x] ELSE x

INT_MIN == -2147483647 - 1

MAX_TOKENS_IN_A_LINE == 4

(* How many lexemes at the front of s belong to a set or are names. *)
Span(s, extra) ==
  CHOOSE n \in 0 .. Len(s) :
    /\ \A i \in 1 .. n : IsName(s[i]) \/ s[i] \in extra
    /\ n < Len(s) => ~IsName(s[n + 1]) /\ s[n + 1] \notin extra

Spaces(s) ==
  CHOOSE n \in 0 .. Len(s) :
    /\ \A i \in 1 .. n : s[i] = " "
    /\ n < Len(s) => s[n + 1] # " "

Drop(s, n) == SubSeq(s, n + 1, Len(s))

SkipSpaces(s) == Drop(s, Spaces(s))

Token(s, n) == [i \in 1 .. n |-> tolower(s[i])]

Starts(s, set) == s # <<>> /\ Head(s) \in set

----------------------------------------------------------------------------
(* parser.c.  A parsed line is [kind, tokens]; "kind" replaces the numbers *)
(* get_tokens() returns: -1 error, 10 comment, 0 label, else operation.    *)

Error == [kind |-> "error", tokens |-> <<>>]

is_white(s) == SkipSpaces(s) = <<>>

is_full_line_comment(s) == Starts(SkipSpaces(s), {"//"})

CharsOf(s) == {s[i] : i \in 1 .. Len(s)}

(* The comment goes, a line end stays. *)
remove_comments(s) ==
  IF \E i \in 1 .. Len(s) : s[i] = "//"
  THEN Append(SubSeq(s, 1, (CHOOSE i \in 1 .. Len(s) :
                              s[i] = "//" /\ \A j \in 1 .. i - 1 : s[j] # "//") - 1), " ")
  ELSE s

(* The flags and the tests between them. *)
BadCharacters(s) ==
  LET has(x) == x \in CharsOf(s)
      bracket == has("(") \/ has(")")
  IN  \/ has("#") \/ has("/") \/ has("+")
      \/ bracket /\ (has(":") \/ has("_"))
      \/ has("-") /\ (has(":") \/ has("_"))

(* Whatever follows the name, if it is neither white space nor a colon, is *)
(* not looked at.                                                          *)
parse_label(s) ==
  LET t    == SkipSpaces(s)
      n    == Span(t, {"_"})
      rest == Drop(t, n)
  IN  IF \/ Starts(rest, {" "})
         \/ Starts(rest, {":"}) /\ SkipSpaces(Tail(rest)) # <<>>
      THEN Error ELSE [kind |-> "label", tokens |-> <<Token(t, n)>>]

(* The rest of an operation: arguments with commas between them.  From[n]  *)
(* is what the text after the first n lexemes says.                        *)
parse_arguments(operation, s) ==
  LET From[n \in 0 .. Len(s)] ==
        LET t     == SkipSpaces(Drop(s, n))
            k     == Span(t, {"(", ")", "-", "_"})
            rest  == SkipSpaces(Drop(t, k))
            more  == From[Len(s) - Len(rest) + 1]
        IN  IF k = 0 THEN Error
            ELSE IF rest = <<>> THEN [kind |-> "operation", tokens |-> <<Token(t, k)>>]
            ELSE IF Starts(rest, {","}) /\ more # Error
            THEN [kind |-> "operation", tokens |-> <<Token(t, k)>> \o more.tokens]
            ELSE Error
      arguments == From[0]
  IN  IF arguments = Error \/ Len(arguments.tokens) >= MAX_TOKENS_IN_A_LINE THEN Error
      ELSE [kind |-> "operation", tokens |-> <<operation>> \o arguments.tokens]

parse_operation(s) ==
  LET t    == SkipSpaces(s)
      rest == Tail(t)
  IN  IF t = <<>> \/ ~IsName(Head(t)) \/ Starts(rest, {",", "(", ")", "-", "_"}) THEN Error
      ELSE IF SkipSpaces(rest) = <<>>
      THEN [kind |-> "operation", tokens |-> <<Token(t, 1)>>]
      ELSE parse_arguments(Token(t, 1), rest)


get_tokens(s) ==
  LET t == remove_comments(s)
  IN  IF is_full_line_comment(s) THEN [kind |-> "comment", tokens |-> <<>>]
      ELSE IF BadCharacters(t) THEN Error
      ELSE IF ":" \in CharsOf(t) THEN parse_label(t)
      ELSE parse_operation(t)

----------------------------------------------------------------------------
(* semantics_analyzer.c *)

(* read_dec() and read_hex(): a minus sign, then a numeral or nothing. *)
read_number(token) ==
  LET negative == Starts(token, {"-"})
      digits   == IF negative THEN Tail(token) ELSE token
  IN  IF token = <<>> THEN INT_MIN
      ELSE IF digits = <<>> THEN 0
      ELSE IF Len(digits) = 1 /\ Head(digits) \in DOMAIN Numerals
      THEN IF negative THEN -Numerals[Head(digits)] ELSE Numerals[Head(digits)]
      ELSE INT_MIN

Within(n, range) == IF n \in range THEN n ELSE INT_MIN

read_r(token) ==
  IF Len(token) = 1 /\ Head(token) \in DOMAIN Registers THEN Within(Registers[Head(token)], 0 .. 31)
  ELSE IF Starts(token, {"r"}) THEN Within(read_number(Tail(token)), 0 .. 31)
  ELSE INT_MIN

read_i(token) == Within(read_number(token), -2048 .. 2047)

read_s(token) == Within(read_number(token), 0 .. 31)

read_u(token) == Within(read_number(token), 0 .. 1048575)

read_l(token) ==
  Head(token) \notin DOMAIN Numerals /\ \A i \in DOMAIN token : IsName(token[i]) \/ token[i] = "_"

(* offset(register); what follows the second bracket is not looked at. *)
read_a(token) ==
  LET Bracket(b) == {i \in DOMAIN token : token[i] = b}
      open  == Min(Bracket("("))
      close == Min({i \in Bracket(")") : i > open})
      imm   == read_i(SubSeq(token, 1, open - 1))
      reg   == read_r(SubSeq(token, open + 1, close - 1))
      right == Bracket("(") # {} /\ \E i \in Bracket(")") : i > open
  IN  IF right /\ imm # INT_MIN THEN [imm |-> imm, reg |-> reg] ELSE [imm |-> 0, reg |-> INT_MIN]

check_operand(type, token) ==
  CASE type = "r" -> read_r(token) # INT_MIN
    [] type = "i" -> read_i(token) # INT_MIN
    [] type = "s" -> read_s(token) # INT_MIN
    [] type = "u" -> read_u(token) # INT_MIN
    [] type = "l" -> read_l(token)
    [] type = "a" -> read_a(token).reg # INT_MIN

(* The table row of an operation token. *)
Known(tokens) == Head(Head(tokens)) \in Mnemonics

get_i_block(tokens) == i_table[Head(Head(tokens))]

check_syntax(tokens) == Known(tokens) /\ Len(tokens) - 1 = Len(get_i_block(tokens).operands)

check_semantics(tokens) ==
  LET operands == get_i_block(tokens).operands
  IN  \A i \in DOMAIN operands : check_operand(operands[i], tokens[i + 1])
=============================================================================
