----------------------------- MODULE Arithmetic -----------------------------
(***************************************************************************)
(* The routines gcc calls where RV32I has no instruction: multiplication,  *)
(* division and remainder (essentials/stdlib).  They run on a stack of     *)
(* frames, one step per iteration of a loop, and leave their result in a0. *)
(* A word is a number below 2^WordBits; the code has 32 bits and a table   *)
(* of 511 quarter squares.                                                 *)
(***************************************************************************)
EXTENDS Integers, Sequences, SequencesExt

CONSTANTS
  WordBits,       \* the width of a register
  TableSize       \* the entries of QSQ

ASSUME WidthAssumption == WordBits \in Nat \ {0} /\ TableSize \in 1 .. 2 ^ WordBits

VARIABLES
  stack,   \* the frames: [fn, args, pc, v], v the local variables
  a0       \* what the last function returned

Modulus == 2 ^ WordBits

Word(x) == x % Modulus

(* (int32_t)w and the word of the absolute value; the one of the least     *)
(* integer is itself, as sub and neg leave it.                             *)
Signed(w) == IF 2 * w < Modulus THEN w ELSE w - Modulus

Magnitude(w) == IF Signed(w) < 0 THEN Word(-Signed(w)) ELSE w

Shl1(w) == Word(2 * w)

-----------------------------------------------------------------------------
frame == Last(stack)

At(fn, pc) == stack # <<>> /\ frame.fn = fn /\ frame.pc = pc

Called(fn, args) == [fn |-> fn, args |-> args, pc |-> "entry", v |-> <<>>]

Saved(pc, v) ==
  [stack EXCEPT ![Len(stack)] = [fn |-> frame.fn, args |-> frame.args, pc |-> pc, v |-> v]]

Goto(pc, v) == stack' = Saved(pc, v) /\ UNCHANGED a0

(* The frame goes on at pc when the function it calls has returned.        *)
Call(pc, v, fn, args) == stack' = Append(Saved(pc, v), Called(fn, args)) /\ UNCHANGED a0

Return(x) == stack' = Front(stack) /\ a0' = x

-----------------------------------------------------------------------------
(* Both divisions double the divisor while it is below the dividend ...    *)
Doubles(v) == v.divisor < v.dividend /\ 2 * v.divisor < Modulus

Doubled(v) == [v EXCEPT !.divisor = Shl1(@), !.bit = Shl1(@)]

(* ... and halve it until the bit has moved out.                           *)
Halved(v) == [v EXCEPT !.divisor = @ \div 2, !.bit = @ \div 2]

Divide(fn, v) ==
  /\ At(fn, "entry")
  /\ IF frame.args[2] = 0 THEN Return(0) ELSE Goto("double", v)

Double(fn) ==
  /\ At(fn, "double")
  /\ IF Doubles(frame.v) THEN Goto("double", Doubled(frame.v)) ELSE Goto("halve", frame.v)

(* quotient |= bit: the bit is not in the quotient yet.                    *)
Subtracted(v) ==
  IF v.dividend >= v.divisor
  THEN [v EXCEPT !.dividend = @ - v.divisor, !.quotient = @ + v.bit] ELSE v

Reduced(v) == IF v.dividend >= v.divisor THEN [v EXCEPT !.dividend = @ - v.divisor] ELSE v

udivsi3 ==
  \/ Divide("__udivsi3", [dividend |-> frame.args[1], divisor |-> frame.args[2],
                          quotient |-> 0, bit |-> 1])
  \/ Double("__udivsi3")
  \/ /\ At("__udivsi3", "halve")
     /\ IF frame.v.bit = 0 THEN Return(frame.v.quotient)
        ELSE Goto("halve", Halved(Subtracted(frame.v)))

umodsi3 ==
  \/ Divide("__umodsi3", [dividend |-> frame.args[1], divisor |-> frame.args[2], bit |-> 1])
  \/ Double("__umodsi3")
  \/ /\ At("__umodsi3", "halve")
     /\ IF frame.v.bit = 0 THEN Return(frame.v.dividend)
        ELSE Goto("halve", Halved(Reduced(frame.v)))

(* The signed ones work on magnitudes; a quotient is negative when the     *)
(* signs differ, a remainder when the dividend is.                         *)
QuotientNegative(a, b) == (Signed(a) < 0) # (Signed(b) < 0)

(* A slip: the remainder gets the sign of the quotient.                    *)
RemainderNegative_Quotient(a, b) == (Signed(a) < 0) # (Signed(b) < 0)

RemainderNegative(a, b) == Signed(a) < 0

Negated(negative, w) == IF negative THEN Word(-w) ELSE w

divsi3 ==
  \/ /\ At("__divsi3", "entry")
     /\ IF frame.args[2] = 0 THEN Return(0)
        ELSE Call("sign", <<>>, "__udivsi3", <<Magnitude(frame.args[1]), Magnitude(frame.args[2])>>)
  \/ /\ At("__divsi3", "sign")
     /\ Return(Negated(QuotientNegative(frame.args[1], frame.args[2]), a0))

modsi3 ==
  \/ /\ At("__modsi3", "entry")
     /\ IF frame.args[2] = 0 THEN Return(frame.args[1])
        ELSE Call("sign", <<>>, "__umodsi3", <<Magnitude(frame.args[1]), Magnitude(frame.args[2])>>)
  \/ /\ At("__modsi3", "sign")
     /\ Return(Negated(RemainderNegative(frame.args[1], frame.args[2]), a0))

-----------------------------------------------------------------------------
QSQ == [n \in 0 .. TableSize - 1 |-> (n * n) \div 4]

(* Both operands are small, and their sum has not wrapped.                 *)
Fast(a, b) == Word(a + b) < TableSize /\ Word(a + b) >= a

Larger(a, b) == IF a < b THEN b ELSE a

Smaller(a, b) == IF a < b THEN a ELSE b

(* Two bits of the multiplier b at a time.                                 *)
Added(v) ==
  [a |-> Word(4 * v.a), b |-> v.b \div 4,
   result |-> Word(v.result + v.a * (v.b % 2) + Shl1(v.a) * ((v.b \div 2) % 2))]

mulsi3 ==
  \/ /\ At("__mulsi3", "entry")
     /\ \E a \in {frame.args[1]}, b \in {frame.args[2]} :
          IF Fast(a, b)
          THEN Return(Word(QSQ[Word(a + b)] - QSQ[Larger(a, b) - Smaller(a, b)]))
          ELSE Goto("add", [a |-> Larger(a, b), b |-> Smaller(a, b), result |-> 0])
  \/ /\ At("__mulsi3", "add")
     /\ IF frame.v.b = 0 THEN Return(frame.v.result) ELSE Goto("add", Added(frame.v))

ArithmeticSteps == udivsi3 \/ umodsi3 \/ divsi3 \/ modsi3 \/ mulsi3

-----------------------------------------------------------------------------
(* What the routines are for: C's operators on words.  Division truncates; *)
(* the quotient by 0 is 0, the unsigned remainder 0, the signed one the    *)
(* dividend.                                                               *)
Sign(x) == IF x < 0 THEN -1 ELSE 1

Abs(x) == Sign(x) * x

Truncated(x, y) == Sign(x) * Sign(y) * (Abs(x) \div Abs(y))

Meaning(fn, a, b) ==
  CASE fn = "__mulsi3" -> Word(a * b)
    [] fn = "__udivsi3" -> IF b = 0 THEN 0 ELSE a \div b
    [] fn = "__umodsi3" -> IF b = 0 THEN 0 ELSE a % b
    [] fn = "__divsi3" -> IF b = 0 THEN 0 ELSE Word(Truncated(Signed(a), Signed(b)))
    [] fn = "__modsi3" ->
         IF b = 0 THEN a ELSE Word(Signed(a) - Signed(b) * Truncated(Signed(a), Signed(b)))

Routines == {"__mulsi3", "__udivsi3", "__umodsi3", "__divsi3", "__modsi3"}

(* Every routine returns what the operator it stands for means, whatever   *)
(* the operands: the fast path of the multiplication agrees with the slow  *)
(* one, doubling the divisor loses no bit, and the least integer, whose    *)
(* magnitude is itself, divides as well (essentials/stdlib).               *)
OperatorsAreC ==
  [][stack # <<>> /\ frame.fn \in Routines /\ Len(stack') < Len(stack)
       => a0' = Meaning(frame.fn, frame.args[1], frame.args[2])]_<<stack, a0>>
=============================================================================
