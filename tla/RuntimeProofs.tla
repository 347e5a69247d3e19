--------------------------- MODULE RuntimeProofs ----------------------------
(***************************************************************************)
(* No index of quick_sort() or radix_sort() leaves its array, whatever the *)
(* array, no block of the heap loses what was put into it, whatever sizes  *)
(* that fit are asked for, and the library's routines compute C's          *)
(* operators, whatever the operands: IndicesInBounds, BlocksAreKept and OperatorsAreC of       *)
(* modules Runtime and Arithmetic.                                         *)
(***************************************************************************)
EXTENDS Runtime, FiniteSetTheorems, SequenceTheorems, TLAPS

Sorts == {"quick_sort", "radix_sort"}

StackIsList == \E frames : stack \in Seq(frames)

(* The frames below the top. *)
Below(s) == 1 .. Len(s) - 1

(* What a call of quick_sort() is asked to sort is in the array, and its   *)
(* indices have left that part only outwards.                              *)
PartFits(f, all) ==
  /\ f.args[1] \in Int /\ f.args[2] \in Int
  /\ f.args[1] < f.args[2] => f.args[1] \in all /\ f.args[2] \in all
  /\ f.pc # "entry" =>
       /\ f.args[1] < f.args[2] /\ f.v \in [i : Int, j : Int, pivot : Int]
       /\ f.args[1] <= f.v.i /\ f.v.j <= f.args[2]

(* An element stops the scan that is under way, one that of the other.     *)
StopsUp(f, a) == \E k \in f.v.i .. f.args[2] : a[k] >= f.v.pivot

StopsDown(f, a) == \E k \in f.args[1] .. f.v.j : a[k] <= f.v.pivot

StoppedUp(f, a) == f.v.i <= f.args[2] /\ a[f.v.i] >= f.v.pivot

StoppedDown(f, a) == f.args[1] <= f.v.j /\ a[f.v.j] <= f.v.pivot

ScansStop(f, a) ==
  /\ f.pc = "up" \/ (f.pc = "outer" /\ f.v.i <= f.v.j) => StopsUp(f, a) /\ StopsDown(f, a)
  /\ f.pc = "down" => StoppedUp(f, a) /\ StopsDown(f, a)
  /\ f.pc = "swap" => StoppedUp(f, a) /\ StoppedDown(f, a)

(* radix_sort()'s counts, phase by phase. *)
With(a, p, d) == {k \in DOMAIN a : Digit(a[k], p) = d}

UpTo(a, p, d) == {k \in DOMAIN a : Digit(a[k], p) <= d}

Seen(a, p, d, m) == {k \in DOMAIN a : k < m /\ Digit(a[k], p) = d}

ToPlace(a, p, d, m) ==
  {k \in DOMAIN a : Digit(a[k], p) < d \/ (Digit(a[k], p) = d /\ k <= m)}

Counted(f, a) ==
  \A d \in 0 .. Radix - 1 :
    /\ f.pc = "clear" /\ d < f.v.i => f.v.count[d] = 0
    /\ f.pc = "count" => f.v.count[d] = Cardinality(Seen(a, f.v.pass, d, f.v.i))
    /\ f.pc = "prefix" =>
         f.v.count[d] = Cardinality(IF d < f.v.i THEN UpTo(a, f.v.pass, d) ELSE With(a, f.v.pass, d))
    /\ f.pc = "place" => f.v.count[d] = Cardinality(ToPlace(a, f.v.pass, d, f.v.i))

CountsFit(f, a, length) ==
  /\ f.args[1] = length
  /\ f.pc # "entry" =>
       /\ f.v \in [pass : 0 .. Passes - 1, i : Int, count : [0 .. Radix - 1 -> Int]]
       /\ f.pc \in {"clear", "count", "copy"} => f.v.i >= 0
       /\ f.pc = "prefix" => f.v.i >= 1
       /\ f.pc = "place" => f.v.i < length
       /\ Counted(f, a)

FrameFits(f, q) ==
  /\ f.fn \in Sorts => f.fn = q.program
  /\ f.fn = "quick_sort" => PartFits(f, DOMAIN q.arr)

(* A frame that has called. *)
Waits(f) == f.fn # "radix_sort" /\ (f.fn = "quick_sort" => f.pc \in {"right", "return"})

TopFits(f, a, q) ==
  /\ f.fn = "quick_sort" => ScansStop(f, a)
  /\ f.fn = "radix_sort" => CountsFit(f, a, Cardinality(DOMAIN q.arr))

SortInv ==
  /\ job \in Jobs /\ StackIsList
  /\ arr \in [Indices -> Nat] /\ temp \in [Indices -> Nat]
  /\ \A p \in 1 .. Len(stack) : FrameFits(stack[p], job)
  /\ \A p \in Below(stack) : Waits(stack[p])
  /\ stack # <<>> => TopFits(frame, arr, job)

----------------------------------------------------------------------------
(* What the steps do to the stack. *)

LEMMA StackFacts ==
  ASSUME StackIsList
  PROVE  /\ Len(stack) \in Nat /\ DOMAIN stack = 1 .. Len(stack)
         /\ stack # <<>> => Len(stack) > 0 /\ frame = stack[Len(stack)]
<1>1. PICK frames : stack \in Seq(frames)
  BY DEF StackIsList
<1>2. Len(stack) \in Nat /\ DOMAIN stack = 1 .. Len(stack)
  BY <1>1, LenProperties
<1>3. stack # <<>> => Len(stack) \in Nat \ {0}
  BY <1>1, EmptySeq
<1>4. QED
  BY <1>2, <1>3 DEF frame, Last

LEMMA LastIsReplaced ==
  ASSUME NEW S, NEW s \in Seq(S), s # <<>>, NEW e
  PROVE  /\ [s EXCEPT ![Len(s)] = e] \in Seq(S \cup {e})
         /\ Len([s EXCEPT ![Len(s)] = e]) = Len(s) /\ [s EXCEPT ![Len(s)] = e][Len(s)] = e
         /\ \A p \in 1 .. Len(s) - 1 : [s EXCEPT ![Len(s)] = e][p] = s[p]
<1>1. Len(s) \in Nat /\ Len(s) > 0 /\ Len(s) \in 1 .. Len(s)
  OBVIOUS
<1> DEFINE T == S \cup {e}
           q == [s EXCEPT ![Len(s)] = e]
<1>2. S \subseteq T /\ e \in T
  OBVIOUS
<1>3. s \in Seq(T)
  <2> HIDE DEF T
  <2>1. QED
    BY <1>2, SeqMonotonic
<1>4. /\ q \in Seq(T) /\ Len(q) = Len(s)
      /\ \A p \in 1 .. Len(s) : q[p] = IF p = Len(s) THEN e ELSE s[p]
  <2> HIDE DEF T
  <2>1. QED
    BY <1>1, <1>2, <1>3, ExceptSeq
<1> HIDE DEF q
<1>5. q[Len(s)] = e /\ \A p \in 1 .. Len(s) - 1 : q[p] = s[p]
  BY <1>1, <1>4
<1>6. QED
  BY <1>4, <1>5, Zenon DEF q

LEMMA LastIsDropped ==
  ASSUME NEW S, NEW s \in Seq(S), s # <<>>
  PROVE  /\ SubSeq(s, 1, Len(s) - 1) \in Seq(S) /\ Len(SubSeq(s, 1, Len(s) - 1)) = Len(s) - 1
         /\ \A p \in 1 .. Len(s) - 1 : SubSeq(s, 1, Len(s) - 1)[p] = s[p]
<1>1. Len(s) \in Nat \ {0} /\ DOMAIN s = 1 .. Len(s)
  BY EmptySeq, LenProperties
<1> DEFINE last == Len(s) - 1
<1>2. last \in Nat
  BY <1>1
<1>3. last \in 0 .. Len(s) /\ 1 .. last \subseteq 1 .. Len(s)
  BY <1>1, <1>2
<1>4. SubSeq(s, 1, last) = Restrict(s, 1 .. last)
  BY <1>3, SubSeqRestrict, Zenon
<1>5. SubSeq(s, 1, last) = [p \in 1 .. last |-> s[p]]
  BY <1>4 DEF Restrict
<1>6. \A p \in 1 .. last : s[p] \in S
  BY <1>1, <1>3
<1>7. [p \in 1 .. last |-> s[p]] \in Seq(S) /\ Len([p \in 1 .. last |-> s[p]]) = last
  BY <1>2, <1>6
<1>8. QED
  BY <1>2, <1>5, <1>7

LEMMA SavedFrames ==
  ASSUME StackIsList, stack # <<>>, NEW pc, NEW v
  PROVE  \E frames :
           /\ Saved(pc, v) \in Seq(frames) /\ Len(Saved(pc, v)) = Len(stack)
           /\ \A p \in Below(stack) : Saved(pc, v)[p] = stack[p]
           /\ Saved(pc, v)[Len(stack)] = [fn |-> frame.fn, args |-> frame.args, pc |-> pc, v |-> v]
<1> DEFINE top == [fn |-> frame.fn, args |-> frame.args, pc |-> pc, v |-> v]
<1>1. PICK frames : stack \in Seq(frames)
  BY DEF StackIsList
<1>2. Saved(pc, v) = [stack EXCEPT ![Len(stack)] = top]
  BY DEF Saved
<1> HIDE DEF top
<1>3. stack # <<>>
  OBVIOUS
<1>4. /\ [stack EXCEPT ![Len(stack)] = top] \in Seq(frames \cup {top})
      /\ Len([stack EXCEPT ![Len(stack)] = top]) = Len(stack)
      /\ [stack EXCEPT ![Len(stack)] = top][Len(stack)] = top
      /\ \A p \in 1 .. Len(stack) - 1 : [stack EXCEPT ![Len(stack)] = top][p] = stack[p]
  BY <1>1, <1>3, LastIsReplaced, Zenon
<1>5. /\ Saved(pc, v) \in Seq(frames \cup {top}) /\ Len(Saved(pc, v)) = Len(stack)
      /\ Saved(pc, v)[Len(stack)] = top
      /\ \A p \in Below(stack) : Saved(pc, v)[p] = stack[p]
  BY <1>2, <1>4, Zenon DEF Below
<1>6. \E all : Saved(pc, v) \in Seq(all)
  BY <1>5
<1>7. QED
  BY <1>5, <1>6 DEF top

(* The frame on top goes on elsewhere. *)
LEMMA GotoSteps ==
  ASSUME StackIsList, stack # <<>>, NEW pc, NEW v, Goto(pc, v)
  PROVE  /\ StackIsList' /\ stack' # <<>> /\ Len(stack') = Len(stack)
         /\ \A p \in Below(stack) : stack'[p] = stack[p]
         /\ frame' = [fn |-> frame.fn, args |-> frame.args, pc |-> pc, v |-> v]
<1>1. stack' = Saved(pc, v)
  BY DEF Goto
<1>2. Len(stack) \in Nat /\ Len(stack) > 0
  BY StackFacts
<1>3. PICK frames :
        /\ stack' \in Seq(frames) /\ Len(stack') = Len(stack)
        /\ \A p \in Below(stack) : stack'[p] = stack[p]
        /\ stack'[Len(stack)] = [fn |-> frame.fn, args |-> frame.args, pc |-> pc, v |-> v]
  BY <1>1, SavedFrames
<1>4. QED
  BY <1>2, <1>3 DEF StackIsList, frame, Last

LEMMA CallSteps ==
  ASSUME StackIsList, stack # <<>>, NEW pc, NEW v, NEW fn, NEW args, Call(pc, v, fn, args)
  PROVE  /\ StackIsList' /\ stack' # <<>> /\ Len(stack') = Len(stack) + 1
         /\ \A p \in Below(stack) : stack'[p] = stack[p]
         /\ stack'[Len(stack)] = [fn |-> frame.fn, args |-> frame.args, pc |-> pc, v |-> v]
         /\ frame' = Called(fn, args)
<1> DEFINE new == Called(fn, args)
           saved == Saved(pc, v)
<1>1. stack' = Append(saved, new)
  BY DEF Call
<1>2. Len(stack) \in Nat /\ Len(stack) > 0
  BY StackFacts
<1>3. PICK frames :
        /\ saved \in Seq(frames) /\ Len(saved) = Len(stack)
        /\ \A p \in Below(stack) : saved[p] = stack[p]
        /\ saved[Len(stack)] = [fn |-> frame.fn, args |-> frame.args, pc |-> pc, v |-> v]
  BY SavedFrames
<1> HIDE DEF new, saved
<1>4. saved \in Seq(frames \cup {new}) /\ new \in frames \cup {new}
  BY <1>3
<1>5. stack' \in Seq(frames \cup {new}) /\ Len(stack') = Len(stack) + 1
      /\ stack'[Len(stack) + 1] = new
      /\ \A p \in 1 .. Len(stack) : stack'[p] = saved[p]
  BY <1>1, <1>2, <1>3, <1>4
<1>6. QED
  BY <1>2, <1>3, <1>5 DEF StackIsList, frame, Last, Below, new

LEMMA ReturnSteps ==
  ASSUME StackIsList, stack # <<>>, NEW x, Return(x)
  PROVE  /\ StackIsList' /\ Len(stack') = Len(stack) - 1
         /\ \A p \in Below(stack) : stack'[p] = stack[p]
         /\ stack' # <<>> => Len(stack) - 1 \in Below(stack) /\ frame' = stack[Len(stack) - 1]
<1>1. PICK frames : stack \in Seq(frames)
  BY DEF StackIsList
<1>2. Len(stack) \in Nat /\ Len(stack) > 0
  BY StackFacts
<1>3. stack' = SubSeq(stack, 1, Len(stack) - 1)
  BY DEF Return, Front
<1>5. /\ SubSeq(stack, 1, Len(stack) - 1) \in Seq(frames)
      /\ Len(SubSeq(stack, 1, Len(stack) - 1)) = Len(stack) - 1
      /\ \A p \in 1 .. Len(stack) - 1 : SubSeq(stack, 1, Len(stack) - 1)[p] = stack[p]
  BY <1>1, LastIsDropped
<1>6. /\ stack' \in Seq(frames) /\ Len(stack') = Len(stack) - 1
      /\ \A p \in 1 .. Len(stack) - 1 : stack'[p] = stack[p]
  BY <1>3, <1>5
<1>7. ASSUME stack' # <<>> PROVE Len(stack) - 1 \in Below(stack) /\ frame' = stack[Len(stack) - 1]
  <2>1. Len(stack) - 1 \in 1 .. Len(stack) - 1
    BY <1>2, <1>6, <1>7
  <2>2. frame' = stack'[Len(stack')]
    BY DEF frame, Last
  <2>3. QED
    BY <1>6, <2>1, <2>2 DEF Below
<1>8. StackIsList' /\ \A p \in Below(stack) : stack'[p] = stack[p]
  BY <1>6 DEF StackIsList, Below
<1>9. QED
  BY <1>6, <1>7, <1>8

----------------------------------------------------------------------------
(* What keeps the invariant. *)

ArraysKeep == job' = job /\ arr' \in [Indices -> Nat] /\ temp' \in [Indices -> Nat]

LEMMA KeptByGoto ==
  ASSUME SortInv, stack # <<>>, NEW pc, NEW v, Goto(pc, v), ArraysKeep,
         NEW f, f = [fn |-> frame.fn, args |-> frame.args, pc |-> pc, v |-> v],
         FrameFits(f, job), TopFits(f, arr', job)
  PROVE  SortInv'
<1>1. StackIsList /\ Len(stack) \in Nat
  BY StackFacts DEF SortInv
<1>2. /\ StackIsList' /\ stack' # <<>> /\ Len(stack') = Len(stack)
      /\ \A p \in Below(stack) : stack'[p] = stack[p]
      /\ frame' = f
  BY <1>1, GotoSteps
<1>3. Below(stack') = Below(stack) /\ frame' = stack'[Len(stack)]
  BY <1>2 DEF Below, frame, Last
<1>4. \A p \in 1 .. Len(stack) : p \in Below(stack) \/ p = Len(stack)
  BY <1>1 DEF Below
<1>5. job' = job /\ Indices' = Indices
  BY DEF ArraysKeep, Indices
<1>6. \A p \in 1 .. Len(stack') : FrameFits(stack'[p], job')
  BY <1>2, <1>3, <1>4, <1>5 DEF SortInv
<1>7. \A p \in Below(stack') : Waits(stack'[p])
  BY <1>2, <1>3 DEF SortInv
<1>8. QED
  BY <1>2, <1>5, <1>6, <1>7 DEF SortInv, ArraysKeep

LEMMA KeptByCall ==
  ASSUME SortInv, stack # <<>>, NEW pc, NEW v, NEW fn, NEW args, Call(pc, v, fn, args), ArraysKeep,
         NEW f, f = [fn |-> frame.fn, args |-> frame.args, pc |-> pc, v |-> v],
         FrameFits(f, job), Waits(f),
         FrameFits(Called(fn, args), job), TopFits(Called(fn, args), arr', job)
  PROVE  SortInv'
<1>1. StackIsList /\ Len(stack) \in Nat
  BY StackFacts DEF SortInv
<1>2. /\ StackIsList' /\ stack' # <<>> /\ Len(stack') = Len(stack) + 1
      /\ \A p \in Below(stack) : stack'[p] = stack[p]
      /\ stack'[Len(stack)] = f
      /\ frame' = Called(fn, args)
  BY <1>1, CallSteps
<1>3. frame' = stack'[Len(stack) + 1]
  BY <1>2 DEF frame, Last
<1>4. /\ \A p \in 1 .. Len(stack') : p \in Below(stack) \/ p = Len(stack) \/ p = Len(stack) + 1
      /\ \A p \in Below(stack') : p \in Below(stack) \/ p = Len(stack)
  BY <1>1, <1>2 DEF Below
<1>5. job' = job /\ Indices' = Indices
  BY DEF ArraysKeep, Indices
<1>6. \A p \in Below(stack) : p \in 1 .. Len(stack)
  BY <1>1 DEF Below
<1>7. \A p \in 1 .. Len(stack') : FrameFits(stack'[p], job')
  BY <1>2, <1>3, <1>4, <1>5, <1>6 DEF SortInv
<1>8. \A p \in Below(stack') : Waits(stack'[p])
  BY <1>2, <1>4 DEF SortInv
<1>9. QED
  BY <1>2, <1>5, <1>7, <1>8 DEF SortInv, ArraysKeep

LEMMA KeptByReturn ==
  ASSUME SortInv, stack # <<>>, NEW x, Return(x), ArraysKeep
  PROVE  SortInv'
<1>1. StackIsList /\ Len(stack) \in Nat
  BY StackFacts DEF SortInv
<1>2. /\ StackIsList' /\ Len(stack') = Len(stack) - 1
      /\ \A p \in Below(stack) : stack'[p] = stack[p]
      /\ stack' # <<>> => Len(stack) - 1 \in Below(stack) /\ frame' = stack[Len(stack) - 1]
  BY <1>1, ReturnSteps
<1>3. job' = job /\ Indices' = Indices
  BY DEF ArraysKeep, Indices
<1>4. /\ \A p \in 1 .. Len(stack') : p \in Below(stack) /\ p \in 1 .. Len(stack)
      /\ \A p \in Below(stack') : p \in Below(stack)
  BY <1>1, <1>2 DEF Below
<1>5. \A p \in 1 .. Len(stack') : FrameFits(stack'[p], job')
  BY <1>2, <1>3, <1>4 DEF SortInv
<1>6. \A p \in Below(stack') : Waits(stack'[p])
  BY <1>2, <1>4 DEF SortInv
<1>7. ASSUME stack' # <<>> PROVE TopFits(frame', arr', job')
  <2>1. Waits(frame')
    BY <1>2, <1>7 DEF SortInv
  <2>2. QED
    BY <2>1 DEF Waits, TopFits, ScansStop
<1>8. QED
  BY <1>2, <1>3, <1>5, <1>6, <1>7 DEF SortInv, ArraysKeep

----------------------------------------------------------------------------
(* The steps of the other functions. *)

LEMMA IndicesAreARange ==
  ASSUME SortInv
  PROVE  \E length \in Nat :
           /\ Indices = 0 .. length - 1 /\ Cardinality(Indices) = length
           /\ job.program = "quick_sort" => length > 0
<1>1. job \in Jobs
  BY DEF SortInv
<1>2. PICK length \in {Cardinality(DOMAIN job.arr)} :
        /\ length \in Nat /\ job.arr \in [0 .. length - 1 -> Nat]
        /\ job.program = "quick_sort" => length > 0
  BY <1>1, JobsAssumption
<1>3. QED
  BY <1>2 DEF Indices

SameArrays == job' = job /\ arr' = arr /\ temp' = temp

LEMMA SameArraysKeep ==
  ASSUME SortInv, SameArrays
  PROVE  ArraysKeep
BY DEF SortInv, SameArrays, ArraysKeep

(* A function that sorts nothing goes on, returns or calls another one. *)
Quiet ==
  /\ stack # <<>> /\ frame.fn \notin Sorts
  /\ \/ \E pc, v : Goto(pc, v)
     \/ \E x : Return(x)
     \/ \E pc, v, fn, args : fn \notin Sorts /\ Call(pc, v, fn, args)
     \/ stack' = <<>>

LEMMA TopFrameFits ==
  ASSUME SortInv, stack # <<>>
  PROVE  FrameFits(frame, job) /\ TopFits(frame, arr, job)
<1>1. StackIsList
  BY DEF SortInv
<1>2. Len(stack) \in Nat /\ Len(stack) > 0 /\ frame = stack[Len(stack)]
  BY <1>1, StackFacts
<1>3. QED
  BY <1>2 DEF SortInv

LEMMA QuietStep ==
  ASSUME SortInv, SameArrays, Quiet
  PROVE  SortInv'
<1>1. ArraysKeep /\ stack # <<>> /\ frame.fn \notin Sorts
  BY SameArraysKeep DEF Quiet
<1>2. ASSUME NEW pc, NEW v, Goto(pc, v) PROVE SortInv'
  <2> DEFINE f == [fn |-> frame.fn, args |-> frame.args, pc |-> pc, v |-> v]
  <2>1. FrameFits(f, job) /\ TopFits(f, arr', job)
    BY <1>1 DEF FrameFits, TopFits, Sorts
  <2> HIDE DEF f
  <2>2. f = [fn |-> frame.fn, args |-> frame.args, pc |-> pc, v |-> v]
    BY DEF f
  <2>3. QED
    BY <1>1, <1>2, <2>1, <2>2, KeptByGoto
<1>3. ASSUME NEW x, Return(x) PROVE SortInv'
  BY <1>1, <1>3, KeptByReturn
<1>4. ASSUME NEW pc, NEW v, NEW fn, NEW args, fn \notin Sorts, Call(pc, v, fn, args) PROVE SortInv'
  <2> DEFINE f == [fn |-> frame.fn, args |-> frame.args, pc |-> pc, v |-> v]
  <2>1. FrameFits(f, job) /\ Waits(f)
    BY <1>1 DEF FrameFits, Waits, Sorts
  <2>2. FrameFits(Called(fn, args), job) /\ TopFits(Called(fn, args), arr', job)
    BY <1>4 DEF FrameFits, TopFits, Sorts, Called
  <2> HIDE DEF f
  <2>3. f = [fn |-> frame.fn, args |-> frame.args, pc |-> pc, v |-> v]
    BY DEF f
  <2>4. QED
    BY <1>1, <1>4, <2>1, <2>2, <2>3, KeptByCall
<1>5. CASE stack' = <<>>
  <2>1. stack' \in Seq({}) /\ Len(stack') = 0
    BY <1>5
  <2>2. Indices' = Indices
    BY DEF SameArrays, Indices
  <2>3. \A p \in 1 .. Len(stack') : FALSE
    BY <2>1
  <2>4. \A p \in Below(stack') : FALSE
    BY <2>1 DEF Below
  <2>5. QED
    BY <1>5, <2>1, <2>2, <2>3, <2>4 DEF SortInv, SameArrays, StackIsList
<1>6. QED
  BY <1>2, <1>3, <1>4, <1>5 DEF Quiet

LEMMA ArithmeticIsQuiet ==
  ASSUME ArithmeticSteps
  PROVE  Quiet
<1>1. ASSUME udivsi3 PROVE Quiet
  BY <1>1 DEF udivsi3, Divide, Double, At, Quiet, Sorts
<1>2. ASSUME umodsi3 PROVE Quiet
  BY <1>2 DEF umodsi3, Divide, Double, At, Quiet, Sorts
<1>3. ASSUME divsi3 PROVE Quiet
  BY <1>3 DEF divsi3, At, Quiet, Sorts
<1>4. ASSUME modsi3 PROVE Quiet
  BY <1>4 DEF modsi3, At, Quiet, Sorts
<1>5. ASSUME mulsi3 PROVE Quiet
  BY <1>5 DEF mulsi3, At, Quiet, Sorts
<1>6. QED
  BY <1>1, <1>2, <1>3, <1>4, <1>5 DEF ArithmeticSteps

LEMMA OthersAreQuiet ==
  ASSUME fact \/ fib \/ start \/ matmul \/ malloc \/ memcpy \/ HeapUser
  PROVE  Quiet
<1>1. ASSUME fact PROVE Quiet
  BY <1>1 DEF fact, At, Quiet, Sorts
<1>2. ASSUME fib PROVE Quiet
  BY <1>2 DEF fib, At, Quiet, Sorts
<1>3. ASSUME start PROVE Quiet
  BY <1>3 DEF start, At, Quiet, Sorts
<1>4. ASSUME matmul PROVE Quiet
  <2>1. ASSUME matmul_loops PROVE Quiet
    BY <2>1 DEF matmul_loops, At, Quiet, Sorts
  <2>2. QED
    BY <1>4, <2>1 DEF matmul, At, Quiet, Sorts
<1>5. ASSUME malloc PROVE Quiet
  BY <1>5 DEF malloc, At, Quiet, Sorts
<1>6. ASSUME memcpy PROVE Quiet
  BY <1>6 DEF memcpy, At, Quiet, Sorts
<1>7. ASSUME HeapUser PROVE Quiet
  BY <1>7 DEF HeapUser, At, Quiet, Sorts
<1>8. QED
  BY <1>1, <1>2, <1>3, <1>4, <1>5, <1>6, <1>7

LEMMA MainStep ==
  ASSUME SortInv, SameArrays, main
  PROVE  SortInv'
<1>1. CASE At("main", "return") /\ Return(Main.result)
  BY <1>1, QuietStep DEF Quiet, At, Sorts
<1>2. CASE At("main", "entry") /\ Call("return", <<>>, job.program, Main.args)
  <2>1. CASE job.program \notin Sorts
    BY <1>2, <2>1, QuietStep DEF Quiet, At, Sorts
  <2>2. CASE job.program \in Sorts
    <3> DEFINE f == [fn |-> frame.fn, args |-> frame.args, pc |-> "return", v |-> <<>>]
    <3>1. ArraysKeep /\ stack # <<>> /\ frame.fn \notin Sorts
      BY <1>2, SameArraysKeep DEF At, Sorts
    <3>2. FrameFits(f, job) /\ Waits(f)
      BY <3>1 DEF FrameFits, Waits, Sorts
    <3>3. PICK length \in Nat :
            /\ Indices = 0 .. length - 1 /\ Cardinality(Indices) = length
            /\ job.program = "quick_sort" => length > 0
      BY IndicesAreARange
    <3>4. FrameFits(Called(job.program, Main.args), job)
      BY <3>3 DEF FrameFits, PartFits, Called, Main, QuickSortMain, Indices
    <3>5. TopFits(Called(job.program, Main.args), arr', job)
      BY <3>3 DEF TopFits, ScansStop, CountsFit, Called, Main, RadixSortMain, Indices
    <3> HIDE DEF f
    <3>6. f = [fn |-> frame.fn, args |-> frame.args, pc |-> "return", v |-> <<>>]
      BY DEF f
    <3>7. QED
      BY <1>2, <3>1, <3>2, <3>4, <3>5, <3>6, KeptByCall
  <2>3. QED
    BY <2>1, <2>2
<1>3. QED
  BY <1>1, <1>2 DEF main

----------------------------------------------------------------------------
(* quick_sort(): what stops a scan stays in front of it.                   *)

Arrays == [Indices -> Nat]

(* The frame as it goes on. *)
Going(pc, v) == [fn |-> frame.fn, args |-> frame.args, pc |-> pc, v |-> v]

LEMMA PartOnTop ==
  ASSUME SortInv, stack # <<>>, frame.fn = "quick_sort"
  PROVE  /\ frame.fn = job.program /\ PartFits(frame, Indices) /\ ScansStop(frame, arr)
         /\ arr \in Arrays /\ \E length \in Nat : Indices = 0 .. length - 1
BY TopFrameFits, IndicesAreARange DEF FrameFits, TopFits, Sorts, Indices, SortInv, Arrays

LEMMA PartGoesOn ==
  ASSUME SortInv, stack # <<>>, frame.fn = "quick_sort", NEW pc, NEW v, Goto(pc, v),
         job' = job, arr' \in Arrays, temp' = temp,
         PartFits(Going(pc, v), Indices), ScansStop(Going(pc, v), arr')
  PROVE  SortInv'
<1>1. frame.fn = job.program
  BY PartOnTop
<1>2. Going(pc, v).fn = "quick_sort"
  BY DEF Going
<1>3. FrameFits(Going(pc, v), job) /\ TopFits(Going(pc, v), arr', job)
  BY <1>1, <1>2 DEF FrameFits, TopFits, Indices
<1>4. ArraysKeep
  BY DEF ArraysKeep, SortInv, Arrays
<1>5. Going(pc, v) = [fn |-> frame.fn, args |-> frame.args, pc |-> pc, v |-> v]
  BY DEF Going
<1>6. QED
  BY <1>3, <1>4, <1>5, KeptByGoto

LEMMA PartIsCalled ==
  ASSUME SortInv, SameArrays, stack # <<>>, frame.fn = "quick_sort",
         NEW pc \in {"right", "return"}, NEW v, NEW from \in Indices, NEW to \in Indices,
         Call(pc, v, "quick_sort", <<from, to>>),
         PartFits(Going(pc, v), Indices)
  PROVE  SortInv'
<1>1. frame.fn = job.program /\ \E length \in Nat : Indices = 0 .. length - 1
  BY PartOnTop
<1>2. Going(pc, v).fn = "quick_sort" /\ Going(pc, v).pc = pc
  BY DEF Going
<1>3. FrameFits(Going(pc, v), job) /\ Waits(Going(pc, v))
  BY <1>1, <1>2 DEF FrameFits, Waits, Indices
<1> DEFINE new == Called("quick_sort", <<from, to>>)
<1>4. /\ new.fn = "quick_sort" /\ new.pc = "entry"
      /\ new.args[1] = from /\ new.args[2] = to
  BY DEF Called
<1> HIDE DEF new
<1>5. FrameFits(new, job) /\ TopFits(new, arr', job)
  BY <1>1, <1>4 DEF FrameFits, TopFits, PartFits, ScansStop, Indices
<1>6. ArraysKeep
  BY SameArraysKeep
<1>7. Going(pc, v) = [fn |-> frame.fn, args |-> frame.args, pc |-> pc, v |-> v]
  BY DEF Going
<1>8. QED
  BY <1>3, <1>5, <1>6, <1>7, KeptByCall DEF new

LEMMA EntryStep ==
  ASSUME SortInv, quick_sort_entry, job' = job, temp' = temp
  PROVE  SortInv'
<1>1. stack # <<>> /\ frame.fn = "quick_sort" /\ frame.pc = "entry" /\ arr' = arr
  BY DEF quick_sort_entry, At
<1>2. /\ PartFits(frame, Indices) /\ arr \in Arrays /\ \E length \in Nat : Indices = 0 .. length - 1
  BY <1>1, PartOnTop
<1>3. CASE left >= right
  BY <1>1, <1>3, SameArraysKeep, KeptByReturn DEF quick_sort_entry, SameArrays
<1>4. CASE ~(left >= right)
  <2> DEFINE v == [i |-> left, j |-> right, pivot |-> arr[(left + right) \div 2]]
  <2>1. /\ left \in Int /\ right \in Int /\ left < right /\ left \in Indices /\ right \in Indices
    BY <1>2, <1>4 DEF PartFits, left, right
  <2>2. (left + right) \div 2 \in left .. right /\ (left + right) \div 2 \in Indices
    BY <1>2, <2>1
  <2>3. arr[(left + right) \div 2] \in Nat
    BY <1>2, <2>2 DEF Arrays
  <2> DEFINE f == Going("outer", v)
  <2>4. /\ f.args[1] = left /\ f.args[2] = right /\ f.pc = "outer" /\ f.v = v
        /\ v.i = left /\ v.j = right /\ v.pivot = arr[(left + right) \div 2]
        /\ v \in [i : Int, j : Int, pivot : Int]
    BY <2>1, <2>3 DEF Going, left, right
  <2>5. Goto("outer", v)
    BY <1>4 DEF quick_sort_entry
  <2> HIDE DEF v, f
  <2>6. PartFits(f, Indices)
    BY <2>1, <2>4 DEF PartFits
  <2>7. StopsUp(f, arr) /\ StopsDown(f, arr)
    BY <2>1, <2>2, <2>3, <2>4 DEF StopsUp, StopsDown
  <2>8. ScansStop(f, arr')
    BY <1>1, <2>4, <2>7 DEF ScansStop
  <2>9. QED
    BY <1>1, <1>2, <2>5, <2>6, <2>8, PartGoesOn DEF f
<1>5. QED
  BY <1>3, <1>4

(* What is known of the variables in the middle of the loop. *)
LEMMA PartVariables ==
  ASSUME SortInv, stack # <<>>, frame.fn = "quick_sort", frame.pc # "entry"
  PROVE  /\ left \in Indices /\ right \in Indices /\ left < right
         /\ i \in Int /\ j \in Int /\ pivot \in Int /\ left <= i /\ j <= right
         /\ frame.v = [i |-> i, j |-> j, pivot |-> pivot]
         /\ arr \in Arrays /\ ScansStop(frame, arr)
         /\ \E length \in Nat : Indices = 0 .. length - 1
BY PartOnTop DEF PartFits, left, right, i, j, pivot

LEMMA GoingIsPart ==
  ASSUME SortInv, stack # <<>>, frame.fn = "quick_sort", frame.pc # "entry",
         NEW pc, NEW k \in Int, NEW l \in Int, left <= k, l <= right,
         NEW f, f = Going(pc, [i |-> k, j |-> l, pivot |-> pivot])
  PROVE  /\ f.args[1] = left /\ f.args[2] = right /\ f.pc = pc
         /\ f.v.i = k /\ f.v.j = l /\ f.v.pivot = pivot
         /\ PartFits(f, Indices)
<1>1. /\ f.args[1] = left /\ f.args[2] = right /\ f.pc = pc
      /\ f.v = [i |-> k, j |-> l, pivot |-> pivot]
  BY DEF Going, left, right
<1>2. f.v.i = k /\ f.v.j = l /\ f.v.pivot = pivot /\ f.v \in [i : Int, j : Int, pivot : Int]
  BY <1>1, PartVariables
<1>3. left \in Int /\ right \in Int
  BY PartVariables
<1>4. QED
  BY <1>1, <1>2, <1>3, PartVariables DEF PartFits

LEMMA ScanUpStep ==
  ASSUME SortInv, ScanUp, job' = job, temp' = temp
  PROVE  SortInv'
<1>1. stack # <<>> /\ frame.fn = "quick_sort" /\ frame.pc = "up" /\ arr' = arr
  BY DEF ScanUp, At
<1>2. /\ left \in Indices /\ right \in Indices /\ left < right
      /\ i \in Int /\ j \in Int /\ pivot \in Int /\ left <= i /\ j <= right
      /\ frame.v = [i |-> i, j |-> j, pivot |-> pivot]
      /\ arr \in Arrays /\ ScansStop(frame, arr)
      /\ \E length \in Nat : Indices = 0 .. length - 1
  BY <1>1, PartVariables
<1>3. PICK k \in i .. right, l \in left .. j : arr[k] >= pivot /\ arr[l] <= pivot
  BY <1>1, <1>2 DEF ScansStop, StopsUp, StopsDown, left, right, i, j, pivot
<1>4. i \in Indices /\ arr[i] \in Nat
  BY <1>2, <1>3 DEF Arrays
<1>5. CASE arr[i] < pivot
  <2>1. k \in i + 1 .. right
    BY <1>2, <1>3, <1>4, <1>5
  <2>2. PICK f : f = Going("up", [i |-> i + 1, j |-> j, pivot |-> pivot])
    OBVIOUS
  <2>3. /\ f.args[1] = left /\ f.args[2] = right /\ f.pc = "up"
        /\ f.v.i = i + 1 /\ f.v.j = j /\ f.v.pivot = pivot /\ PartFits(f, Indices)
    BY <1>1, <1>2, <2>2, GoingIsPart
  <2>4. ScansStop(f, arr')
    BY <1>1, <1>3, <2>1, <2>3 DEF ScansStop, StopsUp, StopsDown
  <2>5. Goto("up", [i |-> i + 1, j |-> j, pivot |-> pivot])
    BY <1>2, <1>5 DEF ScanUp
  <2>6. QED
    BY <1>1, <1>2, <2>2, <2>3, <2>4, <2>5, PartGoesOn
<1>6. CASE ~(arr[i] < pivot)
  <2>1. i <= right /\ arr[i] >= pivot
    BY <1>2, <1>3, <1>4, <1>6
  <2>2. PICK f : f = Going("down", [i |-> i, j |-> j, pivot |-> pivot])
    OBVIOUS
  <2>3. /\ f.args[1] = left /\ f.args[2] = right /\ f.pc = "down"
        /\ f.v.i = i /\ f.v.j = j /\ f.v.pivot = pivot /\ PartFits(f, Indices)
    BY <1>1, <1>2, <2>2, GoingIsPart
  <2>4. ScansStop(f, arr')
    BY <1>1, <1>3, <2>1, <2>3 DEF ScansStop, StoppedUp, StopsDown
  <2>5. Goto("down", [i |-> i, j |-> j, pivot |-> pivot])
    BY <1>2, <1>6 DEF ScanUp
  <2>6. QED
    BY <1>1, <1>2, <2>2, <2>3, <2>4, <2>5, PartGoesOn
<1>7. QED
  BY <1>5, <1>6

LEMMA ScanDownStep ==
  ASSUME SortInv, ScanDown, job' = job, temp' = temp
  PROVE  SortInv'
<1>1. stack # <<>> /\ frame.fn = "quick_sort" /\ frame.pc = "down" /\ arr' = arr
  BY DEF ScanDown, At
<1>2. /\ left \in Indices /\ right \in Indices /\ left < right
      /\ i \in Int /\ j \in Int /\ pivot \in Int /\ left <= i /\ j <= right
      /\ frame.v = [i |-> i, j |-> j, pivot |-> pivot]
      /\ arr \in Arrays /\ ScansStop(frame, arr)
      /\ \E length \in Nat : Indices = 0 .. length - 1
  BY <1>1, PartVariables
<1>3. i <= right /\ arr[i] >= pivot /\ \E l \in left .. j : arr[l] <= pivot
  BY <1>1, <1>2 DEF ScansStop, StoppedUp, StopsDown, left, right, i, j, pivot
<1>4. PICK l \in left .. j : arr[l] <= pivot
  BY <1>3
<1>5. j \in Indices /\ arr[j] \in Nat
  BY <1>2, <1>4 DEF Arrays
<1>6. CASE arr[j] > pivot
  <2>1. l \in left .. j - 1
    BY <1>2, <1>4, <1>5, <1>6
  <2>2. PICK f : f = Going("down", [i |-> i, j |-> j - 1, pivot |-> pivot])
    OBVIOUS
  <2>3. /\ f.args[1] = left /\ f.args[2] = right /\ f.pc = "down"
        /\ f.v.i = i /\ f.v.j = j - 1 /\ f.v.pivot = pivot /\ PartFits(f, Indices)
    BY <1>1, <1>2, <2>2, GoingIsPart
  <2>4. ScansStop(f, arr')
    BY <1>1, <1>3, <1>4, <2>1, <2>3 DEF ScansStop, StoppedUp, StopsDown
  <2>5. Goto("down", [i |-> i, j |-> j - 1, pivot |-> pivot])
    BY <1>2, <1>6 DEF ScanDown
  <2>6. QED
    BY <1>1, <1>2, <2>2, <2>3, <2>4, <2>5, PartGoesOn
<1>7. CASE ~(arr[j] > pivot)
  <2>1. left <= j /\ arr[j] <= pivot
    BY <1>2, <1>4, <1>5, <1>7
  <2>2. PICK f : f = Going("swap", [i |-> i, j |-> j, pivot |-> pivot])
    OBVIOUS
  <2>3. /\ f.args[1] = left /\ f.args[2] = right /\ f.pc = "swap"
        /\ f.v.i = i /\ f.v.j = j /\ f.v.pivot = pivot /\ PartFits(f, Indices)
    BY <1>1, <1>2, <2>2, GoingIsPart
  <2>4. ScansStop(f, arr')
    BY <1>1, <1>3, <2>1, <2>3 DEF ScansStop, StoppedUp, StoppedDown
  <2>5. Goto("swap", [i |-> i, j |-> j, pivot |-> pivot])
    BY <1>2, <1>7 DEF ScanDown
  <2>6. QED
    BY <1>1, <1>2, <2>2, <2>3, <2>4, <2>5, PartGoesOn
<1>8. QED
  BY <1>6, <1>7

(* After a swap the elements swapped stop the next scans. *)
LEMMA SwapStep ==
  ASSUME SortInv, Swap, job' = job, temp' = temp
  PROVE  SortInv'
<1>1. stack # <<>> /\ frame.fn = "quick_sort" /\ frame.pc = "swap"
  BY DEF Swap, At
<1>2. /\ left \in Indices /\ right \in Indices /\ left < right
      /\ i \in Int /\ j \in Int /\ pivot \in Int /\ left <= i /\ j <= right
      /\ frame.v = [i |-> i, j |-> j, pivot |-> pivot]
      /\ arr \in Arrays /\ ScansStop(frame, arr)
      /\ \E length \in Nat : Indices = 0 .. length - 1
  BY <1>1, PartVariables
<1>3. i <= right /\ arr[i] >= pivot /\ left <= j /\ arr[j] <= pivot
  BY <1>1, <1>2 DEF ScansStop, StoppedUp, StoppedDown, left, right, i, j, pivot
<1>4. i \in Indices /\ j \in Indices
  BY <1>2, <1>3
<1>5. CASE i <= j
  <2>1. arr' = [arr EXCEPT ![i] = arr[j], ![j] = arr[i]]
    BY <1>5 DEF Swap
  <2>2. arr' \in Arrays
    BY <1>2, <1>4, <2>1 DEF Arrays
  <2>3. arr'[j] = arr[i] /\ (i # j => arr'[i] = arr[j])
    BY <1>2, <1>4, <2>1 DEF Arrays
  <2>4. PICK f : f = Going("outer", [i |-> i + 1, j |-> j - 1, pivot |-> pivot])
    OBVIOUS
  <2>5. /\ f.args[1] = left /\ f.args[2] = right /\ f.pc = "outer"
        /\ f.v.i = i + 1 /\ f.v.j = j - 1 /\ f.v.pivot = pivot /\ PartFits(f, Indices)
    BY <1>1, <1>2, <2>4, GoingIsPart
  <2>6. ASSUME i + 1 <= j - 1
        PROVE  /\ i # j
               /\ j \in i + 1 .. right /\ arr'[j] >= pivot
               /\ i \in left .. j - 1 /\ arr'[i] <= pivot
    BY <1>2, <1>3, <2>3, <2>6
  <2>7. ScansStop(f, arr')
    BY <2>5, <2>6 DEF ScansStop, StopsUp, StopsDown
  <2>8. Goto("outer", [i |-> i + 1, j |-> j - 1, pivot |-> pivot])
    BY <1>5 DEF Swap
  <2>9. QED
    BY <1>1, <2>2, <2>4, <2>5, <2>7, <2>8, PartGoesOn
<1>6. CASE ~(i <= j)
  <2>1. arr' = arr /\ Goto("outer", [i |-> i, j |-> j, pivot |-> pivot])
    BY <1>2, <1>6 DEF Swap
  <2>2. PICK f : f = Going("outer", [i |-> i, j |-> j, pivot |-> pivot])
    OBVIOUS
  <2>3. /\ f.args[1] = left /\ f.args[2] = right /\ f.pc = "outer"
        /\ f.v.i = i /\ f.v.j = j /\ f.v.pivot = pivot /\ PartFits(f, Indices)
    BY <1>1, <1>2, <2>2, GoingIsPart
  <2>4. ScansStop(f, arr')
    BY <1>6, <2>3 DEF ScansStop
  <2>5. QED
    BY <1>1, <1>2, <2>1, <2>2, <2>3, <2>4, PartGoesOn
<1>7. QED
  BY <1>5, <1>6

(* The two parts that are left lie inside the one that was sorted. *)
LEMMA OuterStep ==
  ASSUME SortInv, Outer, job' = job, temp' = temp
  PROVE  SortInv'
<1>1. stack # <<>> /\ frame.fn = "quick_sort" /\ frame.pc = "outer" /\ arr' = arr
  BY DEF Outer, At
<1>2. /\ left \in Indices /\ right \in Indices /\ left < right
      /\ i \in Int /\ j \in Int /\ pivot \in Int /\ left <= i /\ j <= right
      /\ frame.v = [i |-> i, j |-> j, pivot |-> pivot]
      /\ arr \in Arrays /\ ScansStop(frame, arr)
      /\ \E length \in Nat : Indices = 0 .. length - 1
  BY <1>1, PartVariables
<1>3. CASE i <= j
  <2>1. StopsUp(frame, arr) /\ StopsDown(frame, arr)
    BY <1>1, <1>2, <1>3 DEF ScansStop, i, j
  <2>2. PICK f : f = Going("up", [i |-> i, j |-> j, pivot |-> pivot])
    OBVIOUS
  <2>3. /\ f.args[1] = left /\ f.args[2] = right /\ f.pc = "up"
        /\ f.v.i = i /\ f.v.j = j /\ f.v.pivot = pivot /\ PartFits(f, Indices)
    BY <1>1, <1>2, <2>2, GoingIsPart
  <2>4. ScansStop(f, arr')
    BY <1>1, <2>1, <2>3 DEF ScansStop, StopsUp, StopsDown, left, right, i, j, pivot
  <2>5. Goto("up", [i |-> i, j |-> j, pivot |-> pivot])
    BY <1>2, <1>3 DEF Outer
  <2>6. QED
    BY <1>1, <1>2, <2>2, <2>3, <2>4, <2>5, PartGoesOn
<1>4. CASE ~(i <= j)
  <2>1. PICK f : f = Going("right", [i |-> i, j |-> j, pivot |-> pivot])
    OBVIOUS
  <2>2. f.pc = "right" /\ PartFits(f, Indices)
    BY <1>1, <1>2, <2>1, GoingIsPart
  <2>3. CASE left < j
    <3>1. j \in Indices
      BY <1>2, <2>3
    <3>2. Call("right", [i |-> i, j |-> j, pivot |-> pivot], "quick_sort", <<left, j>>)
      BY <1>2, <1>4, <2>3 DEF Outer
    <3>3. QED
      BY <1>1, <1>2, <2>1, <2>2, <3>1, <3>2, PartIsCalled DEF SameArrays
  <2>4. CASE ~(left < j)
    <3>1. Goto("right", [i |-> i, j |-> j, pivot |-> pivot])
      BY <1>2, <1>4, <2>4 DEF Outer
    <3>2. ScansStop(f, arr')
      BY <2>2 DEF ScansStop
    <3>3. QED
      BY <1>1, <1>2, <2>1, <2>2, <3>1, <3>2, PartGoesOn
  <2>5. QED
    BY <2>3, <2>4
<1>5. QED
  BY <1>3, <1>4

LEMMA SecondHalfStep ==
  ASSUME SortInv, SecondHalf, job' = job, temp' = temp
  PROVE  SortInv'
<1>1. stack # <<>> /\ frame.fn = "quick_sort" /\ frame.pc = "right" /\ arr' = arr
  BY DEF SecondHalf, At
<1>2. /\ left \in Indices /\ right \in Indices /\ left < right
      /\ i \in Int /\ j \in Int /\ pivot \in Int /\ left <= i /\ j <= right
      /\ frame.v = [i |-> i, j |-> j, pivot |-> pivot]
      /\ arr \in Arrays /\ ScansStop(frame, arr)
      /\ \E length \in Nat : Indices = 0 .. length - 1
  BY <1>1, PartVariables
<1>3. PICK f : f = Going("return", [i |-> i, j |-> j, pivot |-> pivot])
  OBVIOUS
<1>4. f.pc = "return" /\ PartFits(f, Indices)
  BY <1>1, <1>2, <1>3, GoingIsPart
<1>5. CASE i < right
  <2>1. i \in Indices
    BY <1>2, <1>5
  <2>2. Call("return", [i |-> i, j |-> j, pivot |-> pivot], "quick_sort", <<i, right>>)
    BY <1>2, <1>5 DEF SecondHalf
  <2>3. QED
    BY <1>1, <1>2, <1>3, <1>4, <2>1, <2>2, PartIsCalled DEF SameArrays
<1>6. CASE ~(i < right)
  <2>1. Goto("return", [i |-> i, j |-> j, pivot |-> pivot])
    BY <1>2, <1>6 DEF SecondHalf
  <2>2. ScansStop(f, arr')
    BY <1>4 DEF ScansStop
  <2>3. QED
    BY <1>1, <1>2, <1>3, <1>4, <2>1, <2>2, PartGoesOn
<1>7. QED
  BY <1>5, <1>6

LEMMA QuickSortStep ==
  ASSUME SortInv, quick_sort, job' = job, temp' = temp
  PROVE  SortInv'
<1>1. CASE At("quick_sort", "return") /\ Return(a0) /\ UNCHANGED arr
  BY <1>1, SameArraysKeep, KeptByReturn DEF At, SameArrays
<1>2. QED
  BY <1>1, EntryStep, ScanUpStep, ScanDownStep, SwapStep, OuterStep, SecondHalfStep DEF quick_sort

----------------------------------------------------------------------------
(* radix_sort(): what its counts count.                                    *)

LEMMA DigitsFit ==
  ASSUME NEW x \in Nat, NEW p \in 0 .. Passes - 1
  PROVE  Digit(x, p) \in 0 .. Radix - 1
<1>1. Weight(p) \in Nat \ {0} /\ Radix \in Nat \ {0}
  BY PowersAssumption
<1>2. x \div Weight(p) \in Nat
  BY <1>1
<1>3. \A y \in Nat : y % Radix \in 0 .. Radix - 1
  BY <1>1
<1>4. QED
  BY <1>2, <1>3 DEF Digit

LEMMA PartsAreFinite ==
  ASSUME NEW length \in Nat, NEW T, T \subseteq 0 .. length - 1
  PROVE  IsFiniteSet(T) /\ Cardinality(T) \in 0 .. length
<1>1. IsFiniteSet(0 .. length - 1) /\ Cardinality(0 .. length - 1) = length
  BY FS_Interval
<1>2. IsFiniteSet(T) /\ Cardinality(T) <= length
  BY <1>1, FS_Subset
<1>3. Cardinality(T) \in Nat
  BY <1>2, FS_CardinalityType
<1>4. QED
  BY <1>2, <1>3

LEMMA SeenBounds ==
  ASSUME NEW length \in Nat, NEW a \in [0 .. length - 1 -> Nat], NEW p, NEW d
  PROVE  /\ Cardinality(Seen(a, p, d, 0)) = 0
         /\ \A m \in Int : m >= length => Seen(a, p, d, m) = With(a, p, d)
<1>1. Seen(a, p, d, 0) = {}
  BY DEF Seen
<1>2. ASSUME NEW m \in Int, m >= length PROVE Seen(a, p, d, m) = With(a, p, d)
  BY <1>2 DEF Seen, With
<1>3. QED
  BY <1>1, <1>2, FS_EmptySet

LEMMA SeenNext ==
  ASSUME NEW length \in Nat, NEW a \in [0 .. length - 1 -> Nat], NEW p, NEW d,
         NEW m \in 0 .. length - 1
  PROVE  /\ Digit(a[m], p) = d =>
              Cardinality(Seen(a, p, d, m + 1)) = Cardinality(Seen(a, p, d, m)) + 1
         /\ Digit(a[m], p) # d => Seen(a, p, d, m + 1) = Seen(a, p, d, m)
<1>1. Seen(a, p, d, m) \subseteq 0 .. length - 1 /\ m \notin Seen(a, p, d, m)
  BY DEF Seen
<1>2. IsFiniteSet(Seen(a, p, d, m)) /\ Cardinality(Seen(a, p, d, m)) \in 0 .. length
  BY <1>1, PartsAreFinite
<1>3. CASE Digit(a[m], p) = d
  <2>1. Seen(a, p, d, m + 1) = Seen(a, p, d, m) \cup {m}
    BY <1>3 DEF Seen
  <2>2. QED
    BY <1>1, <1>2, <1>3, <2>1, FS_AddElement
<1>4. CASE Digit(a[m], p) # d
  <2>1. Seen(a, p, d, m + 1) = Seen(a, p, d, m)
    BY <1>4 DEF Seen
  <2>2. QED
    BY <1>4, <2>1
<1>5. QED
  BY <1>3, <1>4

LEMMA SumsCount ==
  ASSUME NEW length \in Nat, NEW a \in [0 .. length - 1 -> Nat], NEW p \in 0 .. Passes - 1
  PROVE  /\ UpTo(a, p, 0) = With(a, p, 0)
         /\ \A d \in 1 .. Radix - 1 :
              Cardinality(UpTo(a, p, d))
                = Cardinality(With(a, p, d)) + Cardinality(UpTo(a, p, d - 1))
<1>1. Radix \in Nat \ {0}
  BY PowersAssumption
<1>2. \A k \in 0 .. length - 1 : Digit(a[k], p) \in 0 .. Radix - 1
  BY DigitsFit
<1>3. \A k \in 0 .. length - 1 : Digit(a[k], p) \in Nat
  BY <1>1, <1>2
<1>4. UpTo(a, p, 0) = With(a, p, 0)
  BY <1>3 DEF UpTo, With
<1>5. ASSUME NEW d \in 1 .. Radix - 1
      PROVE  Cardinality(UpTo(a, p, d))
               = Cardinality(With(a, p, d)) + Cardinality(UpTo(a, p, d - 1))
  <2>1. UpTo(a, p, d) = With(a, p, d) \cup UpTo(a, p, d - 1)
    <3>1. \A x \in Nat : x <= d <=> x = d \/ x <= d - 1
      BY <1>1
    <3>2. QED
      BY <1>3, <3>1 DEF UpTo, With
  <2>2. With(a, p, d) \cap UpTo(a, p, d - 1) = {}
    BY <1>1, <1>3 DEF UpTo, With
  <2>3. With(a, p, d) \subseteq 0 .. length - 1 /\ UpTo(a, p, d - 1) \subseteq 0 .. length - 1
    BY DEF UpTo, With
  <2>4. /\ IsFiniteSet(With(a, p, d)) /\ Cardinality(With(a, p, d)) \in 0 .. length
        /\ IsFiniteSet(UpTo(a, p, d - 1)) /\ Cardinality(UpTo(a, p, d - 1)) \in 0 .. length
    BY <2>3, PartsAreFinite
  <2>5. Cardinality(With(a, p, d) \cap UpTo(a, p, d - 1)) = 0
    BY <2>2, FS_EmptySet
  <2>6. Cardinality(With(a, p, d) \cup UpTo(a, p, d - 1))
          = Cardinality(With(a, p, d)) + Cardinality(UpTo(a, p, d - 1))
              - Cardinality(With(a, p, d) \cap UpTo(a, p, d - 1))
    BY <2>4, FS_Union, Zenon
  <2>7. QED
    BY <2>1, <2>4, <2>5, <2>6
<1>6. QED
  BY <1>4, <1>5

LEMMA PlacesCount ==
  ASSUME NEW length \in Nat, NEW a \in [0 .. length - 1 -> Nat], NEW p \in 0 .. Passes - 1,
         NEW d \in 0 .. Radix - 1
  PROVE  /\ ToPlace(a, p, d, length - 1) = UpTo(a, p, d)
         /\ \A m \in 0 .. length - 1 :
              /\ Digit(a[m], p) = d =>
                   /\ Cardinality(ToPlace(a, p, d, m - 1)) = Cardinality(ToPlace(a, p, d, m)) - 1
                   /\ Cardinality(ToPlace(a, p, d, m)) \in 1 .. length
              /\ Digit(a[m], p) # d => ToPlace(a, p, d, m - 1) = ToPlace(a, p, d, m)
<1>1. Radix \in Nat \ {0}
  BY PowersAssumption
<1>2. \A k \in 0 .. length - 1 : Digit(a[k], p) \in 0 .. Radix - 1
  BY DigitsFit
<1>3. \A k \in 0 .. length - 1 : Digit(a[k], p) \in Nat
  BY <1>1, <1>2
<1>4. ToPlace(a, p, d, length - 1) = UpTo(a, p, d)
  <2>1. \A x \in Nat : x <= d <=> x < d \/ x = d
    BY <1>1
  <2>2. \A k \in 0 .. length - 1 : k <= length - 1
    OBVIOUS
  <2>3. QED
    BY <1>3, <2>1, <2>2 DEF UpTo, ToPlace
<1>5. ASSUME NEW m \in 0 .. length - 1
      PROVE  /\ Digit(a[m], p) = d =>
                  /\ Cardinality(ToPlace(a, p, d, m - 1)) = Cardinality(ToPlace(a, p, d, m)) - 1
                  /\ Cardinality(ToPlace(a, p, d, m)) \in 1 .. length
             /\ Digit(a[m], p) # d => ToPlace(a, p, d, m - 1) = ToPlace(a, p, d, m)
  <2>1. ToPlace(a, p, d, m) \subseteq 0 .. length - 1
    BY DEF ToPlace
  <2>2. IsFiniteSet(ToPlace(a, p, d, m)) /\ Cardinality(ToPlace(a, p, d, m)) \in 0 .. length
    BY <2>1, PartsAreFinite
  <2>3. CASE Digit(a[m], p) = d
    <3>1. m \in ToPlace(a, p, d, m)
      BY <2>3 DEF ToPlace
    <3>2. ToPlace(a, p, d, m - 1) = ToPlace(a, p, d, m) \ {m}
      BY <1>1, <1>3, <2>3 DEF ToPlace
    <3>3. Cardinality(ToPlace(a, p, d, m)) # 0
      BY <2>2, <3>1, FS_EmptySet
    <3>4. Cardinality(ToPlace(a, p, d, m) \ {m}) = Cardinality(ToPlace(a, p, d, m)) - 1
      BY <2>2, <3>1, FS_RemoveElement
    <3>5. Cardinality(ToPlace(a, p, d, m)) \in 1 .. length
      BY <2>2, <3>3
    <3>6. Cardinality(ToPlace(a, p, d, m - 1)) = Cardinality(ToPlace(a, p, d, m)) - 1
      BY <3>2, <3>4, Zenon
    <3>7. QED
      BY <2>3, <3>5, <3>6
  <2>4. CASE Digit(a[m], p) # d
    <3>1. ToPlace(a, p, d, m - 1) = ToPlace(a, p, d, m)
      BY <2>4 DEF ToPlace
    <3>2. QED
      BY <2>2, <2>4, <3>1
  <2>5. QED
    BY <2>3, <2>4
<1>6. QED
  BY <1>4, <1>5

----------------------------------------------------------------------------
(* radix_sort(), phase by phase.                                           *)

Counts == [0 .. Radix - 1 -> Int]

LEMMA RadixOnTop ==
  ASSUME SortInv, stack # <<>>, frame.fn = "radix_sort"
  PROVE  \E length \in Nat :
           /\ frame.fn = job.program /\ Indices = 0 .. length - 1 /\ Length = length
           /\ arr \in [0 .. length - 1 -> Nat] /\ arr \in Arrays /\ temp \in Arrays
           /\ frame.pc # "entry" =>
                /\ pass \in 0 .. Passes - 1 /\ i \in Int /\ count \in Counts
                /\ frame.pc \in {"clear", "count", "copy"} => i >= 0
                /\ frame.pc = "prefix" => i >= 1
                /\ frame.pc = "place" => i < length
                /\ Counted(frame, arr)
<1>1. PICK length \in Nat : Indices = 0 .. length - 1 /\ Cardinality(Indices) = length
  BY IndicesAreARange
<1>2. frame.fn = job.program /\ CountsFit(frame, arr, length)
  BY <1>1, TopFrameFits DEF FrameFits, TopFits, Sorts, Indices
<1>3. arr \in Arrays /\ temp \in Arrays
  BY DEF SortInv, Arrays
<1>4. QED
  BY <1>1, <1>2, <1>3 DEF CountsFit, Length, pass, i, count, Counts, Arrays

LEMMA RadixGoesOn ==
  ASSUME SortInv, stack # <<>>, frame.fn = "radix_sort", NEW pc, NEW p \in 0 .. Passes - 1,
         NEW k \in Int, NEW c \in Counts,
         Goto(pc, [pass |-> p, i |-> k, count |-> c]),
         job' = job, arr' \in Arrays, temp' \in Arrays,
         pc \in {"clear", "count", "prefix", "place", "copy"},
         pc \in {"clear", "count", "copy"} => k >= 0,
         pc = "prefix" => k >= 1, pc = "place" => k < Length,
         \A d \in 0 .. Radix - 1 :
           /\ pc = "clear" /\ d < k => c[d] = 0
           /\ pc = "count" => c[d] = Cardinality(Seen(arr', p, d, k))
           /\ pc = "prefix" => c[d] = Cardinality(IF d < k THEN UpTo(arr', p, d) ELSE With(arr', p, d))
           /\ pc = "place" => c[d] = Cardinality(ToPlace(arr', p, d, k))
  PROVE  SortInv'
<1>1. PICK f : f = Going(pc, [pass |-> p, i |-> k, count |-> c])
  OBVIOUS
<1>2. /\ f.fn = frame.fn /\ f.args = frame.args /\ f.pc = pc
      /\ f.v = [pass |-> p, i |-> k, count |-> c]
  BY <1>1 DEF Going
<1>3. /\ f.v.pass = p /\ f.v.i = k /\ f.v.count = c
      /\ f.v \in [pass : 0 .. Passes - 1, i : Int, count : [0 .. Radix - 1 -> Int]]
  BY <1>2 DEF Counts
<1>4. PICK length \in Nat : Indices = 0 .. length - 1 /\ Cardinality(Indices) = length
  BY IndicesAreARange
<1>5. frame.fn = job.program /\ CountsFit(frame, arr, length)
  BY <1>4, TopFrameFits DEF FrameFits, TopFits, Sorts, Indices
<1>6. Counted(f, arr')
  BY <1>2, <1>3 DEF Counted
<1>7. f.args[1] = length /\ Length = length
  BY <1>2, <1>5 DEF CountsFit, Length
<1>8. CountsFit(f, arr', length)
  BY <1>2, <1>3, <1>6, <1>7 DEF CountsFit
<1>9. FrameFits(f, job) /\ TopFits(f, arr', job)
  BY <1>2, <1>4, <1>5, <1>8 DEF FrameFits, TopFits, Indices
<1>10. ArraysKeep
  BY DEF ArraysKeep, Arrays
<1>11. f = [fn |-> frame.fn, args |-> frame.args, pc |-> pc, v |-> [pass |-> p, i |-> k, count |-> c]]
  BY <1>1 DEF Going
<1>12. QED
  BY <1>9, <1>10, <1>11, KeptByGoto

LEMMA RadixEntryStep ==
  ASSUME SortInv, radix_entry, job' = job
  PROVE  SortInv'
<1>1. stack # <<>> /\ frame.fn = "radix_sort" /\ arr' = arr /\ temp' = temp
  BY DEF radix_entry, At
<1>2. arr \in Arrays /\ temp \in Arrays
  BY <1>1, RadixOnTop
<1> DEFINE c == [d \in 0 .. Radix - 1 |-> 1]
<1>3. Goto("clear", [pass |-> 0, i |-> 0, count |-> c])
  BY DEF radix_entry
<1>4. c \in Counts /\ 0 \in 0 .. Passes - 1 /\ Radix \in Nat
  BY PowersAssumption, RuntimeAssumption DEF Counts
<1> HIDE DEF c
<1>5. \A d \in 0 .. Radix - 1 : ~(d < 0)
  BY <1>4
<1>6. QED
  BY <1>1, <1>2, <1>3, <1>4, <1>5, RadixGoesOn

LEMMA ClearStep ==
  ASSUME SortInv, Clear, job' = job
  PROVE  SortInv'
<1>1. stack # <<>> /\ frame.fn = "radix_sort" /\ frame.pc = "clear" /\ arr' = arr /\ temp' = temp
  BY DEF Clear, At
<1>2. PICK length \in Nat :
        /\ arr \in [0 .. length - 1 -> Nat] /\ arr \in Arrays /\ temp \in Arrays
        /\ pass \in 0 .. Passes - 1 /\ i \in Int /\ count \in Counts /\ i >= 0
        /\ Counted(frame, arr)
  BY <1>1, RadixOnTop
<1>3. Radix \in Nat \ {0} /\ \A d \in 0 .. Radix - 1 : d < i => count[d] = 0
  BY <1>1, <1>2, PowersAssumption DEF Counted, i, count
<1>4. CASE i < Radix
  <2> DEFINE c == [count EXCEPT ![i] = 0]
  <2>1. Goto("clear", [pass |-> pass, i |-> i + 1, count |-> c])
    BY <1>4 DEF Clear, Counting
  <2>2. c \in Counts /\ \A d \in 0 .. Radix - 1 : d < i + 1 => c[d] = 0
    BY <1>2, <1>3, <1>4 DEF Counts
  <2> HIDE DEF c
  <2>3. i + 1 \in Int /\ i + 1 >= 0
    BY <1>2
  <2>4. QED
    BY <1>1, <1>2, <2>1, <2>2, <2>3, RadixGoesOn
<1>5. CASE ~(i < Radix)
  <2>1. Goto("count", [pass |-> pass, i |-> 0, count |-> count])
    BY <1>5 DEF Clear, Counting
  <2>2. \A d \in 0 .. Radix - 1 : count[d] = 0
    BY <1>2, <1>3, <1>5
  <2>3. \A d \in 0 .. Radix - 1 : Cardinality(Seen(arr', pass, d, 0)) = 0
    BY <1>1, <1>2, SeenBounds
  <2>4. QED
    BY <1>1, <1>2, <2>1, <2>2, <2>3, RadixGoesOn
<1>6. QED
  BY <1>4, <1>5

LEMMA CountStep ==
  ASSUME SortInv, Count, job' = job
  PROVE  SortInv'
<1>1. stack # <<>> /\ frame.fn = "radix_sort" /\ frame.pc = "count" /\ arr' = arr /\ temp' = temp
  BY DEF Count, At
<1>2. PICK length \in Nat :
        /\ Length = length /\ arr \in [0 .. length - 1 -> Nat] /\ arr \in Arrays /\ temp \in Arrays
        /\ pass \in 0 .. Passes - 1 /\ i \in Int /\ count \in Counts /\ i >= 0
        /\ Counted(frame, arr)
  BY <1>1, RadixOnTop
<1>3. \A d \in 0 .. Radix - 1 : count[d] = Cardinality(Seen(arr, pass, d, i))
  BY <1>1, <1>2 DEF Counted, i, count, pass
<1>4. CASE i < Length
  <2>0. PICK digit : digit = Digit(arr[i], pass)
    OBVIOUS
  <2> DEFINE c == [count EXCEPT ![digit] = @ + 1]
  <2>1. Goto("count", [pass |-> pass, i |-> i + 1, count |-> c])
    BY <1>4, <2>0 DEF Count, Counting
  <2>2. i \in 0 .. length - 1 /\ digit \in 0 .. Radix - 1
    BY <1>2, <1>4, <2>0, DigitsFit
  <2>3. c \in Counts /\ \A d \in 0 .. Radix - 1 : c[d] = IF digit = d THEN count[d] + 1 ELSE count[d]
    BY <1>2, <2>2 DEF Counts
  <2> HIDE DEF c
  <2>4. ASSUME NEW d \in 0 .. Radix - 1 PROVE c[d] = Cardinality(Seen(arr, pass, d, i + 1))
    <3>1. /\ Digit(arr[i], pass) = d =>
               Cardinality(Seen(arr, pass, d, i + 1)) = Cardinality(Seen(arr, pass, d, i)) + 1
          /\ Digit(arr[i], pass) # d => Seen(arr, pass, d, i + 1) = Seen(arr, pass, d, i)
      <4>1. length \in Nat /\ arr \in [0 .. length - 1 -> Nat] /\ i \in 0 .. length - 1
        BY <1>2, <2>2
      <4>2. Digit(arr[i], pass) = d =>
              Cardinality(Seen(arr, pass, d, i + 1)) = Cardinality(Seen(arr, pass, d, i)) + 1
        BY <4>1, SeenNext
      <4>3. Digit(arr[i], pass) # d => Seen(arr, pass, d, i + 1) = Seen(arr, pass, d, i)
        BY <4>1, SeenNext
      <4>4. QED
        BY <4>2, <4>3
    <3>2. CASE digit = d
      BY <1>3, <2>0, <2>2, <2>3, <3>1, <3>2
    <3>3. CASE digit # d
      BY <1>3, <2>0, <2>2, <2>3, <3>1, <3>3
    <3>4. QED
      BY <3>2, <3>3
  <2>5. \A d \in 0 .. Radix - 1 : c[d] = Cardinality(Seen(arr', pass, d, i + 1))
    BY <1>1, <2>4
  <2>6. i + 1 \in Int /\ i + 1 >= 0
    BY <1>2
  <2>7. QED
    BY <1>1, <1>2, <2>1, <2>3, <2>5, <2>6, RadixGoesOn
<1>5. CASE ~(i < Length)
  <2>1. Goto("prefix", [pass |-> pass, i |-> 1, count |-> count])
    BY <1>5 DEF Count, Counting
  <2>2. \A d \in 0 .. Radix - 1 : count[d] = Cardinality(With(arr, pass, d))
    BY <1>2, <1>3, <1>5, SeenBounds
  <2>3. UpTo(arr, pass, 0) = With(arr, pass, 0)
    BY <1>2, SumsCount
  <2>4. \A d \in 0 .. Radix - 1 :
          count[d] = Cardinality(IF d < 1 THEN UpTo(arr', pass, d) ELSE With(arr', pass, d))
    <3>1. \A d \in 0 .. Radix - 1 : d < 1 => d = 0
      BY PowersAssumption
    <3>2. QED
      BY <1>1, <2>2, <2>3, <3>1
  <2>5. QED
    BY <1>1, <1>2, <2>1, <2>4, RadixGoesOn
<1>6. QED
  BY <1>4, <1>5

LEMMA PrefixStep ==
  ASSUME SortInv, PrefixSums, job' = job
  PROVE  SortInv'
<1>1. stack # <<>> /\ frame.fn = "radix_sort" /\ frame.pc = "prefix" /\ arr' = arr /\ temp' = temp
  BY DEF PrefixSums, At
<1>2. PICK length \in Nat :
        /\ Length = length /\ arr \in [0 .. length - 1 -> Nat] /\ arr \in Arrays /\ temp \in Arrays
        /\ pass \in 0 .. Passes - 1 /\ i \in Int /\ count \in Counts /\ i >= 1
        /\ Counted(frame, arr)
  BY <1>1, RadixOnTop
<1>3. \A d \in 0 .. Radix - 1 :
        count[d] = Cardinality(IF d < i THEN UpTo(arr, pass, d) ELSE With(arr, pass, d))
  BY <1>1, <1>2 DEF Counted, i, count, pass
<1>4. Radix \in Nat \ {0}
  BY PowersAssumption
<1>5. CASE i < Radix
  <2> DEFINE c == [count EXCEPT ![i] = @ + count[i - 1]]
  <2>1. Goto("prefix", [pass |-> pass, i |-> i + 1, count |-> c])
    BY <1>5 DEF PrefixSums, Counting
  <2>2. i \in 1 .. Radix - 1 /\ i \in 0 .. Radix - 1 /\ i - 1 \in 0 .. Radix - 1
    BY <1>2, <1>4, <1>5
  <2>3. c \in Counts /\ c[i] = count[i] + count[i - 1]
    BY <1>2, <2>2 DEF Counts
  <2>4. \A d \in 0 .. Radix - 1 : d # i => c[d] = count[d]
    BY <1>2, <2>2 DEF Counts
  <2> HIDE DEF c
  <2>5. Cardinality(UpTo(arr, pass, i))
          = Cardinality(With(arr, pass, i)) + Cardinality(UpTo(arr, pass, i - 1))
    BY <1>2, <2>2, SumsCount
  <2>6. count[i] = Cardinality(With(arr, pass, i)) /\ count[i - 1] = Cardinality(UpTo(arr, pass, i - 1))
    BY <1>2, <1>3, <2>2
  <2>7. c[i] = Cardinality(UpTo(arr, pass, i))
    BY <2>3, <2>5, <2>6
  <2>8. ASSUME NEW d \in 0 .. Radix - 1
        PROVE  c[d] = Cardinality(IF d < i + 1 THEN UpTo(arr', pass, d) ELSE With(arr', pass, d))
    <3>1. CASE d = i
      BY <1>1, <1>2, <2>7, <3>1
    <3>2. CASE d # i
      <4>1. d < i + 1 <=> d < i
        BY <1>2, <1>4, <3>2
      <4>2. QED
        BY <1>1, <1>3, <2>4, <3>2, <4>1
    <3>3. QED
      BY <3>1, <3>2
  <2>9. i + 1 \in Int /\ i + 1 >= 1
    BY <1>2
  <2>10. QED
    BY <1>1, <1>2, <2>1, <2>3, <2>8, <2>9, RadixGoesOn
<1>6. CASE ~(i < Radix)
  <2>1. Goto("place", [pass |-> pass, i |-> Length - 1, count |-> count])
    BY <1>6 DEF PrefixSums, Counting
  <2>2. ASSUME NEW d \in 0 .. Radix - 1
        PROVE  count[d] = Cardinality(ToPlace(arr', pass, d, Length - 1))
    <3>1. count[d] = Cardinality(UpTo(arr, pass, d))
      BY <1>2, <1>3, <1>4, <1>6
    <3>2. ToPlace(arr, pass, d, length - 1) = UpTo(arr, pass, d)
      BY <1>2, PlacesCount
    <3>3. QED
      BY <1>1, <1>2, <3>1, <3>2
  <2>3. Length - 1 \in Int /\ Length - 1 < Length
    BY <1>2
  <2>4. QED
    BY <1>1, <1>2, <2>1, <2>2, <2>3, RadixGoesOn
<1>7. QED
  BY <1>5, <1>6

(* Where an element goes is where its count says, and that is in temp. *)
LEMMA PlaceFits ==
  ASSUME SortInv, At("radix_sort", "place"), i >= 0
  PROVE  /\ i \in Indices /\ Digit(arr[i], pass) \in 0 .. Radix - 1
         /\ count[Digit(arr[i], pass)] - 1 \in Indices
<1>1. stack # <<>> /\ frame.fn = "radix_sort" /\ frame.pc = "place"
  BY DEF At
<1>2. PICK length \in Nat :
        /\ Indices = 0 .. length - 1 /\ Length = length /\ arr \in [0 .. length - 1 -> Nat]
        /\ pass \in 0 .. Passes - 1 /\ i \in Int /\ count \in Counts /\ i < length
        /\ Counted(frame, arr)
  BY <1>1, RadixOnTop
<1>3. i \in 0 .. length - 1
  BY <1>2
<1>4. arr[i] \in Nat
  BY <1>2, <1>3
<1>5. PICK d \in 0 .. Radix - 1 : d = Digit(arr[i], pass)
  BY <1>2, <1>4, DigitsFit
<1>6. count[d] = Cardinality(ToPlace(arr, pass, d, i))
  BY <1>1, <1>2, <1>5 DEF Counted, i, count, pass
<1>7. Digit(arr[i], pass) = d => Cardinality(ToPlace(arr, pass, d, i)) \in 1 .. length
  BY <1>2, <1>3, PlacesCount
<1>8. count[d] \in 1 .. length
  BY <1>5, <1>6, <1>7
<1>9. count[d] - 1 \in 0 .. length - 1
  BY <1>2, <1>8
<1>10. QED
  BY <1>2, <1>3, <1>5, <1>9

LEMMA PlaceStep ==
  ASSUME SortInv, Place, job' = job
  PROVE  SortInv'
<1>1. stack # <<>> /\ frame.fn = "radix_sort" /\ frame.pc = "place" /\ arr' = arr
      /\ At("radix_sort", "place")
  BY DEF Place, At
<1>2. PICK length \in Nat :
        /\ Indices = 0 .. length - 1 /\ Length = length
        /\ arr \in [0 .. length - 1 -> Nat] /\ arr \in Arrays /\ temp \in Arrays
        /\ pass \in 0 .. Passes - 1 /\ i \in Int /\ count \in Counts /\ i < length
        /\ Counted(frame, arr)
  BY <1>1, RadixOnTop
<1>3. \A d \in 0 .. Radix - 1 : count[d] = Cardinality(ToPlace(arr, pass, d, i))
  BY <1>1, <1>2 DEF Counted, i, count, pass
<1>4. CASE i >= 0
  <2>1. PICK digit : digit = Digit(arr[i], pass)
    OBVIOUS
  <2>2. i \in Indices /\ digit \in 0 .. Radix - 1 /\ count[digit] - 1 \in Indices
    BY <1>1, <1>4, <2>1, PlaceFits
  <2> DEFINE c == [count EXCEPT ![digit] = @ - 1]
  <2>3. /\ temp' = [temp EXCEPT ![count[digit] - 1] = arr[i]]
        /\ Goto("place", [pass |-> pass, i |-> i - 1, count |-> c])
    BY <1>4, <2>1 DEF Place, Counting
  <2>4. c \in Counts
    BY <1>2, <2>2 DEF Counts
  <2>5. \A d \in 0 .. Radix - 1 : c[d] = IF digit = d THEN count[d] - 1 ELSE count[d]
    BY <1>2, <2>2 DEF Counts
  <2> HIDE DEF c
  <2>6. temp' \in Arrays
    <3>1. arr[i] \in Nat
      BY <1>2, <2>2
    <3>2. QED
      BY <1>2, <2>2, <2>3, <3>1 DEF Arrays
  <2>7. ASSUME NEW d \in 0 .. Radix - 1 PROVE c[d] = Cardinality(ToPlace(arr', pass, d, i - 1))
    <3>1. length \in Nat /\ arr \in [0 .. length - 1 -> Nat] /\ i \in 0 .. length - 1
          /\ pass \in 0 .. Passes - 1
      BY <1>2, <2>2
    <3>2. CASE digit = d
      <4>1. Digit(arr[i], pass) = d =>
              Cardinality(ToPlace(arr, pass, d, i - 1)) = Cardinality(ToPlace(arr, pass, d, i)) - 1
        BY <3>1, PlacesCount
      <4>2. QED
        BY <1>1, <1>3, <2>1, <2>5, <3>2, <4>1
    <3>3. CASE digit # d
      <4>1. ToPlace(arr, pass, d, i - 1) = ToPlace(arr, pass, d, i)
        BY <2>1, <3>1, <3>3, PlacesCount
      <4>2. QED
        BY <1>1, <1>3, <2>5, <3>3, <4>1
    <3>4. QED
      BY <3>2, <3>3
  <2>8. i - 1 \in Int /\ i - 1 < Length /\ pass \in 0 .. Passes - 1 /\ arr' \in Arrays
    BY <1>1, <1>2
  <2>9. Goto("place", [pass |-> pass, i |-> i - 1, count |-> c])
    BY <2>3
  <2>10. \A d \in 0 .. Radix - 1 : c[d] = Cardinality(ToPlace(arr', pass, d, i - 1))
    BY <2>7
  <2>11. QED
    BY <1>1, <2>4, <2>6, <2>8, <2>9, <2>10, RadixGoesOn
<1>5. CASE ~(i >= 0)
  <2>1. temp' = temp /\ Goto("copy", [pass |-> pass, i |-> 0, count |-> count])
    BY <1>5 DEF Place, Counting
  <2>2. QED
    BY <1>1, <1>2, <2>1, RadixGoesOn
<1>6. QED
  BY <1>4, <1>5

LEMMA CopyStep ==
  ASSUME SortInv, CopyBack, job' = job
  PROVE  SortInv'
<1>1. stack # <<>> /\ frame.fn = "radix_sort" /\ frame.pc = "copy" /\ temp' = temp
  BY DEF CopyBack, At
<1>2. PICK length \in Nat :
        /\ Indices = 0 .. length - 1 /\ Length = length /\ arr \in Arrays /\ temp \in Arrays
        /\ pass \in 0 .. Passes - 1 /\ i \in Int /\ count \in Counts /\ i >= 0
  BY <1>1, RadixOnTop
<1>3. CASE i < Length
  <2>1. arr' = [arr EXCEPT ![i] = temp[i]] /\ Goto("copy", [pass |-> pass, i |-> i + 1, count |-> count])
    BY <1>3 DEF CopyBack, Counting
  <2>2. i \in Indices
    BY <1>2, <1>3
  <2>3. arr' \in Arrays
    BY <1>2, <2>1, <2>2 DEF Arrays
  <2>4. i + 1 \in Int /\ i + 1 >= 0
    BY <1>2
  <2>5. QED
    BY <1>1, <1>2, <2>1, <2>3, <2>4, RadixGoesOn
<1>4. CASE ~(i < Length) /\ pass + 1 < Passes
  <2>1. arr' = arr /\ Goto("clear", [pass |-> pass + 1, i |-> 0, count |-> count])
    BY <1>4 DEF CopyBack
  <2>2. pass + 1 \in 0 .. Passes - 1 /\ Radix \in Nat
    BY <1>2, <1>4, PowersAssumption, RuntimeAssumption
  <2>3. \A d \in 0 .. Radix - 1 : ~(d < 0)
    BY <2>2
  <2>4. QED
    BY <1>1, <1>2, <2>1, <2>2, <2>3, RadixGoesOn
<1>5. CASE ~(i < Length) /\ ~(pass + 1 < Passes)
  BY <1>1, <1>5, SameArraysKeep, KeptByReturn DEF CopyBack, SameArrays
<1>6. QED
  BY <1>3, <1>4, <1>5

LEMMA RadixSortStep ==
  ASSUME SortInv, radix_sort, job' = job
  PROVE  SortInv'
BY RadixEntryStep, ClearStep, CountStep, PrefixStep, PlaceStep, CopyStep DEF radix_sort

----------------------------------------------------------------------------
LEMMA SortInit ==
  ASSUME Init
  PROVE  SortInv
<1>1. job \in Jobs /\ stack = <<Called("_start", <<>>)>>
  BY DEF Init
<1>2. PICK length \in {Cardinality(DOMAIN job.arr)} :
        length \in Nat /\ job.arr \in [0 .. length - 1 -> Nat]
  BY <1>1, JobsAssumption
<1>3. arr \in [Indices -> Nat] /\ temp \in [Indices -> Nat]
  BY <1>2 DEF Init, Indices
<1> DEFINE bottom == Called("_start", <<>>)
<1>4. FrameFits(bottom, job) /\ TopFits(bottom, arr, job)
  BY DEF FrameFits, TopFits, Called, Sorts
<1> HIDE DEF bottom
<1>5. stack = <<bottom>>
  BY <1>1 DEF bottom
<1>6. /\ stack \in Seq({bottom}) /\ Len(stack) = 1 /\ stack[1] = bottom
      /\ \A p \in 1 .. Len(stack) : p = 1
  BY <1>5
<1>7. frame = bottom /\ \A p \in Below(stack) : FALSE
  BY <1>6 DEF frame, Last, Below
<1>8. QED
  BY <1>1, <1>3, <1>4, <1>6, <1>7 DEF SortInv, StackIsList

LEMMA SortStep ==
  ASSUME SortInv, [Next]_vars
  PROVE  SortInv'
<1>1. CASE (ArithmeticSteps \/ fact \/ fib \/ start \/ HeapUser) /\ UNCHANGED memory
  BY <1>1, ArithmeticIsQuiet, OthersAreQuiet, QuietStep DEF memory, SameArrays
<1>2. CASE main /\ UNCHANGED memory
  BY <1>2, MainStep DEF memory, SameArrays
<1>3. CASE \/ matmul /\ UNCHANGED <<job, arr, temp, bytes, end>>
           \/ malloc /\ UNCHANGED <<job, arr, temp, C, bytes>>
           \/ memcpy /\ UNCHANGED <<job, arr, temp, C, end>>
  BY <1>3, OthersAreQuiet, QuietStep DEF SameArrays
<1>4. CASE quick_sort /\ UNCHANGED <<job, temp, C, bytes, end>>
  BY <1>4, QuickSortStep
<1>5. CASE radix_sort /\ UNCHANGED <<job, C, bytes, end>>
  BY <1>5, RadixSortStep
<1>6. CASE UNCHANGED vars
  BY <1>6 DEF vars, memory, SortInv, StackIsList, Indices, frame, Last, Below
<1>7. QED
  BY <1>1, <1>2, <1>3, <1>4, <1>5, <1>6 DEF Next

LEMMA InvariantBounds ==
  ASSUME SortInv
  PROVE  IndicesInBounds
<1>1. ASSUME At("quick_sort", "up") PROVE i \in Indices
  <2>1. stack # <<>> /\ frame.fn = "quick_sort" /\ frame.pc = "up"
    BY <1>1 DEF At
  <2>2. /\ left \in Indices /\ right \in Indices /\ i \in Int /\ left <= i
        /\ ScansStop(frame, arr) /\ \E length \in Nat : Indices = 0 .. length - 1
    BY <2>1, PartVariables
  <2>3. \E k \in i .. right : TRUE
    BY <2>1, <2>2 DEF ScansStop, StopsUp, right, i
  <2>4. QED
    BY <2>2, <2>3
<1>2. ASSUME At("quick_sort", "down") PROVE j \in Indices
  <2>1. stack # <<>> /\ frame.fn = "quick_sort" /\ frame.pc = "down"
    BY <1>2 DEF At
  <2>2. /\ left \in Indices /\ right \in Indices /\ j \in Int /\ j <= right
        /\ ScansStop(frame, arr) /\ \E length \in Nat : Indices = 0 .. length - 1
    BY <2>1, PartVariables
  <2>3. \E k \in left .. j : TRUE
    BY <2>1, <2>2 DEF ScansStop, StopsDown, left, j
  <2>4. QED
    BY <2>2, <2>3
<1>3. ASSUME At("radix_sort", "place"), i >= 0 PROVE count[Digit(arr[i], pass)] - 1 \in Indices
  BY <1>3, PlaceFits
<1>4. QED
  BY <1>1, <1>2, <1>3 DEF IndicesInBounds

(* The scans of quick_sort() and the counts of radix_sort() stay in the    *)
(* array for every array, every width of a word and every split into       *)
(* digits (programs/c/quick_sort.c, radix_sort.c).                         *)
THEOREM SortsStayInTheArray == Spec => []IndicesInBounds
<1>1. Init => SortInv
  BY SortInit
<1>2. SortInv /\ [Next]_vars => SortInv'
  BY SortStep
<1>3. SortInv => IndicesInBounds
  BY InvariantBounds
<1>4. QED
  BY <1>1, <1>2, <1>3, PTL DEF Spec

----------------------------------------------------------------------------
(* The heap. *)

(* A block of the heap below top, and where the blocks before m end. *)
IsBlock(block, size, top) ==
  block \in Nat /\ block % 4 = 0 /\ block >= HeapStart /\ block + size <= top

EndBefore(v, sizes, m, block) ==
  \A k \in DOMAIN v : k < m /\ v[k] # 0 => v[k] + sizes[k] <= block

(* What malloc() has answered so far: 0, or one block above the other.     *)
Blocks(v, sizes, top) ==
  /\ v \in Seq(Nat) /\ Len(v) <= Len(sizes)
  /\ \A m \in DOMAIN v : v[m] # 0 => IsBlock(v[m], sizes[m], top) /\ EndBefore(v, sizes, m, v[m])

(* The first bytes of the block hold the data at its number.               *)
Copied(mem, block, k, done) == \A b \in 0 .. done - 1 : mem[block + b] = k + b

Filled(v, sizes, mem, last) ==
  \A k \in DOMAIN v : k <= last /\ v[k] # 0 => Copied(mem, v[k], k, sizes[k])

MemoryFits(mem, top) ==
  /\ top \in HeapStart .. HeapEnd /\ top % 4 = 0
  /\ mem \in [0 .. HeapEnd - 1 -> Nat] /\ \A a \in 0 .. HeapStart - 1 : mem[a] = a

(* main() on top of the stack: every block is filled, and the one malloc() *)
(* has just answered is above them.                                        *)
UserOnTop(f, sizes, top, mem, answer) ==
  f.pc # "entry" =>
    /\ Blocks(f.v, sizes, top) /\ Filled(f.v, sizes, mem, Len(f.v))
    /\ f.pc = "fill" =>
         /\ Len(f.v) < Len(sizes)
         /\ answer # 0 =>
              /\ IsBlock(answer, sizes[Len(f.v) + 1], top)
              /\ EndBefore(f.v, sizes, Len(f.v) + 1, answer)

(* main() waits for a block, or for its last one to be filled.             *)
Allocating(f, callee, sizes, top, mem) ==
  /\ f.pc = "fill" /\ Blocks(f.v, sizes, top) /\ Filled(f.v, sizes, mem, Len(f.v))
  /\ Len(f.v) < Len(sizes)
  /\ callee.fn = "malloc" /\ callee.args = <<sizes[Len(f.v) + 1]>>

FillsBlock(f, callee, m, sizes, top, mem) ==
  /\ f.pc = "ask" /\ Blocks(f.v, sizes, top) /\ Filled(f.v, sizes, mem, m - 1)
  /\ m > 0 /\ f.v[m] # 0
  /\ callee.fn = "memcpy" /\ callee.args = <<f.v[m], m, sizes[m]>>
  /\ callee.pc # "entry" =>
       \E done \in 0 .. sizes[m] :
         /\ callee.v = [d |-> f.v[m] + done, s |-> m + done, n |-> sizes[m] - done]
         /\ Copied(mem, f.v[m], m, done)

Filling(f, callee, sizes, top, mem) == FillsBlock(f, callee, Len(f.v), sizes, top, mem)

HeapStack(s, sizes, top, mem, answer) ==
  /\ Len(s) <= 3
  /\ Len(s) > 0 => s[1].fn = "_start"
  /\ Len(s) > 1 => s[1].pc = "stop" /\ s[2].fn = "main"
  /\ Len(s) = 2 => UserOnTop(s[2], sizes, top, mem, answer)
  /\ Len(s) = 3 => Allocating(s[2], s[3], sizes, top, mem) \/ Filling(s[2], s[3], sizes, top, mem)

HeapInv ==
  /\ SortInv
  /\ job.program = "heap" /\ RequestsFit(job.args) =>
       /\ MemoryFits(bytes, end)
       /\ HeapStack(stack, job.args, end, bytes, a0)

----------------------------------------------------------------------------
(* The blocks and what is in them. *)

LEMMA WordIsSmall ==
  ASSUME NEW x \in Nat, x < Modulus
  PROVE  Word(x) = x
BY PowersAssumption DEF Word

LEMMA HeapBounds ==
  /\ HeapStart \in Nat \ {0} /\ HeapStart % 4 = 0
  /\ HeapEnd \in Nat /\ HeapStart <= HeapEnd /\ HeapEnd < Modulus /\ Modulus \in Nat
BY RuntimeAssumption, PowersAssumption

LEMMA SizesFit ==
  ASSUME NEW sizes, RequestsFit(sizes), NEW k \in DOMAIN sizes
  PROVE  sizes[k] \in Nat /\ sizes[k] + 3 + HeapEnd < Modulus /\ k + sizes[k] <= HeapStart
<1>1. sizes \in Seq(Nat)
  BY DEF RequestsFit
<1>2. sizes[k] \in Nat
  BY <1>1
<1>3. QED
  BY <1>2 DEF RequestsFit

(* The sequence the blocks are in, and a block more. *)
LEMMA AppendedAnswer ==
  ASSUME NEW v \in Seq(Nat), NEW answer \in Nat
  PROVE  /\ Append(v, answer) \in Seq(Nat) /\ Len(Append(v, answer)) = Len(v) + 1
         /\ DOMAIN v = 1 .. Len(v) /\ DOMAIN Append(v, answer) = 1 .. Len(v) + 1
         /\ Append(v, answer)[Len(v) + 1] = answer
         /\ \A k \in 1 .. Len(v) : Append(v, answer)[k] = v[k]
OBVIOUS

LEMMA NoBlocks ==
  ASSUME NEW sizes, RequestsFit(sizes), NEW top, NEW mem
  PROVE  Blocks(<<>>, sizes, top) /\ Filled(<<>>, sizes, mem, Len(<<>>))
<1>1. <<>> \in Seq(Nat) /\ Len(<<>>) = 0 /\ DOMAIN <<>> = {} /\ Len(sizes) \in Nat
  BY DEF RequestsFit
<1>2. QED
  BY <1>1 DEF Blocks, Filled

LEMMA BlockIsAdded ==
  ASSUME NEW v, NEW sizes, NEW top, NEW answer \in Nat, RequestsFit(sizes),
         Blocks(v, sizes, top), Len(v) < Len(sizes),
         answer # 0 => /\ IsBlock(answer, sizes[Len(v) + 1], top)
                       /\ EndBefore(v, sizes, Len(v) + 1, answer)
  PROVE  Blocks(Append(v, answer), sizes, top)
<1> DEFINE w == Append(v, answer)
<1>1. v \in Seq(Nat) /\ Len(v) \in Nat /\ Len(sizes) \in Nat
  BY DEF Blocks, RequestsFit
<1>2. /\ w \in Seq(Nat) /\ Len(w) = Len(v) + 1
      /\ DOMAIN v = 1 .. Len(v) /\ DOMAIN w = 1 .. Len(v) + 1
      /\ w[Len(v) + 1] = answer /\ \A k \in 1 .. Len(v) : w[k] = v[k]
  BY <1>1, AppendedAnswer
<1> HIDE DEF w
<1>3. ASSUME NEW m \in DOMAIN w, w[m] # 0 PROVE IsBlock(w[m], sizes[m], top)
  BY <1>1, <1>2, <1>3 DEF Blocks
<1>4. ASSUME NEW m \in DOMAIN w, w[m] # 0 PROVE EndBefore(w, sizes, m, w[m])
  <2>1. CASE m = Len(v) + 1
    <3>1. w[m] = answer /\ EndBefore(v, sizes, Len(v) + 1, answer)
      BY <1>2, <1>4, <2>1
    <3>2. ASSUME NEW k \in DOMAIN w, k < m PROVE k \in DOMAIN v /\ w[k] = v[k] /\ k < Len(v) + 1
      BY <1>1, <1>2, <2>1, <3>2
    <3>3. QED
      BY <3>1, <3>2 DEF EndBefore
  <2>2. CASE m # Len(v) + 1
    <3>1. m \in DOMAIN v /\ w[m] = v[m]
      BY <1>1, <1>2, <2>2
    <3>2. EndBefore(v, sizes, m, v[m])
      BY <1>4, <3>1 DEF Blocks
    <3>3. ASSUME NEW k \in DOMAIN w, k < m PROVE k \in DOMAIN v /\ w[k] = v[k]
      BY <1>1, <1>2, <3>1, <3>3
    <3>4. QED
      BY <3>1, <3>2, <3>3 DEF EndBefore
  <2>3. QED
    BY <2>1, <2>2
<1>5. QED
  BY <1>1, <1>2, <1>3, <1>4 DEF Blocks, w

LEMMA FilledBefore ==
  ASSUME NEW v \in Seq(Nat), NEW sizes, NEW mem, NEW answer \in Nat,
         Filled(v, sizes, mem, Len(v))
  PROVE  /\ Filled(Append(v, answer), sizes, mem, Len(v))
         /\ answer = 0 => Filled(Append(v, answer), sizes, mem, Len(v) + 1)
<1> DEFINE w == Append(v, answer)
<1>1. /\ DOMAIN v = 1 .. Len(v) /\ DOMAIN w = 1 .. Len(v) + 1 /\ Len(v) \in Nat
      /\ w[Len(v) + 1] = answer /\ \A k \in 1 .. Len(v) : w[k] = v[k]
  BY AppendedAnswer
<1> HIDE DEF w
<1>2. ASSUME NEW k \in DOMAIN w, k <= Len(v), w[k] # 0 PROVE Copied(mem, w[k], k, sizes[k])
  <2>1. k \in DOMAIN v /\ w[k] = v[k] /\ k <= Len(v)
    BY <1>1, <1>2
  <2>2. QED
    BY <1>2, <2>1 DEF Filled
<1>3. ASSUME NEW k \in DOMAIN w, k <= Len(v) + 1, answer = 0, w[k] # 0 PROVE k <= Len(v)
  BY <1>1, <1>3
<1>4. QED
  BY <1>2, <1>3 DEF Filled, w

LEMMA BlocksBelow ==
  ASSUME NEW v, NEW sizes, NEW top \in Nat, NEW higher \in Nat, top <= higher,
         RequestsFit(sizes), Blocks(v, sizes, top)
  PROVE  Blocks(v, sizes, higher)
<1>1. \A k \in DOMAIN v : k \in DOMAIN sizes /\ v[k] \in Nat /\ sizes[k] \in Nat
  BY DEF Blocks, RequestsFit
<1>2. QED
  BY <1>1 DEF Blocks, IsBlock

LEMMA LastBlock ==
  ASSUME NEW v, NEW sizes, NEW top, RequestsFit(sizes), Blocks(v, sizes, top), NEW m, m = Len(v), m > 0
  PROVE  m \in DOMAIN v /\ m \in Nat /\ v[m] \in Nat /\ sizes[m] \in Nat
<1>1. sizes \in Seq(Nat) /\ v \in Seq(Nat) /\ m <= Len(sizes)
  BY DEF RequestsFit, Blocks
<1>2. m \in DOMAIN v /\ m \in Nat /\ m \in DOMAIN sizes
  BY <1>1
<1>3. v[m] \in Nat
  BY <1>1, <1>2
<1>4. QED
  BY <1>1, <1>2, <1>3

(* malloc() rounds up and does not leave the heap. *)
LEMMA SizeIsRounded ==
  ASSUME NEW size \in Nat, size + 3 < Modulus
  PROVE  /\ Rounded(size) \in Nat /\ Rounded(size) % 4 = 0
         /\ size <= Rounded(size) /\ Rounded(size) <= size + 3
<1>1. Word(size + 3) = size + 3
  BY WordIsSmall
<1>2. Rounded(size) = 4 * ((size + 3) \div 4)
  BY <1>1 DEF Rounded
<1>3. QED
  BY <1>2

LEMMA BlockIsFree ==
  ASSUME NEW size \in Nat, size + 3 + HeapEnd < Modulus,
         NEW top \in HeapStart .. HeapEnd, top % 4 = 0,
         ~ Word(top + Rounded(size)) > HeapEnd
  PROVE  /\ Word(top + Rounded(size)) \in HeapStart .. HeapEnd
         /\ Word(top + Rounded(size)) % 4 = 0 /\ top <= Word(top + Rounded(size))
         /\ IsBlock(top, size, Word(top + Rounded(size)))
<1>1. top \in Nat /\ HeapStart \in Nat /\ HeapEnd \in Nat /\ Modulus \in Nat
  BY HeapBounds
<1>2. /\ Rounded(size) \in Nat /\ Rounded(size) % 4 = 0
      /\ size <= Rounded(size) /\ Rounded(size) <= size + 3
  BY <1>1, SizeIsRounded
<1>3. Word(top + Rounded(size)) = top + Rounded(size)
  BY <1>1, <1>2, WordIsSmall
<1>4. (top + Rounded(size)) % 4 = 0
  BY <1>1, <1>2
<1>5. QED
  BY <1>1, <1>2, <1>3, <1>4 DEF IsBlock

LEMMA BlocksEnd ==
  ASSUME NEW v, NEW sizes, NEW top \in Nat, RequestsFit(sizes), Blocks(v, sizes, top), NEW m
  PROVE  EndBefore(v, sizes, m, top)
<1>1. \A k \in DOMAIN v : v[k] # 0 => v[k] + sizes[k] <= top
  BY DEF Blocks, IsBlock
<1>2. QED
  BY <1>1 DEF EndBefore

(* A byte more of the block that is being filled. *)
LEMMA ByteIsCopied ==
  ASSUME NEW v, NEW sizes, NEW top, NEW mem, RequestsFit(sizes), MemoryFits(mem, top),
         Blocks(v, sizes, top), NEW m \in DOMAIN v, v[m] # 0, Filled(v, sizes, mem, m - 1),
         NEW done \in Nat, done < sizes[m], Copied(mem, v[m], m, done)
  PROVE  \E copy \in {[mem EXCEPT ![v[m] + done] = mem[m + done]]} :
           /\ MemoryFits(copy, top) /\ Filled(v, sizes, copy, m - 1)
           /\ Copied(copy, v[m], m, done + 1)
<1> DEFINE copy == [mem EXCEPT ![v[m] + done] = mem[m + done]]
           place == v[m] + done
<1>1. v \in Seq(Nat) /\ DOMAIN v = 1 .. Len(v) /\ Len(v) \in Nat /\ m \in Nat /\ m > 0
  BY DEF Blocks
<1>2. /\ DOMAIN sizes = 1 .. Len(sizes) /\ Len(sizes) \in Nat /\ Len(v) <= Len(sizes)
      /\ \A k \in DOMAIN sizes : sizes[k] \in Nat
  <2>1. sizes \in Seq(Nat) /\ Len(v) <= Len(sizes)
    BY DEF RequestsFit, Blocks
  <2>2. QED
    BY <2>1
<1>3. m \in DOMAIN sizes /\ sizes[m] \in Nat /\ m + sizes[m] <= HeapStart
  <2>1. m \in DOMAIN sizes
    BY <1>1, <1>2
  <2>2. QED
    BY <1>2, <2>1 DEF RequestsFit
<1>4. HeapStart \in Nat /\ HeapEnd \in Nat /\ top \in Nat /\ top <= HeapEnd
  BY HeapBounds DEF MemoryFits
<1>5. v[m] \in Nat /\ v[m] >= HeapStart /\ v[m] + sizes[m] <= top
  BY DEF Blocks, IsBlock
<1>6. place \in 0 .. HeapEnd - 1 /\ place >= HeapStart
  BY <1>3, <1>4, <1>5
<1>7. m + done \in 0 .. HeapStart - 1 /\ mem[m + done] = m + done /\ m + done \in Nat
  <2>1. m + done \in 0 .. HeapStart - 1 /\ m + done \in Nat
    BY <1>1, <1>3, <1>4
  <2>2. QED
    BY <2>1 DEF MemoryFits
<1>8. mem \in [0 .. HeapEnd - 1 -> Nat]
  BY DEF MemoryFits
<1>9. /\ copy \in [0 .. HeapEnd - 1 -> Nat] /\ copy[place] = m + done
      /\ \A a \in 0 .. HeapEnd - 1 : a # place => copy[a] = mem[a]
  BY <1>6, <1>7, <1>8
<1> HIDE DEF copy, place
<1>10. MemoryFits(copy, top)
  <2>1. ASSUME NEW a \in 0 .. HeapStart - 1 PROVE copy[a] = a
    <3>1. a # place /\ a \in 0 .. HeapEnd - 1
      BY <1>4, <1>6, HeapBounds
    <3>2. QED
      BY <1>9, <3>1 DEF MemoryFits
  <2>2. QED
    BY <1>9, <2>1 DEF MemoryFits
<1>11. Filled(v, sizes, copy, m - 1)
  <2>1. SUFFICES ASSUME NEW k \in DOMAIN v, k <= m - 1, v[k] # 0, NEW b \in 0 .. sizes[k] - 1
                 PROVE  copy[v[k] + b] = k + b
    BY DEF Filled, Copied
  <2>2. k < m /\ k \in DOMAIN sizes /\ sizes[k] \in Nat /\ v[k] \in Nat
    <3>1. k \in 1 .. Len(v) /\ k < m /\ v[k] \in Nat
      BY <1>1, <2>1
    <3>2. k \in DOMAIN sizes
      BY <1>1, <1>2, <3>1
    <3>3. QED
      BY <1>2, <3>1, <3>2
  <2>3. v[k] + sizes[k] <= v[m] /\ v[k] >= HeapStart /\ v[k] + sizes[k] <= top
    BY <2>1, <2>2 DEF Blocks, EndBefore, IsBlock
  <2>4. v[k] + b # place /\ v[k] + b \in 0 .. HeapEnd - 1
    BY <1>4, <1>5, <2>1, <2>2, <2>3 DEF place
  <2>5. mem[v[k] + b] = k + b
    BY <2>1 DEF Filled, Copied
  <2>6. QED
    BY <1>9, <2>4, <2>5
<1>12. Copied(copy, v[m], m, done + 1)
  <2>1. SUFFICES ASSUME NEW b \in 0 .. done PROVE copy[v[m] + b] = m + b
    BY DEF Copied
  <2>2. CASE b = done
    BY <1>9, <2>2 DEF place
  <2>3. CASE b # done
    <3>1. b \in 0 .. done - 1
      BY <2>1, <2>3
    <3>2. v[m] + b # place /\ v[m] + b \in 0 .. HeapEnd - 1
      BY <1>3, <1>4, <1>5, <3>1 DEF place
    <3>3. QED
      BY <1>9, <3>1, <3>2 DEF Copied
  <2>4. QED
    BY <2>2, <2>3
<1>13. QED
  BY <1>10, <1>11, <1>12 DEF copy

----------------------------------------------------------------------------
(* The steps of a program that uses the heap. *)

UsesHeap == HeapInv /\ job.program = "heap" /\ RequestsFit(job.args) /\ stack # <<>>

LEMMA HeapTop ==
  ASSUME UsesHeap
  PROVE  /\ StackIsList /\ Len(stack) \in {1, 2, 3} /\ frame = stack[Len(stack)]
         /\ Len(stack) = 1 => frame.fn = "_start"
         /\ Len(stack) = 2 => frame.fn = "main" /\ UserOnTop(frame, job.args, end, bytes, a0)
         /\ Len(stack) = 3 =>
              /\ \/ frame.fn = "malloc" /\ Allocating(stack[2], frame, job.args, end, bytes)
                 \/ frame.fn = "memcpy" /\ Filling(stack[2], frame, job.args, end, bytes)
              /\ stack[2].fn = "main" /\ stack[2].pc # "entry"
         /\ stack[1].fn = "_start" /\ (Len(stack) > 1 => stack[1].pc = "stop")
<1>1. StackIsList /\ HeapStack(stack, job.args, end, bytes, a0)
  BY DEF UsesHeap, HeapInv, SortInv
<1>2. Len(stack) \in Nat /\ Len(stack) > 0 /\ frame = stack[Len(stack)]
  BY <1>1, StackFacts DEF UsesHeap
<1>3. Len(stack) \in {1, 2, 3}
  <2>1. Len(stack) <= 3
    BY <1>1 DEF HeapStack
  <2>2. \A x \in Nat : x > 0 /\ x <= 3 => x \in {1, 2, 3}
    OBVIOUS
  <2>3. QED
    BY <1>2, <2>1, <2>2
<1>4. /\ Len(stack) = 1 => frame.fn = "_start"
      /\ Len(stack) = 2 => frame.fn = "main" /\ UserOnTop(frame, job.args, end, bytes, a0)
      /\ stack[1].fn = "_start" /\ (Len(stack) > 1 => stack[1].pc = "stop")
  BY <1>1, <1>2, <1>3 DEF HeapStack
<1>5. ASSUME Len(stack) = 3
      PROVE  /\ stack[2].fn = "main" /\ frame = stack[3]
             /\ \/ Allocating(stack[2], stack[3], job.args, end, bytes)
                \/ Filling(stack[2], stack[3], job.args, end, bytes)
  BY <1>1, <1>2, <1>5 DEF HeapStack
<1>6. ASSUME Len(stack) = 3, Allocating(stack[2], stack[3], job.args, end, bytes)
      PROVE  stack[3].fn = "malloc" /\ stack[2].pc # "entry"
  BY <1>6 DEF Allocating
<1>7. ASSUME Len(stack) = 3, Filling(stack[2], stack[3], job.args, end, bytes)
      PROVE  stack[3].fn = "memcpy" /\ stack[2].pc # "entry"
  BY <1>7 DEF Filling, FillsBlock
<1>8. QED
  BY <1>1, <1>2, <1>3, <1>4, <1>5, <1>6, <1>7

LEMMA HeapGoto ==
  ASSUME UsesHeap, NEW pc, NEW v, Goto(pc, v)
  PROVE  /\ Len(stack') = Len(stack) /\ a0' = a0
         /\ \A p \in 1 .. Len(stack) - 1 : stack'[p] = stack[p]
         /\ stack'[Len(stack)] = [fn |-> frame.fn, args |-> frame.args, pc |-> pc, v |-> v]
<1>1. StackIsList /\ stack # <<>> /\ Len(stack) \in Nat
  BY HeapTop DEF UsesHeap
<1>2. /\ Len(stack') = Len(stack) /\ \A p \in Below(stack) : stack'[p] = stack[p]
      /\ frame' = [fn |-> frame.fn, args |-> frame.args, pc |-> pc, v |-> v]
  BY <1>1, GotoSteps
<1>3. frame' = stack'[Len(stack)]
  BY <1>2 DEF frame, Last
<1>4. a0' = a0
  BY DEF Goto
<1>5. QED
  BY <1>2, <1>3, <1>4 DEF Below

LEMMA HeapCall ==
  ASSUME UsesHeap, NEW pc, NEW v, NEW fn, NEW args, Call(pc, v, fn, args)
  PROVE  /\ Len(stack') = Len(stack) + 1 /\ a0' = a0
         /\ \A p \in 1 .. Len(stack) - 1 : stack'[p] = stack[p]
         /\ stack'[Len(stack)] = [fn |-> frame.fn, args |-> frame.args, pc |-> pc, v |-> v]
         /\ stack'[Len(stack) + 1] = [fn |-> fn, args |-> args, pc |-> "entry", v |-> <<>>]
<1>1. StackIsList /\ stack # <<>> /\ Len(stack) \in Nat
  BY HeapTop DEF UsesHeap
<1>2. /\ Len(stack') = Len(stack) + 1 /\ \A p \in Below(stack) : stack'[p] = stack[p]
      /\ stack'[Len(stack)] = [fn |-> frame.fn, args |-> frame.args, pc |-> pc, v |-> v]
      /\ frame' = Called(fn, args)
  BY <1>1, CallSteps
<1>3. frame' = stack'[Len(stack) + 1]
  BY <1>2 DEF frame, Last
<1>4. a0' = a0
  BY DEF Call
<1>5. QED
  BY <1>2, <1>3, <1>4 DEF Below, Called

LEMMA HeapReturn ==
  ASSUME UsesHeap, NEW x, Return(x)
  PROVE  /\ Len(stack') = Len(stack) - 1 /\ a0' = x
         /\ \A p \in 1 .. Len(stack) - 1 : stack'[p] = stack[p]
<1>1. StackIsList /\ stack # <<>>
  BY HeapTop DEF UsesHeap
<1>2. Len(stack') = Len(stack) - 1 /\ \A p \in Below(stack) : stack'[p] = stack[p]
  BY <1>1, ReturnSteps
<1>3. a0' = x
  BY DEF Return
<1>4. QED
  BY <1>2, <1>3 DEF Below

(* What a step has to leave behind. *)
LEMMA HeapKept ==
  ASSUME UsesHeap, SortInv', job' = job, MemoryFits(bytes', end'),
         HeapStack(stack', job.args, end', bytes', a0')
  PROVE  HeapInv'
BY DEF UsesHeap, HeapInv

LEMMA HeapData ==
  ASSUME UsesHeap
  PROVE  RequestsFit(job.args) /\ MemoryFits(bytes, end) /\ end \in Nat
<1>1. RequestsFit(job.args) /\ MemoryFits(bytes, end)
  BY DEF UsesHeap, HeapInv
<1>2. QED
  BY <1>1, HeapBounds DEF MemoryFits

LEMMA StartHeapStep ==
  ASSUME UsesHeap, SortInv', start, UNCHANGED memory
  PROVE  HeapInv'
<1>1. job' = job /\ end' = end /\ bytes' = bytes
  BY DEF memory
<1>2. Len(stack) = 1 /\ frame.fn = "_start"
  BY HeapTop DEF start, At
<1>3. CASE At("_start", "entry") /\ Call("stop", <<>>, "main", <<>>)
  <2>1. /\ Len(stack') = Len(stack) + 1
        /\ stack'[Len(stack)] = [fn |-> frame.fn, args |-> frame.args, pc |-> "stop", v |-> <<>>]
        /\ stack'[Len(stack) + 1] = [fn |-> "main", args |-> <<>>, pc |-> "entry", v |-> <<>>]
    BY <1>3, HeapCall
  <2>2. Len(stack') = 2 /\ stack'[1].fn = "_start" /\ stack'[1].pc = "stop"
        /\ stack'[2].fn = "main" /\ stack'[2].pc = "entry"
    BY <1>2, <2>1
  <2>3. HeapStack(stack', job.args, end', bytes', a0')
    BY <2>2 DEF HeapStack, UserOnTop
  <2>4. QED
    BY <1>1, <2>3, HeapKept, HeapData
<1>4. CASE At("_start", "stop") /\ stack' = <<>> /\ UNCHANGED a0
  <2>1. Len(stack') = 0
    BY <1>4
  <2>2. HeapStack(stack', job.args, end', bytes', a0')
    BY <2>1 DEF HeapStack
  <2>3. QED
    BY <1>1, <2>2, HeapKept, HeapData
<1>5. QED
  BY <1>3, <1>4 DEF start

LEMMA MainHeapStep ==
  ASSUME UsesHeap, SortInv', main, UNCHANGED memory
  PROVE  HeapInv'
<1>1. job' = job /\ end' = end /\ bytes' = bytes
  BY DEF memory
<1>2. At("main", "return") /\ Return(Main.result)
  BY DEF main, UsesHeap
<1>3. Len(stack) = 2
  BY <1>2, HeapTop DEF At
<1>4. Len(stack') = 1 /\ stack'[1].fn = "_start"
  BY <1>2, <1>3, HeapTop, HeapReturn
<1>5. HeapStack(stack', job.args, end', bytes', a0')
  BY <1>4 DEF HeapStack
<1>6. QED
  BY <1>1, <1>5, HeapKept, HeapData

(* main() goes on, or calls, with what it knows of its blocks. *)
LEMMA UserGoesOn ==
  ASSUME UsesHeap, SortInv', UNCHANGED memory, Len(stack) = 2, NEW pc, NEW v, Goto(pc, v),
         pc \in {"ask", "return"},
         Blocks(v, job.args, end), Filled(v, job.args, bytes, Len(v))
  PROVE  HeapInv'
<1>1. job' = job /\ end' = end /\ bytes' = bytes
  BY DEF memory
<1>2. /\ Len(stack') = 2 /\ stack'[1] = stack[1]
      /\ stack'[2] = [fn |-> frame.fn, args |-> frame.args, pc |-> pc, v |-> v]
  BY HeapGoto
<1>3. stack'[1].fn = "_start" /\ stack'[1].pc = "stop" /\ stack'[2].fn = "main"
      /\ stack'[2].pc = pc /\ stack'[2].v = v
  BY <1>2, HeapTop
<1>4. UserOnTop(stack'[2], job.args, end', bytes', a0')
  BY <1>1, <1>3 DEF UserOnTop
<1>5. HeapStack(stack', job.args, end', bytes', a0')
  BY <1>2, <1>3, <1>4 DEF HeapStack
<1>6. QED
  BY <1>1, <1>5, HeapKept, HeapData

LEMMA UserCalls ==
  ASSUME UsesHeap, SortInv', UNCHANGED memory, Len(stack) = 2,
         NEW pc, NEW v, NEW fn, NEW args, Call(pc, v, fn, args),
         \A f, callee :
           f.pc = pc /\ f.v = v /\ callee.fn = fn /\ callee.args = args /\ callee.pc = "entry" =>
             \/ Allocating(f, callee, job.args, end, bytes)
             \/ Filling(f, callee, job.args, end, bytes)
  PROVE  HeapInv'
<1>1. job' = job /\ end' = end /\ bytes' = bytes
  BY DEF memory
<1>2. /\ Len(stack') = 3 /\ stack'[1] = stack[1]
      /\ stack'[2] = [fn |-> frame.fn, args |-> frame.args, pc |-> pc, v |-> v]
      /\ stack'[3] = [fn |-> fn, args |-> args, pc |-> "entry", v |-> <<>>]
  BY HeapCall
<1>3. stack'[1].fn = "_start" /\ stack'[1].pc = "stop" /\ stack'[2].fn = "main"
      /\ stack'[2].pc = pc /\ stack'[2].v = v
      /\ stack'[3].fn = fn /\ stack'[3].args = args /\ stack'[3].pc = "entry"
  BY <1>2, HeapTop
<1>4. \/ Allocating(stack'[2], stack'[3], job.args, end', bytes')
      \/ Filling(stack'[2], stack'[3], job.args, end', bytes')
  BY <1>1, <1>3
<1>5. HeapStack(stack', job.args, end', bytes', a0')
  BY <1>2, <1>3, <1>4 DEF HeapStack
<1>6. QED
  BY <1>1, <1>5, HeapKept, HeapData

LEMMA HeapUserStep ==
  ASSUME UsesHeap, SortInv', HeapUser, UNCHANGED memory
  PROVE  HeapInv'
<1> DEFINE sizes == job.args
<1>1. frame.fn = "main" /\ Len(stack) = 2
  BY HeapTop DEF HeapUser, At
<1>2. UserOnTop(frame, sizes, end, bytes, a0) /\ RequestsFit(sizes) /\ end \in Nat
  BY <1>1, HeapTop, HeapData
<1>3. CASE At("main", "entry") /\ Goto("ask", <<>>)
  BY <1>1, <1>2, <1>3, NoBlocks, UserGoesOn
<1>4. CASE At("main", "ask") /\ IF Len(frame.v) = Len(sizes) THEN Goto("return", frame.v)
                                ELSE Call("fill", frame.v, "malloc", <<sizes[Len(frame.v) + 1]>>)
  <2>1. Blocks(frame.v, sizes, end) /\ Filled(frame.v, sizes, bytes, Len(frame.v))
    BY <1>2, <1>4 DEF At, UserOnTop
  <2>2. CASE Len(frame.v) = Len(sizes)
    BY <1>1, <1>4, <2>1, <2>2, UserGoesOn
  <2>3. CASE Len(frame.v) # Len(sizes)
    <3>1. Len(frame.v) < Len(sizes)
      BY <1>2, <2>1, <2>3 DEF Blocks, RequestsFit
    <3>2. Call("fill", frame.v, "malloc", <<sizes[Len(frame.v) + 1]>>)
      BY <1>4, <2>3
    <3>3. QED
      BY <1>1, <2>1, <3>1, <3>2, UserCalls DEF Allocating
  <2>4. QED
    BY <2>2, <2>3
<1>5. CASE At("main", "fill") /\
           \E k \in {Len(frame.v) + 1} :
             IF a0 = 0 THEN Goto("ask", Append(frame.v, 0))
             ELSE Call("ask", Append(frame.v, a0), "memcpy", <<a0, k, sizes[k]>>)
  <2> DEFINE v == frame.v
             w == Append(v, a0)
  <2>1. /\ Blocks(v, sizes, end) /\ Filled(v, sizes, bytes, Len(v))
        /\ Len(v) < Len(sizes) /\ v \in Seq(Nat) /\ Len(v) \in Nat
        /\ a0 # 0 => IsBlock(a0, sizes[Len(v) + 1], end) /\ EndBefore(v, sizes, Len(v) + 1, a0)
    BY <1>2, <1>5 DEF At, UserOnTop, Blocks
  <2>2. a0 \in Nat
    BY <2>1 DEF IsBlock
  <2>3. /\ Blocks(w, sizes, end) /\ Filled(w, sizes, bytes, Len(v))
        /\ a0 = 0 => Filled(w, sizes, bytes, Len(v) + 1)
    BY <1>2, <2>1, <2>2, BlockIsAdded, FilledBefore
  <2>4. Len(w) = Len(v) + 1 /\ w[Len(v) + 1] = a0
    BY <2>1, <2>2, AppendedAnswer
  <2>5. CASE a0 = 0
    <3>1. Goto("ask", w)
      BY <1>5, <2>5
    <3>2. Filled(w, sizes, bytes, Len(w))
      BY <2>3, <2>4, <2>5
    <3> HIDE DEF w
    <3>3. QED
      BY <1>1, <2>3, <3>1, <3>2, UserGoesOn
  <2>6. CASE a0 # 0
    <3>1. Call("ask", w, "memcpy", <<a0, Len(v) + 1, sizes[Len(v) + 1]>>)
      BY <1>5, <2>6
    <3> HIDE DEF w, v
    <3>2. ASSUME NEW f, NEW callee, f.pc = "ask", f.v = w, callee.fn = "memcpy",
                 callee.args = <<a0, Len(v) + 1, sizes[Len(v) + 1]>>, callee.pc = "entry"
          PROVE  Filling(f, callee, sizes, end, bytes)
      <4>1. Len(w) - 1 = Len(v) /\ Len(w) > 0 /\ w[Len(w)] = a0
        BY <2>1, <2>4
      <4>2. callee.args = <<w[Len(w)], Len(w), sizes[Len(w)]>>
        BY <2>4, <3>2
      <4>3. QED
        BY <2>3, <2>6, <3>2, <4>1, <4>2 DEF Filling, FillsBlock
    <3>3. QED
      BY <1>1, <3>1, <3>2, UserCalls
  <2>7. QED
    BY <2>5, <2>6
<1>6. QED
  BY <1>3, <1>4, <1>5 DEF HeapUser

(* A function main() has called answers. *)
LEMMA UserIsAnswered ==
  ASSUME UsesHeap, SortInv', job' = job, Len(stack) = 3, NEW x, Return(x),
         MemoryFits(bytes', end'), UserOnTop(stack[2], job.args, end', bytes', x)
  PROVE  HeapInv'
<1>1. /\ Len(stack') = 2 /\ a0' = x /\ stack'[1] = stack[1] /\ stack'[2] = stack[2]
  BY HeapReturn
<1>2. stack[1].fn = "_start" /\ stack[1].pc = "stop" /\ stack[2].fn = "main"
  BY HeapTop
<1>3. HeapStack(stack', job.args, end', bytes', a0')
  BY <1>1, <1>2 DEF HeapStack
<1>4. QED
  BY <1>3, HeapKept

LEMMA MallocHeapStep ==
  ASSUME UsesHeap, SortInv', malloc, UNCHANGED <<job, arr, temp, C, bytes>>
  PROVE  HeapInv'
<1> DEFINE sizes == job.args
           f == stack[2]
           size == sizes[Len(f.v) + 1]
           top == Word(end + Rounded(size))
<1>1. frame.fn = "malloc" /\ Len(stack) = 3
  BY HeapTop DEF malloc, At
<1>2. /\ RequestsFit(sizes) /\ MemoryFits(bytes, end) /\ end \in Nat
      /\ Allocating(f, frame, sizes, end, bytes)
  BY <1>1, HeapTop, HeapData
<1>3. /\ f.pc = "fill" /\ Blocks(f.v, sizes, end) /\ Filled(f.v, sizes, bytes, Len(f.v))
      /\ Len(f.v) < Len(sizes) /\ frame.args = <<size>>
  BY <1>2 DEF Allocating
<1>4. size \in Nat /\ size + 3 + HeapEnd < Modulus
  <2>1. sizes \in Seq(Nat) /\ f.v \in Seq(Nat)
    BY <1>2, <1>3 DEF RequestsFit, Blocks
  <2>2. Len(f.v) + 1 \in DOMAIN sizes
    BY <1>3, <2>1
  <2>3. QED
    BY <1>2, <2>2, SizesFit
<1>5. frame.args[1] = size
  BY <1>3
<1> HIDE DEF sizes, f, size
<1>6. IF top > HeapEnd THEN Return(0) /\ UNCHANGED end ELSE Return(end) /\ end' = top
  BY <1>5 DEF malloc
<1>7. CASE top > HeapEnd
  <2>1. UserOnTop(f, sizes, end', bytes', 0)
    BY <1>3, <1>6, <1>7 DEF UserOnTop
  <2>2. QED
    BY <1>1, <1>2, <1>6, <1>7, <2>1, UserIsAnswered DEF f, sizes
<1>8. CASE ~ top > HeapEnd
  <2>1. end \in HeapStart .. HeapEnd /\ end % 4 = 0
    BY <1>2 DEF MemoryFits
  <2>2. /\ top \in HeapStart .. HeapEnd /\ top % 4 = 0 /\ end <= top
        /\ IsBlock(end, size, top)
    BY <1>4, <1>8, <2>1, BlockIsFree
  <2>3. top \in Nat
    BY <2>2, HeapBounds
  <2> HIDE DEF top
  <2>4. Blocks(f.v, sizes, top) /\ EndBefore(f.v, sizes, Len(f.v) + 1, end)
    BY <1>2, <1>3, <2>2, <2>3, BlocksBelow, BlocksEnd
  <2>5. UserOnTop(f, sizes, top, bytes, end)
    BY <1>3, <2>2, <2>4 DEF UserOnTop, size
  <2>6. MemoryFits(bytes, top)
    BY <1>2, <2>2 DEF MemoryFits
  <2>7. Return(end) /\ end' = top /\ bytes' = bytes /\ job' = job
    BY <1>6, <1>8
  <2>8. QED
    BY <1>1, <2>5, <2>6, <2>7, UserIsAnswered DEF f, sizes
<1>9. QED
  BY <1>7, <1>8

(* memcpy() has copied so much. *)
LEMMA CopyGoesOn ==
  ASSUME UsesHeap, SortInv', job' = job, end' = end, Len(stack) = 3, NEW v, Goto("copy", v),
         MemoryFits(bytes', end), NEW f, f = stack[2], NEW m, m = Len(f.v),
         f.pc = "ask", Blocks(f.v, job.args, end), Filled(f.v, job.args, bytes', m - 1),
         m > 0, f.v[m] # 0,
         frame.fn = "memcpy", frame.args = <<f.v[m], m, job.args[m]>>,
         NEW done \in 0 .. job.args[m],
         v = [d |-> f.v[m] + done, s |-> m + done, n |-> job.args[m] - done],
         Copied(bytes', f.v[m], m, done)
  PROVE  HeapInv'
<1>1. /\ Len(stack') = 3 /\ stack'[1] = stack[1] /\ stack'[2] = stack[2]
      /\ stack'[3] = [fn |-> frame.fn, args |-> frame.args, pc |-> "copy", v |-> v]
  BY HeapGoto
<1>2. stack'[1].fn = "_start" /\ stack'[1].pc = "stop" /\ stack'[2].fn = "main" /\ stack'[2] = f
      /\ stack'[3].fn = "memcpy" /\ stack'[3].args = frame.args /\ stack'[3].v = v
  BY <1>1, HeapTop
<1>3. Filling(f, stack'[3], job.args, end, bytes')
  <2>1. \E x \in 0 .. job.args[m] :
          /\ stack'[3].v = [d |-> f.v[m] + x, s |-> m + x, n |-> job.args[m] - x]
          /\ Copied(bytes', f.v[m], m, x)
    BY <1>2, Zenon
  <2>2. stack'[3].fn = "memcpy" /\ stack'[3].args = <<f.v[m], m, job.args[m]>>
    BY <1>2, Zenon
  <2>3. QED
    BY <2>1, <2>2, Zenon DEF Filling, FillsBlock
<1>4. Filling(stack'[2], stack'[3], job.args, end', bytes')
  BY <1>2, <1>3
<1>5. Len(stack') = 3
  BY <1>1
<1>6. HeapStack(stack', job.args, end', bytes', a0')
  <2>1. SUFFICES ASSUME NEW s, s = stack', NEW answer
                 PROVE  HeapStack(s, job.args, end', bytes', answer)
    OBVIOUS
  <2>2. /\ Len(s) = 3 /\ s[1].fn = "_start" /\ s[1].pc = "stop" /\ s[2].fn = "main"
        /\ Filling(s[2], s[3], job.args, end', bytes')
    BY <1>2, <1>4, <1>5, <2>1
  <2>3. QED
    BY <2>2 DEF HeapStack
<1>7. QED
  BY <1>6, HeapKept

LEMMA MemcpyHeapStep ==
  ASSUME UsesHeap, SortInv', memcpy, UNCHANGED <<job, arr, temp, C, end>>
  PROVE  HeapInv'
<1> DEFINE sizes == job.args
           f == stack[2]
           m == Len(f.v)
           block == f.v[m]
<1>1. frame.fn = "memcpy" /\ Len(stack) = 3 /\ job' = job /\ end' = end
  BY HeapTop DEF memcpy, At
<1>2. /\ RequestsFit(sizes) /\ MemoryFits(bytes, end)
      /\ Filling(f, frame, sizes, end, bytes)
  BY <1>1, HeapTop, HeapData
<1>3. /\ f.pc = "ask" /\ Blocks(f.v, sizes, end) /\ Filled(f.v, sizes, bytes, m - 1)
      /\ m > 0 /\ block # 0 /\ frame.args = <<block, m, sizes[m]>>
      /\ frame.pc # "entry" =>
           \E done \in 0 .. sizes[m] :
             /\ frame.v = [d |-> block + done, s |-> m + done, n |-> sizes[m] - done]
             /\ Copied(bytes, block, m, done)
  BY <1>2 DEF Filling, FillsBlock
<1>4. /\ m \in DOMAIN f.v /\ m \in Nat /\ block \in Nat /\ sizes[m] \in Nat
  BY <1>2, <1>3, LastBlock
<1>5. frame.args[1] = block /\ frame.args[2] = m /\ frame.args[3] = sizes[m]
  BY <1>3
<1> HIDE DEF sizes, f, m, block
<1>6. CASE At("memcpy", "entry") /\ UNCHANGED bytes /\
           Goto("copy", [d |-> frame.args[1], s |-> frame.args[2], n |-> frame.args[3]])
  <2>1. Copied(bytes', block, m, 0) /\ 0 \in 0 .. sizes[m]
    BY <1>4 DEF Copied
  <2>2. [d |-> frame.args[1], s |-> frame.args[2], n |-> frame.args[3]]
          = [d |-> block + 0, s |-> m + 0, n |-> sizes[m] - 0]
    BY <1>4, <1>5
  <2>3. QED
    BY <1>1, <1>2, <1>3, <1>6, <2>1, <2>2, CopyGoesOn DEF f, m, block, sizes
<1>7. ASSUME At("memcpy", "copy"),
             NEW v \in {frame.v},
             IF v.n = 0 THEN Return(frame.args[1]) /\ UNCHANGED bytes
             ELSE /\ bytes' = [bytes EXCEPT ![v.d] = bytes[v.s]]
                  /\ Goto("copy", [d |-> v.d + 1, s |-> v.s + 1, n |-> v.n - 1])
      PROVE  HeapInv'
  <2>1. PICK done \in 0 .. sizes[m] :
          /\ frame.v = [d |-> block + done, s |-> m + done, n |-> sizes[m] - done]
          /\ Copied(bytes, block, m, done)
    BY <1>3, <1>7 DEF At
  <2>2. v.d = block + done /\ v.s = m + done /\ v.n = sizes[m] - done /\ done \in Nat
    BY <1>7, <2>1
  <2>3. CASE v.n = 0
    <3>1. done = sizes[m] /\ bytes' = bytes /\ Return(block)
      BY <1>4, <1>5, <1>7, <2>2, <2>3
    <3>2. Filled(f.v, sizes, bytes, m)
      <4>1. ASSUME NEW k \in DOMAIN f.v, k <= m, f.v[k] # 0
            PROVE  Copied(bytes, f.v[k], k, sizes[k])
        <5>1. CASE k = m
          BY <2>1, <3>1, <5>1 DEF block
        <5>2. CASE k # m
          <6>1. k \in Nat
            BY <1>3 DEF Blocks
          <6>2. k <= m - 1
            BY <1>4, <4>1, <5>2, <6>1
          <6>3. QED
            BY <1>3, <4>1, <6>2 DEF Filled
        <5>3. QED
          BY <5>1, <5>2
      <4>2. QED
        BY <4>1 DEF Filled
    <3>3. UserOnTop(f, sizes, end', bytes', block)
      BY <1>1, <1>3, <3>1, <3>2 DEF UserOnTop, m
    <3>4. QED
      BY <1>1, <1>2, <3>1, <3>3, UserIsAnswered DEF f, sizes
  <2>4. CASE v.n # 0
    <3>1. bytes' = [bytes EXCEPT ![block + done] = bytes[m + done]]
      BY <1>7, <2>2, <2>4
    <3>2. done < sizes[m] /\ done + 1 \in 0 .. sizes[m]
      BY <1>4, <2>1, <2>2, <2>4
    <3>3. /\ MemoryFits(bytes', end) /\ Filled(f.v, sizes, bytes', m - 1)
          /\ Copied(bytes', block, m, done + 1)
      <4>1. f.v[m] # 0 /\ Copied(bytes, f.v[m], m, done) /\ done \in Nat
        BY <1>3, <2>1, <2>2 DEF block
      <4>2. \E copy \in {[bytes EXCEPT ![f.v[m] + done] = bytes[m + done]]} :
              /\ MemoryFits(copy, end) /\ Filled(f.v, sizes, copy, m - 1)
              /\ Copied(copy, f.v[m], m, done + 1)
        BY <1>2, <1>3, <1>4, <3>2, <4>1, ByteIsCopied
      <4>3. QED
        BY <3>1, <4>2, Zenon DEF block
    <3>4. Goto("copy", [d |-> block + (done + 1), s |-> m + (done + 1), n |-> sizes[m] - (done + 1)])
      <4>1. v.d + 1 = block + (done + 1) /\ v.s + 1 = m + (done + 1)
            /\ v.n - 1 = sizes[m] - (done + 1)
        BY <1>4, <2>2
      <4>2. QED
        BY <1>7, <2>4, <4>1
    <3>5. QED
      BY <1>1, <1>3, <3>2, <3>3, <3>4, CopyGoesOn DEF f, m, block, sizes
  <2>5. QED
    BY <2>3, <2>4
<1>8. QED
  BY <1>6, <1>7 DEF memcpy

(* The functions the program does not call. *)
LEMMA HeapFunctions ==
  ASSUME UsesHeap
  PROVE  /\ ~ ArithmeticSteps /\ ~ fact /\ ~ fib /\ ~ matmul /\ ~ quick_sort /\ ~ radix_sort
<1>1. frame.fn \in {"_start", "main", "malloc", "memcpy"}
  BY HeapTop
<1>2. ~ ArithmeticSteps
  BY <1>1 DEF ArithmeticSteps, udivsi3, umodsi3, divsi3, modsi3, mulsi3, Divide, Double, At
<1>3. ~ fact /\ ~ fib
  BY <1>1 DEF fact, fib, At
<1>4. ~ matmul
  BY <1>1 DEF matmul, matmul_loops, At
<1>5. ~ quick_sort
  BY <1>1 DEF quick_sort, quick_sort_entry, ScanUp, ScanDown, Swap, Outer, SecondHalf, At
<1>6. ~ radix_sort
  BY <1>1 DEF radix_sort, radix_entry, Clear, Count, PrefixSums, Place, CopyBack, At
<1>7. QED
  BY <1>2, <1>3, <1>4, <1>5, <1>6

LEMMA HeapInit ==
  ASSUME Init
  PROVE  HeapInv
<1>1. SortInv
  BY SortInit
<1>3. /\ HeapStart \in Nat \ {0} /\ HeapStart % 4 = 0
      /\ HeapEnd \in Nat /\ HeapStart <= HeapEnd
  BY HeapBounds
<1>4. end = HeapStart /\ bytes = [a \in 0 .. HeapEnd - 1 |-> IF a < HeapStart THEN a ELSE 0]
  BY DEF Init
<1>5. MemoryFits(bytes, end)
  BY <1>3, <1>4 DEF MemoryFits
<1>6. stack = <<Called("_start", <<>>)>>
  BY DEF Init
<1>7. Len(stack) = 1 /\ stack[1].fn = "_start"
  BY <1>6 DEF Called
<1>8. HeapStack(stack, job.args, end, bytes, a0)
  BY <1>7 DEF HeapStack
<1>9. QED
  BY <1>1, <1>5, <1>8 DEF HeapInv

LEMMA HeapStep ==
  ASSUME HeapInv, [Next]_vars
  PROVE  HeapInv'
<1>1. SortInv'
  BY SortStep DEF HeapInv
<1>2. CASE UNCHANGED vars
  BY <1>1, <1>2 DEF vars, memory, HeapInv, HeapStack
<1>3. CASE Next /\ ~ (job.program = "heap" /\ RequestsFit(job.args))
  <2>1. job' = job
    BY <1>3 DEF Next, memory
  <2>2. QED
    BY <1>1, <1>3, <2>1 DEF HeapInv
<1>4. CASE Next /\ stack = <<>>
  <2>1. FALSE
    BY <1>4 DEF Next, ArithmeticSteps, udivsi3, umodsi3, divsi3, modsi3, mulsi3, Divide, Double,
      fact, fib, start, main, HeapUser, matmul, matmul_loops, quick_sort, quick_sort_entry, ScanUp,
      ScanDown, Swap, Outer, SecondHalf, radix_sort, radix_entry, Clear, Count, PrefixSums, Place,
      CopyBack, malloc, memcpy, At
  <2>2. QED
    BY <2>1
<1>5. CASE Next /\ job.program = "heap" /\ RequestsFit(job.args) /\ stack # <<>>
  <2>1. UsesHeap
    BY <1>5 DEF UsesHeap
  <2>2. \/ (start \/ main \/ HeapUser) /\ UNCHANGED memory
        \/ malloc /\ UNCHANGED <<job, arr, temp, C, bytes>>
        \/ memcpy /\ UNCHANGED <<job, arr, temp, C, end>>
    BY <1>5, <2>1, HeapFunctions DEF Next
  <2>3. QED
    BY <1>1, <2>1, <2>2, StartHeapStep, MainHeapStep, HeapUserStep, MallocHeapStep, MemcpyHeapStep
<1>6. QED
  BY <1>2, <1>3, <1>4, <1>5

LEMMA HeapInvKeepsBlocks ==
  ASSUME HeapInv
  PROVE  BlocksAreKept
<1>1. SUFFICES ASSUME stack # <<>>, job.program = "heap", RequestsFit(job.args),
                      frame.fn = "main", frame.pc = "ask",
                      NEW k \in DOMAIN frame.v, frame.v[k] # 0
               PROVE  /\ frame.v[k] % 4 = 0 /\ frame.v[k] >= HeapStart
                      /\ frame.v[k] + job.args[k] <= HeapEnd
                      /\ \A b \in 0 .. job.args[k] - 1 : bytes[frame.v[k] + b] = k + b
  BY DEF BlocksAreKept
<1>2. UsesHeap
  BY <1>1 DEF UsesHeap
<1>3. Len(stack) = 2 /\ UserOnTop(frame, job.args, end, bytes, a0)
  BY <1>1, <1>2, HeapTop
<1>4. Blocks(frame.v, job.args, end) /\ Filled(frame.v, job.args, bytes, Len(frame.v))
  BY <1>1, <1>3 DEF UserOnTop
<1>5. k \in 1 .. Len(frame.v) /\ Len(frame.v) \in Nat /\ RequestsFit(job.args)
  BY <1>1, <1>2, <1>4, HeapData DEF Blocks
<1>6. IsBlock(frame.v[k], job.args[k], end) /\ Copied(bytes, frame.v[k], k, job.args[k])
  <2>1. k <= Len(frame.v)
    BY <1>5
  <2>2. QED
    BY <1>1, <1>4, <2>1 DEF Blocks, Filled
<1>7. end <= HeapEnd /\ end \in Nat /\ HeapEnd \in Nat
  BY <1>2, HeapData, HeapBounds DEF MemoryFits
<1>8. job.args[k] \in Nat
  <2>1. job.args \in Seq(Nat) /\ Len(frame.v) <= Len(job.args)
    BY <1>4, <1>5 DEF RequestsFit, Blocks
  <2>2. QED
    BY <1>5, <2>1
<1>9. QED
  BY <1>6, <1>7, <1>8 DEF IsBlock, Copied

(* A block malloc() has answered lies in the heap and keeps what memcpy()  *)
(* has put there, for every heap, any number of blocks and any sizes of a  *)
(* program whose requests fit: BlocksAreKept says nothing of the others    *)
(* (essentials/malloc.c, memcpy.c).                                        *)
THEOREM BlocksStay == Spec => []BlocksAreKept
<1>1. Init => HeapInv
  BY HeapInit
<1>2. HeapInv /\ [Next]_vars => HeapInv'
  BY HeapStep
<1>3. HeapInv => BlocksAreKept
  BY HeapInvKeepsBlocks
<1>4. QED
  BY <1>1, <1>2, <1>3, PTL DEF Spec

-----------------------------------------------------------------------------
(* The routines of the library (essentials/stdlib): each returns what the  *)
(* operator it stands for means, for every two words.                      *)
Words == 0 .. Modulus - 1

(* Division with remainder, and that both are unique. *)
LEMMA Divided ==
  ASSUME NEW x \in Int, NEW y \in Nat \ {0}
  PROVE  \E q \in Int, r \in 0 .. y - 1 : x \div y = q /\ x % y = r /\ x = q * y + r
<1>1. PICK q \in Int : x \div y = q
  OBVIOUS
<1>2. PICK r \in 0 .. y - 1 : x % y = r
  OBVIOUS
<1>3. x % y = x - y * (x \div y)
  BY Z3
<1>4. r = x - y * q
  BY <1>1, <1>2, <1>3
<1>5. x = q * y + r
  BY <1>4
<1> QED
  BY <1>1, <1>2, <1>5

LEMMA Products ==
  ASSUME NEW x \in Int, NEW y \in Int, NEW z \in Nat, x <= y
  PROVE  x * z <= y * z
<1>1. PICK d \in Nat : y = x + d
  <2>1. y - x \in Nat /\ y = x + (y - x)
    OBVIOUS
  <2> QED
    BY <2>1
<1>2. y * z = x * z + d * z
  BY <1>1
<1>3. d * z >= 0 /\ x * z \in Int /\ y * z \in Int /\ d * z \in Int
  OBVIOUS
<1> QED
  BY <1>2, <1>3

LEMMA DividedOnce ==
  ASSUME NEW x \in Int, NEW y \in Nat \ {0}, NEW q \in Int, NEW r \in 0 .. y - 1, x = q * y + r
  PROVE  x \div y = q /\ x % y = r
<1>1. PICK p \in Int, s \in 0 .. y - 1 : x \div y = p /\ x % y = s /\ x = p * y + s
  BY Divided
<1>2. y \in Nat /\ p * y \in Int /\ q * y \in Int
  BY <1>1
<1>3. p * y + s = q * y + r
  BY <1>1, <1>2
<1>4. CASE p < q
  <2>1. (p + 1) * y <= q * y
    BY <1>1, <1>4, Products
  <2>2. (p + 1) * y = p * y + y
    BY <1>1
  <2> QED
    BY <1>1, <1>2, <1>3, <2>1, <2>2
<1>5. CASE q < p
  <2>1. (q + 1) * y <= p * y
    BY <1>1, <1>5, Products
  <2>2. (q + 1) * y = q * y + y
    OBVIOUS
  <2> QED
    BY <1>1, <1>2, <1>3, <2>1, <2>2
<1>6. CASE p = q
  BY <1>1, <1>2, <1>3, <1>6
<1> QED
  BY <1>1, <1>4, <1>5, <1>6

LEMMA WordType ==
  ASSUME NEW x \in Int
  PROVE  Word(x) \in Words /\ \E k \in Int : x = k * Modulus + Word(x)
<1>1. Modulus \in Nat \ {0}
  BY PowersAssumption
<1>2. PICK k \in Int, r \in 0 .. Modulus - 1 : x % Modulus = r /\ x = k * Modulus + r
  BY <1>1, Divided
<1> QED
  BY <1>2 DEF Word, Words

LEMMA SameWord ==
  ASSUME NEW x \in Int, NEW y \in Int, NEW k \in Int, x = k * Modulus + y
  PROVE  Word(x) = Word(y)
<1>1. Modulus \in Nat \ {0} /\ Modulus \in Int
  BY PowersAssumption
<1>2. PICK h \in Int : y = h * Modulus + Word(y)
  BY WordType
<1>3. Word(y) \in 0 .. Modulus - 1
  BY WordType DEF Words
<1>4. x = (k + h) * Modulus + Word(y)
  BY <1>1, <1>2, <1>3
<1>5. k + h \in Int
  OBVIOUS
<1>6. x % Modulus = Word(y)
  BY <1>1, <1>3, <1>4, <1>5, DividedOnce
<1> QED
  BY <1>6 DEF Word

LEMMA WordOfWord ==
  ASSUME NEW w \in Words
  PROVE  Word(w) = w
<1>1. Modulus \in Nat \ {0}
  BY PowersAssumption
<1> QED
  BY <1>1 DEF Word, Words
(* What a bit is that started at 1 and was doubled. *)
OneBit(b) == \A S \in SUBSET (Nat \ {0}) : 1 \in S /\ (\A x \in S : 2 * x \in S) => b \in S

LEMMA OneBits ==
  /\ OneBit(1)
  /\ \A b : OneBit(b) => /\ b \in Nat \ {0} /\ OneBit(2 * b)
                         /\ b = 1 \/ \E c : OneBit(c) /\ c \in Nat \ {0} /\ b = 2 * c
<1>1. OneBit(1)
  BY DEF OneBit
<1>2. ASSUME NEW b, OneBit(b)
      PROVE  b \in Nat \ {0}
  <2> DEFINE T == Nat \ {0}
  <2>1. 1 \in T /\ \A x \in T : 2 * x \in T
    OBVIOUS
  <2> HIDE DEF T
  <2>2. b \in T
    BY <1>2, <2>1 DEF OneBit, T
  <2> QED
    BY <2>2 DEF T
<1>3. ASSUME NEW b, OneBit(b)
      PROVE  OneBit(2 * b)
  BY <1>3 DEF OneBit
<1>4. ASSUME NEW b, OneBit(b)
      PROVE  b = 1 \/ \E c : OneBit(c) /\ c \in Nat \ {0} /\ b = 2 * c
  <2> DEFINE T == {x \in Nat \ {0} : x = 1 \/ \E c : OneBit(c) /\ c \in Nat \ {0} /\ x = 2 * c}
  <2>1. 1 \in T
    OBVIOUS
  <2>2. ASSUME NEW x \in T
        PROVE  2 * x \in T
    <3>1. OneBit(x)
      BY <1>1, <1>3
    <3> QED
      BY <3>1
  <2> HIDE DEF T
  <2>3. T \in SUBSET (Nat \ {0})
    BY DEF T
  <2>4. b \in T
    BY <1>4, <2>1, <2>2, <2>3 DEF OneBit
  <2> QED
    BY <2>4 DEF T
<1> QED
  BY <1>1, <1>2, <1>3, <1>4

-----------------------------------------------------------------------------
(* Multiplication *)

LEMMA WordsAreNumbers ==
  /\ Modulus \in Nat \ {0} /\ Words \subseteq Nat
  /\ \A x \in Words : x < Modulus
BY PowersAssumption DEF Words

(* The two bits of a step. *)
LEMMA TwoBits ==
  ASSUME NEW b \in Nat
  PROVE  \E d \in Nat, h \in 0 .. 1, l \in 0 .. 1 :
           b \div 4 = d /\ (b \div 2) % 2 = h /\ b % 2 = l /\ b = 4 * d + 2 * h + l
OBVIOUS

(* What __mulsi3 has still to add makes up the product. *)
Multiplies(v, x, y) ==
  /\ v.a \in Words /\ v.b \in Words /\ v.result \in Words
  /\ Word(v.result + v.a * v.b) = Word(x * y)

LEMMA AddedMultiplies ==
  ASSUME NEW v, NEW x \in Words, NEW y \in Words, Multiplies(v, x, y)
  PROVE  Multiplies(Added(v), x, y)
<1> DEFINE a == v.a
           b == v.b
           s == v.result
           M == Modulus
<1>1. /\ M \in Int /\ a \in Nat /\ b \in Nat /\ s \in Nat /\ b < M
      /\ Word(s + a * b) = Word(x * y)
  <2>1. a \in Words /\ b \in Words /\ s \in Words /\ Word(s + a * b) = Word(x * y)
    BY DEF Multiplies
  <2> HIDE DEF a, b, s
  <2> QED
    BY <2>1, WordsAreNumbers
<1> HIDE DEF a, b, s
<1>2. PICK d \in Nat, h \in 0 .. 1, l \in 0 .. 1 :
        b \div 4 = d /\ (b \div 2) % 2 = h /\ b % 2 = l /\ b = 4 * d + 2 * h + l
  BY <1>1, TwoBits
<1> DEFINE t == Word(2 * a)
           u == Word(4 * a)
           w == Word(s + a * l + t * h)
<1> DEFINE a2 == 2 * a
           a4 == 4 * a
<1>3. t \in Words /\ \E k \in Int : 2 * a = k * M + t
  <2>1. a2 \in Int
    BY <1>1
  <2> HIDE DEF a2
  <2>2. Word(a2) \in Words /\ \E k \in Int : a2 = k * M + Word(a2)
    BY <2>1, WordType
  <2> QED
    BY <2>2, Zenon DEF a2
<1>4. u \in Words /\ \E k \in Int : 4 * a = k * M + u
  <2>1. a4 \in Int
    BY <1>1
  <2> HIDE DEF a4
  <2>2. Word(a4) \in Words /\ \E k \in Int : a4 = k * M + Word(a4)
    BY <2>1, WordType
  <2> QED
    BY <2>2, Zenon DEF a4
<1> HIDE DEF t, u
<1>5. t \in Int /\ u \in Int /\ s + a * l + t * h \in Int
  BY <1>1, <1>2, <1>3, <1>4, WordsAreNumbers
<1>6. w \in Words /\ \E k \in Int : s + a * l + t * h = k * M + w
  BY <1>5, WordType
<1> HIDE DEF w, M
<1>7. PICK i1 \in Int : 2 * a = i1 * M + t
  BY <1>3
<1>8. PICK i2 \in Int : 4 * a = i2 * M + u
  BY <1>4
<1>9. PICK i3 \in Int : s + a * l + t * h = i3 * M + w
  BY <1>6
<1>10. w \in Int
  BY <1>6, WordsAreNumbers
<1>11. s + a * b = (i1 * h + i2 * d + i3) * M + (w + u * d)
  <2>1. a * b = (4 * a) * d + (2 * a) * h + a * l
    BY <1>1, <1>2
  <2>2. (4 * a) * d = i2 * d * M + u * d
    BY <1>1, <1>2, <1>5, <1>8
  <2>3. (2 * a) * h = i1 * h * M + t * h
    BY <1>1, <1>2, <1>5, <1>7
  <2>4. s + a * b = i2 * d * M + u * d + i1 * h * M + (s + a * l + t * h)
    BY <1>1, <1>2, <1>5, <2>1, <2>2, <2>3
  <2>5. s + a * b = i2 * d * M + u * d + i1 * h * M + (i3 * M + w)
    BY <1>9, <2>4
  <2> QED
    BY <1>1, <1>2, <1>5, <1>10, <2>5
<1>12. Word(w + u * d) = Word(s + a * b)
  <2>1. i1 * h + i2 * d + i3 \in Int /\ s + a * b \in Int /\ w + u * d \in Int
    BY <1>1, <1>2, <1>5, <1>10
  <2> QED
    BY <1>11, <2>1, SameWord DEF M
<1>13. Added(v) = [a |-> u, b |-> d, result |-> w]
  BY <1>2 DEF Added, Shl1, a, b, s, t, u, w
<1>14. d \in Words
  BY <1>1, <1>2 DEF Words, M
<1> QED
  BY <1>1, <1>4, <1>6, <1>12, <1>13, <1>14 DEF Multiplies

(* The table: a quarter of the square of the sum, less one of the square   *)
(* of the difference.                                                      *)
LEMMA QuarterSquares ==
  ASSUME NEW x \in Nat, NEW y \in Nat, y <= x, x + y < TableSize
  PROVE  QSQ[x + y] - QSQ[x - y] = x * y
<1> DEFINE s == x + y
           d == x - y
<1>1. TableSize \in Nat
  <2>1. 2 ^ WordBits = Modulus
    BY DEF Modulus
  <2> QED
    BY <2>1, WidthAssumption, WordsAreNumbers
<1>2. s \in 0 .. TableSize - 1 /\ d \in 0 .. TableSize - 1
  BY <1>1
<1>3. QSQ[s] = (s * s) \div 4 /\ QSQ[d] = (d * d) \div 4
  BY <1>2 DEF QSQ
<1>4. s * s = 4 * (x * y) + d * d
  OBVIOUS
<1> DEFINE p == x * y
           q == d * d
<1>5. p \in Int /\ q \in Int /\ s * s = 4 * p + q
  BY <1>4
<1> HIDE DEF p, q, s, d
<1>6. (4 * p + q) \div 4 - q \div 4 = p
  BY <1>5
<1> QED
  BY <1>3, <1>5, <1>6 DEF p, q, s, d

(* The fast path, whichever operand is the larger. *)
LEMMA FastMultiplies ==
  ASSUME NEW x \in Words, NEW y \in Words, Fast(x, y)
  PROVE  Word(QSQ[Word(x + y)] - QSQ[Larger(x, y) - Smaller(x, y)]) = Word(x * y)
<1>1. /\ x \in Nat /\ y \in Nat /\ Modulus \in Nat \ {0}
      /\ x < Modulus /\ y < Modulus
  BY WordsAreNumbers
<1>2. Word(x + y) = x + y
  <2>1. Word(x + y) \in Words /\ \E k \in Int : x + y = k * Modulus + Word(x + y)
    <3> DEFINE z == x + y
    <3>1. z \in Int
      BY <1>1
    <3> HIDE DEF z
    <3>2. Word(z) \in Words /\ \E k \in Int : z = k * Modulus + Word(z)
      BY <3>1, WordType
    <3> QED
      BY <3>2, Zenon DEF z
  <2>2. CASE x + y < Modulus
    <3>1. x + y \in Words
      BY <1>1, <2>2 DEF Words
    <3> QED
      BY <3>1, WordOfWord
  <2>3. CASE x + y >= Modulus
    <3>1. x + y - Modulus \in Words
      BY <1>1, <2>3 DEF Words
    <3>2. x + y = 1 * Modulus + (x + y - Modulus)
      BY <1>1
    <3>3. Word(x + y) = Word(x + y - Modulus)
      <4> DEFINE z == x + y
                 u == x + y - Modulus
      <4>1. z \in Int /\ u \in Int /\ 1 \in Int /\ z = 1 * Modulus + u
        BY <1>1, <3>2
      <4> HIDE DEF z, u
      <4>2. Word(z) = Word(u)
        BY <4>1, SameWord
      <4> QED
        BY <4>2 DEF z, u
    <3>4. Word(x + y) = x + y - Modulus
      BY <3>1, <3>3, WordOfWord
    <3> QED
      BY <1>1, <3>4 DEF Fast
  <2> QED
    BY <1>1, <2>2, <2>3
<1>3. x + y < TableSize
  BY <1>2 DEF Fast
<1>4. CASE x < y
  <2>1. Larger(x, y) = y /\ Smaller(x, y) = x /\ y * x = x * y /\ y + x = x + y
    BY <1>1, <1>4 DEF Larger, Smaller
  <2>2. QSQ[y + x] - QSQ[y - x] = y * x
    BY <1>1, <1>3, <1>4, QuarterSquares
  <2> QED
    BY <1>2, <2>1, <2>2
<1>5. CASE ~(x < y)
  <2>1. Larger(x, y) = x /\ Smaller(x, y) = y
    BY <1>1, <1>5 DEF Larger, Smaller
  <2>2. QSQ[x + y] - QSQ[x - y] = x * y
    BY <1>1, <1>3, <1>5, QuarterSquares
  <2> QED
    BY <1>2, <2>1, <2>2
<1> QED
  BY <1>4, <1>5

LEMMA AddBegins ==
  ASSUME NEW x \in Words, NEW y \in Words
  PROVE  Multiplies([a |-> Larger(x, y), b |-> Smaller(x, y), result |-> 0], x, y)
<1>1. /\ x \in Nat /\ y \in Nat /\ 0 \in Words
  BY WordsAreNumbers DEF Words
<1>2. Larger(x, y) \in Words /\ Smaller(x, y) \in Words
  BY DEF Larger, Smaller
<1>3. 0 + Larger(x, y) * Smaller(x, y) = x * y
  BY <1>1 DEF Larger, Smaller
<1> QED
  BY <1>1, <1>2, <1>3 DEF Multiplies

LEMMA AddEnds ==
  ASSUME NEW v, NEW x, NEW y, Multiplies(v, x, y), v.b = 0
  PROVE  v.result = Word(x * y)
<1>1. v.a \in Nat /\ v.result \in Nat /\ v.result \in Words
  BY WordsAreNumbers DEF Multiplies
<1>2. v.result + v.a * 0 = v.result
  BY <1>1
<1> QED
  BY <1>1, <1>2, WordOfWord DEF Multiplies

-----------------------------------------------------------------------------
(* Division *)

(* The divisor is doubled. *)
Grows(v, x, y) ==
  /\ v.dividend = x /\ OneBit(v.bit)
  /\ v.divisor = y * v.bit /\ v.divisor < Modulus

(* It is halved, and q is the quotient so far. *)
Shrinks(v, x, y, q) ==
  /\ v.dividend \in Nat /\ v.divisor \in Nat /\ v.bit \in Nat /\ q \in Nat
  /\ x = q * y + v.dividend
  /\ v.bit = 0 => v.dividend < y
  /\ v.bit # 0 => OneBit(v.bit) /\ v.divisor = y * v.bit /\ v.dividend < 2 * v.divisor

(* The variables both divisions have. *)
HasVariables(v) == {"dividend", "divisor", "bit"} \subseteq DOMAIN v

LEMMA WordIsSame ==
  ASSUME NEW x \in Nat, x < Modulus
  PROVE  x \in Words /\ Word(x) = x
<1>1. x \in Words
  BY WordsAreNumbers DEF Words
<1> QED
  BY <1>1, WordOfWord

LEMMA GrowBegins ==
  ASSUME NEW v, NEW x, NEW y \in Words, y # 0, v.dividend = x, v.divisor = y, v.bit = 1
  PROVE  Grows(v, x, y)
<1>1. y \in Nat /\ y < Modulus /\ y * 1 = y
  BY WordsAreNumbers
<1> QED
  BY <1>1, OneBits DEF Grows

LEMMA DoubledGrows ==
  ASSUME NEW v, NEW x \in Words, NEW y \in Words, y # 0, HasVariables(v), Grows(v, x, y), Doubles(v)
  PROVE  Grows(Doubled(v), x, y) /\ HasVariables(Doubled(v))
<1> DEFINE d == v.divisor
           b == v.bit
<1>1. b \in Nat \ {0} /\ OneBit(b) /\ OneBit(2 * b) /\ d = y * b /\ 2 * d < Modulus
  BY OneBits DEF Grows, Doubles
<1>2. x \in Nat /\ y \in Nat \ {0} /\ Modulus \in Nat
  BY WordsAreNumbers
<1> HIDE DEF d, b
<1>3. d \in Nat /\ b <= d
  <2>1. 1 * b <= y * b
    BY <1>1, <1>2, Products
  <2>2. 1 * b = b /\ y * b \in Nat
    BY <1>1, <1>2
  <2> QED
    BY <1>1, <2>1, <2>2
<1>4. 2 * d \in Nat /\ 2 * b \in Nat /\ 2 * b < Modulus
  BY <1>1, <1>2, <1>3
<1>5. Shl1(d) = 2 * d /\ Shl1(b) = 2 * b
  <2> DEFINE d2 == 2 * d
             b2 == 2 * b
  <2>1. d2 \in Nat /\ d2 < Modulus /\ b2 \in Nat /\ b2 < Modulus
    BY <1>1, <1>4
  <2> HIDE DEF d2, b2
  <2>2. Word(d2) = d2 /\ Word(b2) = b2
    BY <2>1, WordIsSame
  <2> QED
    BY <2>2, Zenon DEF d2, b2, Shl1
<1>6. 2 * d = y * (2 * b)
  BY <1>1, <1>2
<1>7. /\ Doubled(v).divisor = 2 * d /\ Doubled(v).bit = 2 * b /\ Doubled(v).dividend = v.dividend
      /\ DOMAIN Doubled(v) = DOMAIN v
  BY <1>5 DEF Doubled, HasVariables, d, b
<1> QED
  BY <1>1, <1>6, <1>7 DEF Grows, HasVariables

LEMMA ShrinkBegins ==
  ASSUME NEW v, NEW x \in Words, NEW y \in Words, y # 0, Grows(v, x, y), ~Doubles(v)
  PROVE  Shrinks(v, x, y, 0)
<1>1. x \in Nat /\ y \in Nat \ {0} /\ Modulus \in Nat /\ x < Modulus
  BY WordsAreNumbers
<1>2. v.bit \in Nat \ {0} /\ OneBit(v.bit) /\ v.divisor = y * v.bit /\ v.dividend = x
  BY OneBits DEF Grows
<1>3. v.divisor \in Nat \ {0}
  BY <1>1, <1>2
<1>4. x < 2 * v.divisor
  BY <1>1, <1>2, <1>3 DEF Doubles
<1>5. x = 0 * y + x
  BY <1>1
<1> QED
  BY <1>1, <1>2, <1>3, <1>4, <1>5 DEF Shrinks

(* One step of the halving, whatever is done with the quotient. *)
LEMMA HalvedShrinks ==
  ASSUME NEW v, NEW w, NEW x \in Words, NEW y \in Words, y # 0, NEW q, Shrinks(v, x, y, q), v.bit # 0,
         w.bit = v.bit \div 2, w.divisor = v.divisor \div 2,
         w.dividend = IF v.dividend >= v.divisor THEN v.dividend - v.divisor ELSE v.dividend
  PROVE  Shrinks(w, x, y, IF v.dividend >= v.divisor THEN q + v.bit ELSE q)
<1> DEFINE a == v.dividend
           d == v.divisor
           b == v.bit
           r == w.dividend
           p == IF a >= d THEN q + b ELSE q
<1>1. /\ a \in Nat /\ d \in Nat /\ b \in Nat /\ b # 0 /\ q \in Nat /\ x = q * y + a
      /\ OneBit(b) /\ d = y * b /\ a < 2 * d
      /\ r = IF a >= d THEN a - d ELSE a
  BY DEF Shrinks
<1>2. x \in Nat /\ y \in Nat \ {0}
  BY WordsAreNumbers
<1> HIDE DEF a, d, b, r
<1>3. r \in Nat /\ r < d
  BY <1>1
<1>4. x = p * y + r /\ p \in Nat
  <2>1. CASE a >= d
    <3>1. p = q + b /\ r = a - d
      BY <1>1, <2>1
    <3>2. (q + b) * y = q * y + b * y /\ b * y = d
      BY <1>1, <1>2
    <3>3. q * y \in Nat /\ d \in Nat
      BY <1>1, <1>2
    <3> QED
      BY <1>1, <1>2, <3>1, <3>2, <3>3
  <2>2. CASE ~(a >= d)
    BY <1>1, <2>2
  <2> QED
    BY <2>1, <2>2
<1> HIDE DEF p
<1>5. CASE b = 1
  <2>1. d = y /\ b \div 2 = 0 /\ d \div 2 \in Nat
    BY <1>1, <1>2, <1>5
  <2>2. w.bit = 0 /\ w.divisor \in Nat /\ r < y
    BY <1>3, <2>1 DEF b, d
  <2> QED
    BY <1>3, <1>4, <2>2 DEF Shrinks, p, r, a, b, d
<1>6. CASE b # 1
  <2>1. PICK c : OneBit(c) /\ c \in Nat \ {0} /\ b = 2 * c
    BY <1>1, <1>6, OneBits
  <2> DEFINE e == y * c
  <2>2. e \in Nat /\ d = 2 * e
    BY <1>1, <1>2, <2>1
  <2> HIDE DEF e
  <2>3. b \div 2 = c /\ d \div 2 = e
    BY <2>1, <2>2
  <2>4. w.bit = c /\ w.divisor = e /\ r < 2 * e
    BY <1>3, <2>2, <2>3 DEF b, d
  <2>5. w.divisor = y * w.bit
    BY <2>4 DEF e
  <2> QED
    BY <1>3, <1>4, <2>1, <2>2, <2>4, <2>5 DEF Shrinks, p, r, a, b, d
<1> QED
  BY <1>5, <1>6

LEMMA ShrinkEnds ==
  ASSUME NEW v, NEW x \in Words, NEW y \in Words, y # 0, NEW q, Shrinks(v, x, y, q), v.bit = 0
  PROVE  q = x \div y /\ v.dividend = x % y
<1> DEFINE r == v.dividend
<1>1. y \in Nat \ {0} /\ x \in Int
  BY WordsAreNumbers
<1>2. q \in Int /\ r \in 0 .. y - 1 /\ x = q * y + r
  BY <1>1 DEF Shrinks
<1> HIDE DEF r
<1>3. x \div y = q /\ x % y = r
  BY <1>1, <1>2, DividedOnce
<1> QED
  BY <1>3 DEF r

(* A word is its magnitude with its sign, the least integer too. *)
LEMMA SignAndMagnitude ==
  ASSUME NEW w \in Words
  PROVE  /\ Magnitude(w) \in Words /\ Signed(w) \in Int
         /\ Sign(Signed(w)) \in {-1, 1}
         /\ Sign(Signed(w)) = IF Signed(w) < 0 THEN -1 ELSE 1
         /\ Signed(w) = Sign(Signed(w)) * Magnitude(w) /\ Abs(Signed(w)) = Magnitude(w)
         /\ w # 0 => Magnitude(w) # 0
<1>1. w \in Nat /\ w < Modulus /\ Modulus \in Nat \ {0}
  BY WordsAreNumbers
<1>2. CASE 2 * w < Modulus
  <2>1. Signed(w) = w /\ ~(w < 0)
    BY <1>1, <1>2 DEF Signed
  <2>2. Magnitude(w) = w /\ Sign(Signed(w)) = 1
    BY <2>1 DEF Magnitude, Sign
  <2> QED
    BY <1>1, <2>1, <2>2 DEF Abs
<1>3. CASE ~(2 * w < Modulus)
  <2>1. Signed(w) = w - Modulus /\ w - Modulus < 0 /\ w # 0
    BY <1>1, <1>3 DEF Signed
  <2>2. -(w - Modulus) \in Nat /\ -(w - Modulus) < Modulus
    BY <1>1, <2>1
  <2>3. Word(-(w - Modulus)) = -(w - Modulus) /\ -(w - Modulus) \in Words
    BY <2>2, WordIsSame
  <2>4. Magnitude(w) = -(w - Modulus) /\ Sign(Signed(w)) = -1
    BY <2>1, <2>3 DEF Magnitude, Sign
  <2>5. -1 * (-(w - Modulus)) = w - Modulus /\ -1 * (w - Modulus) = -(w - Modulus)
    BY <1>1
  <2>6. Signed(w) \in Int /\ -(w - Modulus) # 0
    BY <1>1, <2>1
  <2> QED
    BY <2>1, <2>3, <2>4, <2>5, <2>6 DEF Abs
<1> QED
  BY <1>2, <1>3

(* Dividing magnitudes and setting the sign truncates, as C does.          *)
LEMMA QuotientIsSigned ==
  ASSUME NEW x \in Words, NEW y \in Words, y # 0
  PROVE  Negated(QuotientNegative(x, y), Magnitude(x) \div Magnitude(y))
           = Word(Truncated(Signed(x), Signed(y)))
<1> DEFINE A == Magnitude(x)
           B == Magnitude(y)
           s == Sign(Signed(x))
           t == Sign(Signed(y))
<1>1. /\ A \in Words /\ B \in Words /\ B # 0
      /\ s \in {-1, 1} /\ t \in {-1, 1}
      /\ (Signed(x) < 0) <=> s = -1
      /\ (Signed(y) < 0) <=> t = -1
      /\ Abs(Signed(x)) = A /\ Abs(Signed(y)) = B
  BY SignAndMagnitude
<1> HIDE DEF A, B, s, t
<1>2. A \in Nat /\ B \in Nat \ {0} /\ A < Modulus /\ Modulus \in Nat
  BY <1>1, WordsAreNumbers
<1>3. PICK q \in Int, r \in 0 .. B - 1 : A \div B = q /\ A % B = r /\ A = q * B + r
  BY <1>2, Divided
<1>4. q \in Nat /\ q <= A
  <2>1. CASE q < 0
    <3>1. (q + 1) * B <= 0 * B
      BY <1>2, <2>1, Products
    <3>2. (q + 1) * B = q * B + B /\ 0 * B = 0 /\ q * B \in Int
      BY <1>2
    <3> QED
      BY <1>2, <1>3, <3>1, <3>2
  <2>2. CASE q >= 0
    <3>1. 1 * q <= B * q
      BY <1>2, <2>2, Products
    <3>2. 1 * q = q /\ B * q = q * B /\ q * B \in Int
      BY <1>2
    <3> QED
      BY <1>2, <1>3, <2>2, <3>1, <3>2
  <2> QED
    BY <2>1, <2>2
<1>5. Word(q) = q
  BY <1>2, <1>4, WordIsSame
<1>6. Truncated(Signed(x), Signed(y)) = s * t * q
  BY <1>1, <1>3, Zenon DEF Truncated, s, t
<1>7. QuotientNegative(x, y) <=> s # t
  BY <1>1 DEF QuotientNegative
<1>8. CASE s = t
  <2>1. s * t * q = q
    BY <1>1, <1>4, <1>8
  <2> QED
    BY <1>3, <1>5, <1>6, <1>7, <1>8, <2>1 DEF Negated, A, B
<1>9. CASE s # t
  <2>1. s * t * q = -q
    BY <1>1, <1>4, <1>9
  <2> QED
    BY <1>3, <1>6, <1>7, <1>9, <2>1 DEF Negated, A, B
<1> QED
  BY <1>8, <1>9

LEMMA RemainderIsSigned ==
  ASSUME NEW x \in Words, NEW y \in Words, y # 0
  PROVE  Negated(RemainderNegative(x, y), Magnitude(x) % Magnitude(y))
           = Word(Signed(x) - Signed(y) * Truncated(Signed(x), Signed(y)))
<1> DEFINE A == Magnitude(x)
           B == Magnitude(y)
           s == Sign(Signed(x))
           t == Sign(Signed(y))
<1>1. /\ A \in Words /\ B \in Words /\ B # 0
      /\ s \in {-1, 1} /\ t \in {-1, 1}
      /\ (Signed(x) < 0) <=> s = -1
      /\ Signed(x) = s * A /\ Signed(y) = t * B
      /\ Abs(Signed(x)) = A /\ Abs(Signed(y)) = B
  BY SignAndMagnitude
<1> HIDE DEF A, B, s, t
<1>2. A \in Nat /\ B \in Nat \ {0} /\ A < Modulus /\ B < Modulus /\ Modulus \in Nat
  BY <1>1, WordsAreNumbers
<1>3. PICK q \in Int, r \in 0 .. B - 1 : A \div B = q /\ A % B = r /\ A = q * B + r
  BY <1>2, Divided
<1>4. Word(r) = r
  BY <1>2, WordIsSame
<1>5. Truncated(Signed(x), Signed(y)) = s * t * q
  BY <1>1, <1>3, Zenon DEF Truncated, s, t
<1>6. Signed(x) - Signed(y) * Truncated(Signed(x), Signed(y)) = s * r
  <2>1. s * A - (t * B) * (s * t * q) = s * r
    <3>1. t * t = 1
      BY <1>1
    <3>2. (t * B) * (s * t * q) = (t * t) * (s * (q * B))
      BY <1>1, <1>2
    <3>3. q * B \in Int /\ s * A = s * (q * B) + s * r
      BY <1>1, <1>2, <1>3
    <3> DEFINE g == s * (q * B)
    <3>4. g \in Int /\ s * r \in Int /\ (t * t) * g = g
      BY <1>1, <3>1, <3>3
    <3> HIDE DEF g
    <3>5. s * A = g + s * r /\ (t * B) * (s * t * q) = g
      BY <3>2, <3>3, <3>4 DEF g
    <3> QED
      BY <3>4, <3>5
  <2> QED
    BY <1>1, <1>5, <2>1
<1>7. RemainderNegative(x, y) <=> s = -1
  BY <1>1 DEF RemainderNegative
<1>8. CASE s = 1
  <2>1. s * r = r
    BY <1>8
  <2> QED
    BY <1>3, <1>4, <1>6, <1>7, <1>8, <2>1 DEF Negated, A, B
<1>9. CASE s = -1
  <2>1. s * r = -r
    BY <1>9
  <2> QED
    BY <1>3, <1>6, <1>7, <1>9, <2>1 DEF Negated, A, B
<1> QED
  BY <1>1, <1>8, <1>9

-----------------------------------------------------------------------------
(* What is true of a frame, of one that has called another, and of the one *)
(* on top when it has been answered.                                       *)

Concerned == Routines \cup {"fact", "matmul"}

DividesSoundly(f, x, y) ==
  /\ y # 0 /\ HasVariables(f.v)
  /\ f.pc = "double" => Grows(f.v, x, y)
  /\ f.fn = "__udivsi3" => /\ "quotient" \in DOMAIN f.v
                           /\ f.pc = "double" => f.v.quotient = 0
                           /\ f.pc = "halve" => Shrinks(f.v, x, y, f.v.quotient)
  /\ f.fn = "__umodsi3" /\ f.pc = "halve" => \E q : Shrinks(f.v, x, y, q)

InMatrix(v, size) ==
  /\ DOMAIN v = {"i", "j", "k", "sum"}
  /\ v.i \in 0 .. size - 1 /\ v.j \in 0 .. size - 1 /\ v.k \in 0 .. size

Sound(f, q) ==
  /\ f.fn \in Routines => f.args[1] \in Words /\ f.args[2] \in Words
  /\ f.fn = "__mulsi3" /\ f.pc = "add" => Multiplies(f.v, f.args[1], f.args[2])
  /\ f.fn \in {"__udivsi3", "__umodsi3"} /\ f.pc \in {"double", "halve"} =>
       DividesSoundly(f, f.args[1], f.args[2])
  /\ f.fn \in {"__divsi3", "__modsi3"} /\ f.pc = "sign" => f.args[2] # 0
  /\ f.fn = "fact" => f.args[1] \in Words
  /\ f.fn = "matmul" => q.program = "matmul"
  /\ f.fn = "matmul" /\ f.pc \in {"k", "sum"} => InMatrix(f.v, q.n)
  /\ f.fn = "matmul" /\ f.pc = "sum" => f.v.k < q.n

Magnitudes(f) == <<Magnitude(f.args[1]), Magnitude(f.args[2])>>

Awaits(f, g) ==
  /\ f.fn = "fact" => g.fn \in {"fact", "__mulsi3"}
  /\ f.fn = "__divsi3" => f.pc = "sign" /\ g.fn = "__udivsi3" /\ g.args = Magnitudes(f)
  /\ f.fn = "__modsi3" => f.pc = "sign" /\ g.fn = "__umodsi3" /\ g.args = Magnitudes(f)

Answered(f, x) ==
  /\ f.fn = "fact" /\ f.pc # "entry" => x \in Words
  /\ f.fn = "__divsi3" /\ f.pc = "sign" => x = Magnitude(f.args[1]) \div Magnitude(f.args[2])
  /\ f.fn = "__modsi3" /\ f.pc = "sign" => x = Magnitude(f.args[1]) % Magnitude(f.args[2])

Gives(f, x) ==
  /\ f.fn \in Routines => x = Meaning(f.fn, f.args[1], f.args[2])
  /\ f.fn = "fact" => x \in Words

(* The frames are sound, each awaits the one above, and a0 is what the top *)
(* one has been waiting for.                                               *)
OperatorInv ==
  /\ job \in Jobs /\ StackIsList
  /\ \A p \in 1 .. Len(stack) : Sound(stack[p], job)
  /\ \A p \in Below(stack) : Awaits(stack[p], stack[p + 1])
  /\ stack # <<>> => Answered(frame, a0)

LEMMA ProductIsWord ==
  ASSUME NEW x \in Words, NEW y \in Words
  PROVE  Word(x * y) \in Words
<1>1. x * y \in Int
  BY WordsAreNumbers
<1> QED
  BY <1>1, WordType

LEMMA GivenIsAnswered ==
  ASSUME NEW f, NEW g, NEW x, NEW q, Sound(f, q), Sound(g, q), Awaits(f, g), Gives(g, x)
  PROVE  Answered(f, x)
<1>1. CASE f.fn = "fact"
  <2>1. CASE g.fn = "fact"
    BY <1>1, <2>1 DEF Gives, Answered
  <2>2. CASE g.fn = "__mulsi3"
    <3>1. g.args[1] \in Words /\ g.args[2] \in Words /\ x = Meaning(g.fn, g.args[1], g.args[2])
      BY <2>2 DEF Sound, Gives, Routines
    <3>2. x = Word(g.args[1] * g.args[2])
      BY <2>2, <3>1 DEF Meaning
    <3>3. x \in Words
      BY <3>1, <3>2, ProductIsWord
    <3> QED
      BY <1>1, <3>3 DEF Answered
  <2> QED
    BY <1>1, <2>1, <2>2 DEF Awaits
<1>2. CASE f.fn \in {"__divsi3", "__modsi3"}
  <2>1. f.pc = "sign" /\ f.args[1] \in Words /\ f.args[2] \in Words /\ f.args[2] # 0
    BY <1>2 DEF Sound, Awaits, Routines
  <2>2. Magnitude(f.args[2]) # 0
    BY <2>1, SignAndMagnitude
  <2>3. g.args[1] = Magnitude(f.args[1]) /\ g.args[2] = Magnitude(f.args[2])
    BY <1>2 DEF Awaits, Magnitudes
  <2>4. CASE f.fn = "__divsi3"
    <3>1. g.fn = "__udivsi3" /\ x = Meaning(g.fn, g.args[1], g.args[2])
      BY <2>4 DEF Awaits, Gives, Routines
    <3> QED
      BY <2>2, <2>3, <2>4, <3>1 DEF Meaning, Answered
  <2>5. CASE f.fn = "__modsi3"
    <3>1. g.fn = "__umodsi3" /\ x = Meaning(g.fn, g.args[1], g.args[2])
      BY <2>5 DEF Awaits, Gives, Routines
    <3> QED
      BY <2>2, <2>3, <2>5, <3>1 DEF Meaning, Answered
  <2> QED
    BY <1>2, <2>4, <2>5
<1> QED
  BY <1>1, <1>2 DEF Answered

(* What a step may do to the frames. *)
Proceeds ==
  \/ \E pc, v : Goto(pc, v) /\ Sound(Going(pc, v), job) /\ Answered(Going(pc, v), a0)
  \/ \E pc, v, fn, args :
       /\ Call(pc, v, fn, args)
       /\ Sound(Going(pc, v), job) /\ Sound(Called(fn, args), job)
       /\ Awaits(Going(pc, v), Called(fn, args))
  \/ \E x : Return(x) /\ Gives(frame, x)

Computes ==
  frame.fn \in Routines /\ Len(stack') < Len(stack)
    => a0' = Meaning(frame.fn, frame.args[1], frame.args[2])

LEMMA GotoProceeds ==
  ASSUME OperatorInv, stack # <<>>, job' = job, NEW pc, NEW v, Goto(pc, v),
         Sound(Going(pc, v), job), Answered(Going(pc, v), a0)
  PROVE  OperatorInv' /\ Computes
<1> DEFINE f == Going(pc, v)
<1>1. StackIsList /\ Len(stack) \in Nat /\ Len(stack) > 0
  BY StackFacts DEF OperatorInv
<1>2. /\ StackIsList' /\ stack' # <<>> /\ Len(stack') = Len(stack)
      /\ \A p \in Below(stack) : stack'[p] = stack[p]
      /\ frame' = f
  BY <1>1, GotoSteps DEF Going
<1> HIDE DEF f
<1>3. Below(stack') = Below(stack) /\ frame' = stack'[Len(stack)]
  BY <1>2 DEF Below, frame, Last
<1>4. /\ \A p \in 1 .. Len(stack) : p \in Below(stack) \/ p = Len(stack)
      /\ \A p \in Below(stack) : p \in 1 .. Len(stack) /\ (p + 1 \in Below(stack) \/ p + 1 = Len(stack))
  BY <1>1 DEF Below
<1>5. a0' = a0 /\ Sound(f, job) /\ Answered(f, a0)
  BY DEF Goto, f
<1>6. frame = stack[Len(stack)]
  BY <1>1, StackFacts
<1>7. f.fn = frame.fn /\ f.args = frame.args
  BY DEF f, Going
<1>8. \A p \in 1 .. Len(stack') : Sound(stack'[p], job')
  BY <1>2, <1>3, <1>4, <1>5 DEF OperatorInv
<1>9. \A p \in Below(stack) : Awaits(stack[p], f) <=> Awaits(stack[p], frame)
  BY <1>7 DEF Awaits
<1>10. \A p \in Below(stack') : Awaits(stack'[p], stack'[p + 1])
  <2> SUFFICES ASSUME NEW p \in Below(stack)
               PROVE  Awaits(stack'[p], stack'[p + 1])
    BY <1>3
  <2>1. stack'[p] = stack[p] /\ Awaits(stack[p], stack[p + 1])
    BY <1>2 DEF OperatorInv
  <2>2. CASE p + 1 \in Below(stack)
    BY <1>2, <2>1, <2>2
  <2>3. CASE p + 1 = Len(stack)
    BY <1>2, <1>3, <1>6, <1>9, <2>1, <2>3
  <2> QED
    BY <1>4, <2>2, <2>3
<1> QED
  BY <1>1, <1>2, <1>5, <1>8, <1>10 DEF OperatorInv, Computes

LEMMA CallProceeds ==
  ASSUME OperatorInv, stack # <<>>, job' = job, NEW pc, NEW v, NEW fn, NEW args, Call(pc, v, fn, args),
         Sound(Going(pc, v), job), Sound(Called(fn, args), job), Awaits(Going(pc, v), Called(fn, args))
  PROVE  OperatorInv' /\ Computes
<1> DEFINE f == Going(pc, v)
           g == Called(fn, args)
<1>1. StackIsList /\ Len(stack) \in Nat /\ Len(stack) > 0
  BY StackFacts DEF OperatorInv
<1>2. /\ StackIsList' /\ stack' # <<>> /\ Len(stack') = Len(stack) + 1
      /\ \A p \in Below(stack) : stack'[p] = stack[p]
      /\ stack'[Len(stack)] = f
      /\ frame' = g
  BY <1>1, CallSteps DEF Going
<1>3. frame' = stack'[Len(stack) + 1]
  BY <1>2 DEF frame, Last
<1>4. Sound(f, job) /\ Sound(g, job) /\ Awaits(f, g) /\ Answered(g, a0')
  BY DEF Answered, Called
<1>5. f.fn = frame.fn /\ f.args = frame.args
  BY DEF f, Going
<1> HIDE DEF f, g
<1>6. /\ \A p \in 1 .. Len(stack') : p \in Below(stack) \/ p = Len(stack) \/ p = Len(stack) + 1
      /\ \A p \in Below(stack') : p \in Below(stack) \/ p = Len(stack)
      /\ \A p \in Below(stack) : p \in 1 .. Len(stack) /\ (p + 1 \in Below(stack) \/ p + 1 = Len(stack))
  BY <1>1, <1>2 DEF Below
<1>7. frame = stack[Len(stack)]
  BY <1>1, StackFacts
<1>8. \A p \in 1 .. Len(stack') : Sound(stack'[p], job')
  BY <1>2, <1>3, <1>4, <1>6 DEF OperatorInv
<1>9. \A p \in Below(stack) : Awaits(stack[p], f) <=> Awaits(stack[p], frame)
  BY <1>5 DEF Awaits
<1>10. \A p \in Below(stack') : Awaits(stack'[p], stack'[p + 1])
  <2> SUFFICES ASSUME NEW p \in Below(stack')
               PROVE  Awaits(stack'[p], stack'[p + 1])
    OBVIOUS
  <2>1. CASE p = Len(stack)
    BY <1>2, <1>3, <1>4, <2>1
  <2>2. CASE p \in Below(stack)
    <3>1. stack'[p] = stack[p] /\ Awaits(stack[p], stack[p + 1])
      BY <1>2, <2>2 DEF OperatorInv
    <3>2. CASE p + 1 \in Below(stack)
      BY <1>2, <3>1, <3>2
    <3>3. CASE p + 1 = Len(stack)
      BY <1>2, <1>7, <1>9, <2>2, <3>1, <3>3
    <3> QED
      BY <1>6, <2>2, <3>2, <3>3
  <2> QED
    BY <1>6, <2>1, <2>2
<1> QED
  BY <1>1, <1>2, <1>4, <1>8, <1>10 DEF OperatorInv, Computes

LEMMA ReturnProceeds ==
  ASSUME OperatorInv, stack # <<>>, job' = job, NEW x, Return(x), Gives(frame, x)
  PROVE  OperatorInv' /\ Computes
<1>1. StackIsList /\ Len(stack) \in Nat /\ Len(stack) > 0 /\ frame = stack[Len(stack)]
  BY StackFacts DEF OperatorInv
<1>2. /\ StackIsList' /\ Len(stack') = Len(stack) - 1
      /\ \A p \in Below(stack) : stack'[p] = stack[p]
      /\ stack' # <<>> => Len(stack) - 1 \in Below(stack) /\ frame' = stack[Len(stack) - 1]
  BY <1>1, ReturnSteps
<1>3. /\ \A p \in 1 .. Len(stack') : p \in Below(stack) /\ p \in 1 .. Len(stack)
      /\ \A p \in Below(stack') : p \in Below(stack) /\ p + 1 \in Below(stack)
      /\ Len(stack) - 1 + 1 = Len(stack)
      /\ \A p \in Below(stack) : p \in 1 .. Len(stack)
      /\ Len(stack) \in 1 .. Len(stack)
  BY <1>1, <1>2 DEF Below
<1>4. a0' = x
  BY DEF Return
<1>5. ASSUME stack' # <<>> PROVE Answered(frame', a0')
  <2> DEFINE f == stack[Len(stack) - 1]
  <2>1. Len(stack) - 1 \in Below(stack) /\ frame' = f
    BY <1>2, <1>5
  <2>2. Sound(f, job) /\ Sound(frame, job)
    BY <1>1, <1>3, <2>1 DEF OperatorInv
  <2>3. Awaits(f, frame)
    BY <1>1, <1>3, <2>1 DEF OperatorInv
  <2> HIDE DEF f
  <2>4. Answered(f, x)
    BY <2>2, <2>3, GivenIsAnswered
  <2> QED
    BY <1>4, <2>1, <2>4
<1>6. \A p \in 1 .. Len(stack') : Sound(stack'[p], job')
  BY <1>2, <1>3 DEF OperatorInv
<1>7. \A p \in Below(stack') : Awaits(stack'[p], stack'[p + 1])
  BY <1>2, <1>3 DEF OperatorInv
<1>8. Computes
  BY <1>4 DEF Computes, Gives
<1> QED
  BY <1>2, <1>5, <1>6, <1>7, <1>8 DEF OperatorInv

LEMMA ProceedsSoundly ==
  ASSUME OperatorInv, stack # <<>>, job' = job, Proceeds
  PROVE  OperatorInv' /\ Computes
BY GotoProceeds, CallProceeds, ReturnProceeds DEF Proceeds

LEMMA TopIsSound ==
  ASSUME OperatorInv, stack # <<>>
  PROVE  Sound(frame, job) /\ Answered(frame, a0)
<1>1. StackIsList /\ Len(stack) \in Nat /\ Len(stack) > 0 /\ frame = stack[Len(stack)]
  BY StackFacts DEF OperatorInv
<1> QED
  BY <1>1 DEF OperatorInv

LEMMA DivisionGoesOn ==
  ASSUME OperatorInv, stack # <<>>, frame.fn \in {"__udivsi3", "__umodsi3"},
         NEW pc \in {"double", "halve"}, NEW v, Goto(pc, v),
         DividesSoundly(Going(pc, v), frame.args[1], frame.args[2])
  PROVE  Proceeds
<1>1. Sound(frame, job)
  BY TopIsSound
<1>2. /\ Going(pc, v).fn = frame.fn /\ Going(pc, v).args = frame.args
      /\ Going(pc, v).pc = pc /\ Going(pc, v).v = v
  BY DEF Going
<1>3. Sound(Going(pc, v), job) /\ Answered(Going(pc, v), a0)
  BY <1>1, <1>2 DEF Sound, Answered
<1> QED
  BY <1>3 DEF Proceeds

LEMMA DividesStep ==
  ASSUME OperatorInv, NEW fn \in {"__udivsi3", "__umodsi3"}, NEW v, Divide(fn, v), HasVariables(v),
         v.dividend = frame.args[1], v.divisor = frame.args[2], v.bit = 1,
         fn = "__udivsi3" => "quotient" \in DOMAIN v /\ v.quotient = 0
  PROVE  Proceeds
<1>1. stack # <<>> /\ frame.fn = fn
  BY DEF Divide, At
<1>2. frame.args[1] \in Words /\ frame.args[2] \in Words
  BY <1>1, TopIsSound DEF Sound, Routines
<1>3. CASE frame.args[2] = 0
  <2>1. Return(0)
    BY <1>3 DEF Divide
  <2>2. Gives(frame, 0)
    BY <1>1, <1>3 DEF Gives, Meaning
  <2> QED
    BY <2>1, <2>2 DEF Proceeds
<1>4. CASE frame.args[2] # 0
  <2>1. Goto("double", v)
    BY <1>4 DEF Divide
  <2>2. Grows(v, frame.args[1], frame.args[2])
    BY <1>2, <1>4, GrowBegins
  <2>3. DividesSoundly(Going("double", v), frame.args[1], frame.args[2])
    BY <1>1, <1>4, <2>2 DEF DividesSoundly, Going
  <2> QED
    BY <1>1, <2>1, <2>3, DivisionGoesOn
<1> QED
  BY <1>3, <1>4

LEMMA DoubleStep ==
  ASSUME OperatorInv, NEW fn \in {"__udivsi3", "__umodsi3"}, Double(fn)
  PROVE  Proceeds
<1> DEFINE v == frame.v
           x == frame.args[1]
           y == frame.args[2]
<1>1. stack # <<>> /\ frame.fn = fn /\ frame.pc = "double"
  BY DEF Double, At
<1>2. x \in Words /\ y \in Words /\ DividesSoundly(frame, x, y)
  BY <1>1, TopIsSound DEF Sound, Routines
<1>3. y # 0 /\ HasVariables(v) /\ Grows(v, x, y)
  BY <1>1, <1>2 DEF DividesSoundly
<1> HIDE DEF v, x, y
<1>4. CASE Doubles(v)
  <2>1. Goto("double", Doubled(v))
    BY <1>4 DEF Double, v
  <2>2. Grows(Doubled(v), x, y) /\ HasVariables(Doubled(v))
    BY <1>2, <1>3, <1>4, DoubledGrows
  <2>3. "quotient" \in DOMAIN v => "quotient" \in DOMAIN Doubled(v) /\ Doubled(v).quotient = v.quotient
    BY DEF Doubled
  <2>4. fn = "__udivsi3" => "quotient" \in DOMAIN v /\ v.quotient = 0
    BY <1>1, <1>2 DEF DividesSoundly, v
  <2>5. DividesSoundly(Going("double", Doubled(v)), x, y)
    BY <1>1, <1>3, <2>2, <2>3, <2>4 DEF DividesSoundly, Going
  <2> QED
    BY <1>1, <2>1, <2>5, DivisionGoesOn DEF x, y
<1>5. CASE ~Doubles(v)
  <2>1. Goto("halve", v)
    BY <1>5 DEF Double, v
  <2>2. Shrinks(v, x, y, 0)
    BY <1>2, <1>3, <1>5, ShrinkBegins
  <2>3. fn = "__udivsi3" => "quotient" \in DOMAIN v /\ v.quotient = 0
    BY <1>1, <1>2 DEF DividesSoundly, v
  <2>4. DividesSoundly(Going("halve", v), x, y)
    BY <1>1, <1>3, <2>2, <2>3 DEF DividesSoundly, Going
  <2> QED
    BY <1>1, <2>1, <2>4, DivisionGoesOn DEF x, y
<1> QED
  BY <1>4, <1>5

LEMMA QuotientHalveStep ==
  ASSUME OperatorInv, At("__udivsi3", "halve"),
         IF frame.v.bit = 0 THEN Return(frame.v.quotient) ELSE Goto("halve", Halved(Subtracted(frame.v)))
  PROVE  Proceeds
<1> DEFINE v == frame.v
           x == frame.args[1]
           y == frame.args[2]
           q == v.quotient
<1>1. stack # <<>> /\ frame.fn = "__udivsi3" /\ frame.pc = "halve"
  BY DEF At
<1>2. x \in Words /\ y \in Words /\ DividesSoundly(frame, x, y)
  BY <1>1, TopIsSound DEF Sound, Routines
<1>3. y # 0 /\ HasVariables(v) /\ "quotient" \in DOMAIN v /\ Shrinks(v, x, y, q)
  BY <1>1, <1>2 DEF DividesSoundly
<1>4. CASE v.bit = 0
  <2>1. q = x \div y
    <3> HIDE DEF v, x, y, q
    <3> QED
      BY <1>2, <1>3, <1>4, ShrinkEnds
  <2>2. Return(q)
    BY <1>4
  <2>3. Gives(frame, q)
    BY <1>1, <1>3, <2>1 DEF Gives, Meaning
  <2> QED
    BY <2>2, <2>3 DEF Proceeds
<1>5. CASE v.bit # 0
  <2> DEFINE w == Halved(Subtracted(v))
  <2>1. Goto("halve", w)
    BY <1>5
  <2>2. /\ DOMAIN w = DOMAIN v
        /\ w.bit = v.bit \div 2 /\ w.divisor = v.divisor \div 2
        /\ w.dividend = IF v.dividend >= v.divisor THEN v.dividend - v.divisor ELSE v.dividend
        /\ w.quotient = IF v.dividend >= v.divisor THEN q + v.bit ELSE q
    <3> HIDE DEF v
    <3> QED
      BY <1>3 DEF Halved, Subtracted, HasVariables
  <2> HIDE DEF w
  <2>3. Shrinks(w, x, y, w.quotient)
    <3> HIDE DEF v, x, y, q
    <3> QED
      BY <1>2, <1>3, <1>5, <2>2, HalvedShrinks
  <2>4. DividesSoundly(Going("halve", w), x, y)
    BY <1>1, <1>3, <2>2, <2>3 DEF DividesSoundly, Going, HasVariables
  <2> QED
    BY <1>1, <2>1, <2>4, DivisionGoesOn
<1> QED
  BY <1>4, <1>5

LEMMA RemainderHalveStep ==
  ASSUME OperatorInv, At("__umodsi3", "halve"),
         IF frame.v.bit = 0 THEN Return(frame.v.dividend) ELSE Goto("halve", Halved(Reduced(frame.v)))
  PROVE  Proceeds
<1> DEFINE v == frame.v
           x == frame.args[1]
           y == frame.args[2]
<1>1. stack # <<>> /\ frame.fn = "__umodsi3" /\ frame.pc = "halve"
  BY DEF At
<1>2. x \in Words /\ y \in Words /\ DividesSoundly(frame, x, y)
  BY <1>1, TopIsSound DEF Sound, Routines
<1>3. y # 0 /\ HasVariables(v) /\ \E q : Shrinks(v, x, y, q)
  BY <1>1, <1>2 DEF DividesSoundly
<1>4. PICK q : Shrinks(v, x, y, q)
  BY <1>3
<1>5. CASE v.bit = 0
  <2>1. v.dividend = x % y
    <3> HIDE DEF v, x, y
    <3> QED
      BY <1>2, <1>3, <1>4, <1>5, ShrinkEnds
  <2>2. Return(v.dividend)
    BY <1>5
  <2>3. Gives(frame, v.dividend)
    BY <1>1, <1>3, <2>1 DEF Gives, Meaning
  <2> QED
    BY <2>2, <2>3 DEF Proceeds
<1>6. CASE v.bit # 0
  <2> DEFINE w == Halved(Reduced(v))
  <2>1. Goto("halve", w)
    BY <1>6
  <2>2. /\ DOMAIN w = DOMAIN v
        /\ w.bit = v.bit \div 2 /\ w.divisor = v.divisor \div 2
        /\ w.dividend = IF v.dividend >= v.divisor THEN v.dividend - v.divisor ELSE v.dividend
    <3> HIDE DEF v
    <3> QED
      BY <1>3 DEF Halved, Reduced, HasVariables
  <2> HIDE DEF w
  <2>3. \E p : Shrinks(w, x, y, p)
    <3> HIDE DEF v, x, y
    <3>1. Shrinks(w, x, y, IF v.dividend >= v.divisor THEN q + v.bit ELSE q)
      BY <1>2, <1>3, <1>4, <1>6, <2>2, HalvedShrinks
    <3> QED
      BY <3>1
  <2>4. DividesSoundly(Going("halve", w), x, y)
    BY <1>1, <1>3, <2>2, <2>3 DEF DividesSoundly, Going, HasVariables
  <2> QED
    BY <1>1, <2>1, <2>4, DivisionGoesOn
<1> QED
  BY <1>5, <1>6

LEMMA QuotientStep ==
  ASSUME OperatorInv, udivsi3
  PROVE  Proceeds
<1> DEFINE v == [dividend |-> frame.args[1], divisor |-> frame.args[2], quotient |-> 0, bit |-> 1]
<1>1. CASE Divide("__udivsi3", v)
  <2>1. /\ HasVariables(v) /\ "quotient" \in DOMAIN v /\ v.quotient = 0 /\ v.bit = 1
        /\ v.dividend = frame.args[1] /\ v.divisor = frame.args[2]
    BY DEF HasVariables
  <2> HIDE DEF v
  <2> QED
    BY <1>1, <2>1, DividesStep
<1>2. CASE Double("__udivsi3")
  BY <1>2, DoubleStep
<1> QED
  BY <1>1, <1>2, QuotientHalveStep DEF udivsi3

LEMMA RemainderStep ==
  ASSUME OperatorInv, umodsi3
  PROVE  Proceeds
<1> DEFINE v == [dividend |-> frame.args[1], divisor |-> frame.args[2], bit |-> 1]
<1>1. CASE Divide("__umodsi3", v)
  <2>1. /\ HasVariables(v) /\ v.bit = 1
        /\ v.dividend = frame.args[1] /\ v.divisor = frame.args[2]
    BY DEF HasVariables
  <2> HIDE DEF v
  <2> QED
    BY <1>1, <2>1, DividesStep
<1>2. CASE Double("__umodsi3")
  BY <1>2, DoubleStep
<1> QED
  BY <1>1, <1>2, RemainderHalveStep DEF umodsi3

(* The signed routines ask the unsigned ones for the magnitudes. *)
LEMMA MagnitudesAreAsked ==
  ASSUME OperatorInv, stack # <<>>, frame.args[2] # 0,
         NEW fn, <<frame.fn, fn>> \in {<<"__divsi3", "__udivsi3">>, <<"__modsi3", "__umodsi3">>},
         Call("sign", <<>>, fn, <<Magnitude(frame.args[1]), Magnitude(frame.args[2])>>)
  PROVE  Proceeds
<1> DEFINE f == Going("sign", <<>>)
           asked == <<Magnitude(frame.args[1]), Magnitude(frame.args[2])>>
           g == Called(fn, asked)
<1>1. Sound(frame, job)
  BY TopIsSound
<1>2. frame.args[1] \in Words /\ frame.args[2] \in Words
  BY <1>1 DEF Sound, Routines
<1>3. Magnitude(frame.args[1]) \in Words /\ Magnitude(frame.args[2]) \in Words
  BY <1>2, SignAndMagnitude
<1>4. f.fn = frame.fn /\ f.args = frame.args /\ f.pc = "sign"
  BY DEF Going
<1>5. g.fn = fn /\ g.args = asked /\ g.pc = "entry"
  BY DEF Called
<1>6. asked[1] \in Words /\ asked[2] \in Words
  BY <1>3
<1>7. asked = Magnitudes(f)
  BY <1>4 DEF Magnitudes
<1>8. Call("sign", <<>>, fn, asked)
  OBVIOUS
<1> HIDE DEF f, g, asked
<1>9. Sound(f, job)
  BY <1>1, <1>2, <1>4 DEF Sound
<1>10. Sound(g, job)
  BY <1>5, <1>6 DEF Sound
<1>11. Awaits(f, g)
  BY <1>4, <1>5, <1>7 DEF Awaits
<1> QED
  BY <1>8, <1>9, <1>10, <1>11 DEF Proceeds, f, g

LEMMA SignedQuotientStep ==
  ASSUME OperatorInv, divsi3
  PROVE  Proceeds
<1>1. stack # <<>> /\ frame.fn = "__divsi3"
  BY DEF divsi3, At
<1>2. Sound(frame, job) /\ Answered(frame, a0)
  BY <1>1, TopIsSound
<1>3. CASE frame.pc = "entry" /\ frame.args[2] = 0
  <2>1. Return(0)
    BY <1>3 DEF divsi3, At
  <2>2. Gives(frame, 0)
    BY <1>1, <1>3 DEF Gives, Meaning
  <2> QED
    BY <2>1, <2>2 DEF Proceeds
<1>4. CASE frame.pc = "entry" /\ frame.args[2] # 0
  <2>1. Call("sign", <<>>, "__udivsi3", <<Magnitude(frame.args[1]), Magnitude(frame.args[2])>>)
    BY <1>4 DEF divsi3, At
  <2> QED
    BY <1>1, <1>4, <2>1, MagnitudesAreAsked
<1>5. CASE frame.pc = "sign"
  <2> DEFINE x == Negated(QuotientNegative(frame.args[1], frame.args[2]), a0)
  <2>1. Return(x)
    BY <1>5 DEF divsi3, At
  <2>2. /\ frame.args[1] \in Words /\ frame.args[2] \in Words /\ frame.args[2] # 0
        /\ a0 = Magnitude(frame.args[1]) \div Magnitude(frame.args[2])
    BY <1>1, <1>2, <1>5 DEF Sound, Answered, Routines
  <2>3. x = Word(Truncated(Signed(frame.args[1]), Signed(frame.args[2])))
    BY <2>2, QuotientIsSigned
  <2> HIDE DEF x
  <2>4. Gives(frame, x)
    BY <1>1, <2>2, <2>3 DEF Gives, Meaning
  <2> QED
    BY <2>1, <2>4 DEF Proceeds
<1> QED
  BY <1>3, <1>4, <1>5 DEF divsi3, At

LEMMA SignedRemainderStep ==
  ASSUME OperatorInv, modsi3
  PROVE  Proceeds
<1>1. stack # <<>> /\ frame.fn = "__modsi3"
  BY DEF modsi3, At
<1>2. Sound(frame, job) /\ Answered(frame, a0)
  BY <1>1, TopIsSound
<1>3. CASE frame.pc = "entry" /\ frame.args[2] = 0
  <2>1. Return(frame.args[1])
    BY <1>3 DEF modsi3, At
  <2>2. Gives(frame, frame.args[1])
    BY <1>1, <1>3 DEF Gives, Meaning
  <2> QED
    BY <2>1, <2>2 DEF Proceeds
<1>4. CASE frame.pc = "entry" /\ frame.args[2] # 0
  <2>1. Call("sign", <<>>, "__umodsi3", <<Magnitude(frame.args[1]), Magnitude(frame.args[2])>>)
    BY <1>4 DEF modsi3, At
  <2> QED
    BY <1>1, <1>4, <2>1, MagnitudesAreAsked
<1>5. CASE frame.pc = "sign"
  <2> DEFINE x == Negated(RemainderNegative(frame.args[1], frame.args[2]), a0)
  <2>1. Return(x)
    BY <1>5 DEF modsi3, At
  <2>2. /\ frame.args[1] \in Words /\ frame.args[2] \in Words /\ frame.args[2] # 0
        /\ a0 = Magnitude(frame.args[1]) % Magnitude(frame.args[2])
    BY <1>1, <1>2, <1>5 DEF Sound, Answered, Routines
  <2>3. x = Word(Signed(frame.args[1])
                   - Signed(frame.args[2]) * Truncated(Signed(frame.args[1]), Signed(frame.args[2])))
    BY <2>2, RemainderIsSigned
  <2> HIDE DEF x
  <2>4. Gives(frame, x)
    BY <1>1, <2>2, <2>3 DEF Gives, Meaning
  <2> QED
    BY <2>1, <2>4 DEF Proceeds
<1> QED
  BY <1>3, <1>4, <1>5 DEF modsi3, At

LEMMA MultiplyStep ==
  ASSUME OperatorInv, mulsi3
  PROVE  Proceeds
<1> DEFINE x == frame.args[1]
           y == frame.args[2]
<1>1. stack # <<>> /\ frame.fn = "__mulsi3"
  BY DEF mulsi3, At
<1>2. Sound(frame, job) /\ x \in Words /\ y \in Words
  BY <1>1, TopIsSound DEF Sound, Routines
<1>3. ASSUME NEW z, Return(z), z = Word(x * y) PROVE Proceeds
  <2>1. Gives(frame, z)
    BY <1>1, <1>3 DEF Gives, Meaning
  <2> QED
    BY <1>3, <2>1 DEF Proceeds
<1>4. ASSUME NEW v, Goto("add", v), Multiplies(v, x, y) PROVE Proceeds
  <2> DEFINE f == Going("add", v)
  <2>1. f.fn = frame.fn /\ f.args = frame.args /\ f.pc = "add" /\ f.v = v
    BY DEF Going
  <2> HIDE DEF f
  <2>2. Sound(f, job) /\ Answered(f, a0)
    BY <1>1, <1>2, <1>4, <2>1 DEF Sound, Answered
  <2> QED
    BY <1>4, <2>2 DEF Proceeds, f
<1>5. CASE frame.pc = "entry" /\ Fast(x, y)
  <2> DEFINE z == Word(QSQ[Word(x + y)] - QSQ[Larger(x, y) - Smaller(x, y)])
  <2>1. Return(z)
    BY <1>5 DEF mulsi3, At
  <2>2. z = Word(x * y)
    BY <1>2, <1>5, FastMultiplies
  <2> HIDE DEF z
  <2> QED
    BY <1>3, <2>1, <2>2
<1>6. CASE frame.pc = "entry" /\ ~Fast(x, y)
  <2> DEFINE v == [a |-> Larger(x, y), b |-> Smaller(x, y), result |-> 0]
  <2>1. Goto("add", v)
    BY <1>6 DEF mulsi3, At
  <2>2. Multiplies(v, x, y)
    BY <1>2, AddBegins
  <2> HIDE DEF v
  <2> QED
    BY <1>4, <2>1, <2>2
<1>7. CASE frame.pc = "add"
  <2> DEFINE v == frame.v
  <2>1. Multiplies(v, x, y)
    BY <1>1, <1>2, <1>7 DEF Sound
  <2>2. IF v.b = 0 THEN Return(v.result) ELSE Goto("add", Added(v))
    BY <1>7 DEF mulsi3, At
  <2> HIDE DEF v
  <2>3. v.b = 0 => v.result = Word(x * y)
    BY <2>1, AddEnds
  <2>4. Multiplies(Added(v), x, y)
    BY <1>2, <2>1, AddedMultiplies
  <2> HIDE DEF x, y
  <2> QED
    BY <1>3, <1>4, <2>2, <2>3, <2>4
<1> QED
  BY <1>5, <1>6, <1>7 DEF mulsi3, At

LEMMA RoutineStep ==
  ASSUME OperatorInv, ArithmeticSteps
  PROVE  Proceeds
BY QuotientStep, RemainderStep, SignedQuotientStep, SignedRemainderStep, MultiplyStep DEF ArithmeticSteps

-----------------------------------------------------------------------------
LEMMA FactStep ==
  ASSUME OperatorInv, fact
  PROVE  Proceeds
<1>1. stack # <<>> /\ frame.fn = "fact"
  BY DEF fact, At
<1>2. Sound(frame, job) /\ Answered(frame, a0) /\ frame.args[1] \in Words
  BY <1>1, TopIsSound DEF Sound
<1>3. ASSUME NEW x \in Words, Return(x) PROVE Proceeds
  BY <1>1, <1>3 DEF Proceeds, Gives, Routines
<1>4. ASSUME NEW pc, NEW fn \in {"fact", "__mulsi3"}, NEW args, Call(pc, <<>>, fn, args),
             args[1] \in Words, fn = "__mulsi3" => args[2] \in Words
      PROVE  Proceeds
  <2> DEFINE f == Going(pc, <<>>)
             g == Called(fn, args)
  <2>1. f.fn = frame.fn /\ f.args = frame.args
    BY DEF Going
  <2>2. g.fn = fn /\ g.args = args /\ g.pc = "entry"
    BY DEF Called
  <2> HIDE DEF f, g
  <2>3. Sound(f, job)
    BY <1>1, <1>2, <2>1 DEF Sound, Routines
  <2>4. Sound(g, job)
    BY <1>4, <2>2 DEF Sound, Routines
  <2>5. Awaits(f, g)
    BY <1>1, <2>1, <2>2 DEF Awaits
  <2> QED
    BY <1>4, <2>3, <2>4, <2>5 DEF Proceeds, f, g
<1>5. CASE frame.pc = "entry" /\ frame.args[1] \in {0, 1}
  <2>1. Return(1)
    BY <1>5 DEF fact, At
  <2>2. 1 \in Words
    BY PowersAssumption DEF Words
  <2> QED
    BY <1>3, <2>1, <2>2
<1>6. CASE frame.pc = "entry" /\ frame.args[1] \notin {0, 1}
  <2> DEFINE args == <<frame.args[1] - 1>>
  <2>1. Call("multiply", <<>>, "fact", args)
    BY <1>6 DEF fact, At
  <2>2. args[1] \in Words
    BY <1>2, <1>6, WordsAreNumbers DEF Words
  <2> HIDE DEF args
  <2> QED
    BY <1>4, <2>1, <2>2
<1>7. CASE frame.pc = "multiply"
  <2> DEFINE args == <<frame.args[1], a0>>
  <2>1. Call("return", <<>>, "__mulsi3", args)
    BY <1>7 DEF fact, At
  <2>2. args[1] \in Words /\ args[2] \in Words
    BY <1>1, <1>2, <1>7 DEF Answered
  <2> HIDE DEF args
  <2> QED
    BY <1>4, <2>1, <2>2
<1>8. CASE frame.pc = "return"
  <2>1. Return(a0) /\ a0 \in Words
    BY <1>1, <1>2, <1>8 DEF fact, At, Answered
  <2> QED
    BY <1>3, <2>1
<1> QED
  BY <1>5, <1>6, <1>7, <1>8 DEF fact, At

(* The indices matmul() multiplies elements at lie in the matrices. *)
LEMMA MatrixData ==
  ASSUME OperatorInv, job.program = "matmul"
  PROVE  /\ n \in Nat \ {0}
         /\ \A p, q \in 0 .. n - 1 : job.A[<<p, q>>] \in Words /\ job.B[<<p, q>>] \in Words
<1>1. job \in Jobs
  BY DEF OperatorInv
<1> QED
  BY <1>1, OperandsAssumption DEF n, Words

LEMMA MatrixGoesOn ==
  ASSUME OperatorInv, stack # <<>>, frame.fn = "matmul", NEW v, Goto("k", v), InMatrix(v, n)
  PROVE  Proceeds
<1> DEFINE f == Going("k", v)
<1>1. Sound(frame, job)
  BY TopIsSound
<1>2. f.fn = frame.fn /\ f.pc = "k" /\ f.v = v
  BY DEF Going
<1> HIDE DEF f
<1>3. Sound(f, job) /\ Answered(f, a0)
  BY <1>1, <1>2 DEF Sound, Answered, Routines, n
<1> QED
  BY <1>3 DEF Proceeds, f

LEMMA MatrixLoopStep ==
  ASSUME OperatorInv, matmul_loops
  PROVE  Proceeds
<1> DEFINE v == frame.v
<1>1. stack # <<>> /\ frame.fn = "matmul" /\ frame.pc = "k"
  BY DEF matmul_loops, At
<1>2. Sound(frame, job) /\ job.program = "matmul" /\ InMatrix(v, n)
  BY <1>1, TopIsSound DEF Sound, n
<1>3. n \in Nat \ {0}
  BY <1>2, MatrixData
<1>4. /\ v.i \in 0 .. n - 1 /\ v.j \in 0 .. n - 1 /\ v.k \in 0 .. n
      /\ DOMAIN v = {"i", "j", "k", "sum"}
  BY <1>2 DEF InMatrix
<1>5. CASE v.k < n
  <2> DEFINE args == <<job.A[<<v.i, v.k>>], job.B[<<v.k, v.j>>]>>
             f == Going("sum", v)
             g == Called("__mulsi3", args)
  <2>1. Call("sum", v, "__mulsi3", args)
    BY <1>5 DEF matmul_loops
  <2>2. v.k \in 0 .. n - 1
    BY <1>3, <1>4, <1>5
  <2>3. args[1] \in Words /\ args[2] \in Words
    BY <1>2, <1>4, <2>2, MatrixData
  <2>4. f.fn = "matmul" /\ f.pc = "sum" /\ f.v = v
    BY <1>1 DEF Going
  <2>5. g.fn = "__mulsi3" /\ g.args = args /\ g.pc = "entry"
    BY DEF Called
  <2> HIDE DEF args, f, g
  <2>6. Sound(f, job)
    BY <1>2, <1>5, <2>4 DEF Sound, Routines, n
  <2>7. Sound(g, job)
    BY <2>3, <2>5 DEF Sound
  <2>8. Awaits(f, g)
    BY <2>4 DEF Awaits
  <2> QED
    BY <2>1, <2>6, <2>7, <2>8 DEF Proceeds, f, g
<1>6. CASE ~(v.k < n) /\ v.j < n - 1
  <2> DEFINE w == [v EXCEPT !.j = @ + 1, !.k = 0, !.sum = 0]
  <2>1. Goto("k", w)
    BY <1>6 DEF matmul_loops
  <2>2. InMatrix(w, n)
    <3> HIDE DEF v
    <3>1. w.i = v.i /\ w.j = v.j + 1 /\ w.k = 0 /\ DOMAIN w = DOMAIN v
      BY <1>4
    <3> HIDE DEF w
    <3> QED
      BY <1>3, <1>4, <1>6, <3>1 DEF InMatrix
  <2> HIDE DEF w
  <2> QED
    BY <1>1, <2>1, <2>2, MatrixGoesOn
<1>7. CASE ~(v.k < n) /\ ~(v.j < n - 1) /\ v.i < n - 1
  <2> DEFINE w == [i |-> v.i + 1, j |-> 0, k |-> 0, sum |-> 0]
  <2>1. Goto("k", w)
    BY <1>7 DEF matmul_loops
  <2>2. InMatrix(w, n)
    BY <1>3, <1>4, <1>7 DEF InMatrix
  <2> HIDE DEF w
  <2> QED
    BY <1>1, <2>1, <2>2, MatrixGoesOn
<1>8. CASE ~(v.k < n) /\ ~(v.j < n - 1) /\ ~(v.i < n - 1)
  <2>1. Return(a0)
    BY <1>8 DEF matmul_loops
  <2>2. Gives(frame, a0)
    BY <1>1 DEF Gives, Routines
  <2> QED
    BY <2>1, <2>2 DEF Proceeds
<1> QED
  BY <1>5, <1>6, <1>7, <1>8

LEMMA MatrixStep ==
  ASSUME OperatorInv, matmul
  PROVE  Proceeds
<1>1. stack # <<>> /\ frame.fn = "matmul"
  BY DEF matmul, matmul_loops, At
<1>2. Sound(frame, job) /\ job.program = "matmul"
  BY <1>1, TopIsSound DEF Sound
<1>3. n \in Nat \ {0}
  BY <1>2, MatrixData
<1>4. CASE frame.pc = "entry"
  <2> DEFINE w == [i |-> 0, j |-> 0, k |-> 0, sum |-> 0]
  <2>1. Goto("k", w)
    BY <1>4 DEF matmul, matmul_loops, At
  <2>2. InMatrix(w, n)
    BY <1>3 DEF InMatrix
  <2> HIDE DEF w
  <2> QED
    BY <1>1, <2>1, <2>2, MatrixGoesOn
<1>5. CASE frame.pc = "sum"
  <2> DEFINE v == frame.v
             w == [v EXCEPT !.sum = Word(@ + a0), !.k = @ + 1]
  <2>1. Goto("k", w)
    BY <1>5 DEF matmul, matmul_loops, At
  <2>2. InMatrix(v, n) /\ v.k < n
    BY <1>1, <1>2, <1>5 DEF Sound, n
  <2>3. InMatrix(w, n)
    <3> HIDE DEF v
    <3>1. w.i = v.i /\ w.j = v.j /\ w.k = v.k + 1 /\ DOMAIN w = DOMAIN v
      BY <2>2 DEF InMatrix
    <3> HIDE DEF w
    <3> QED
      BY <1>3, <2>2, <3>1 DEF InMatrix
  <2> HIDE DEF w
  <2> QED
    BY <1>1, <2>1, <2>3, MatrixGoesOn
<1> QED
  BY <1>4, <1>5, MatrixLoopStep DEF matmul, At

(* A step of a function that neither computes nor asks for a product or a  *)
(* quotient.                                                               *)
Plainly ==
  \/ \E pc, v : Goto(pc, v)
  \/ \E x : Return(x)
  \/ \E pc, v, fn, args : Call(pc, v, fn, args) /\ Sound(Called(fn, args), job)

LEMMA PlainStep ==
  ASSUME stack # <<>>, frame.fn \notin Concerned, Plainly
  PROVE  Proceeds
<1>1. \A pc, v : Going(pc, v).fn = frame.fn
  BY DEF Going
<1>2. /\ frame.fn \notin Routines /\ frame.fn \notin {"fact", "matmul"}
      /\ frame.fn \notin {"__divsi3", "__modsi3", "__mulsi3", "__udivsi3", "__umodsi3"}
  BY DEF Concerned, Routines
<1>3. \A pc, v : Sound(Going(pc, v), job) /\ Answered(Going(pc, v), a0)
  BY <1>1, <1>2 DEF Sound, Answered
<1>4. \A pc, v, g : Awaits(Going(pc, v), g)
  BY <1>1, <1>2 DEF Awaits
<1>5. \A x : Gives(frame, x)
  BY <1>2 DEF Gives
<1> QED
  BY <1>3, <1>4, <1>5 DEF Plainly, Proceeds

LEMMA OtherIsSound ==
  ASSUME NEW fn, NEW args, fn \notin Concerned
  PROVE  Sound(Called(fn, args), job)
BY DEF Sound, Called, Concerned, Routines

LEMMA SortsArePlain ==
  ASSUME quick_sort \/ radix_sort \/ malloc \/ memcpy \/ fib
  PROVE  stack # <<>> /\ frame.fn \notin Concerned /\ Plainly
<1>1. \A pc, v, args : /\ Call(pc, v, "quick_sort", args) => Plainly
                       /\ Call(pc, v, "fib", args) => Plainly
  <2>1. "quick_sort" \notin Concerned /\ "fib" \notin Concerned
    BY DEF Concerned, Routines
  <2> QED
    BY <2>1, OtherIsSound DEF Plainly
<1>2. \A pc, v, x : (Goto(pc, v) => Plainly) /\ (Return(x) => Plainly)
  BY DEF Plainly
<1>3. CASE quick_sort
  <2>1. stack # <<>> /\ frame.fn = "quick_sort"
    BY <1>3 DEF quick_sort, quick_sort_entry, ScanUp, ScanDown, Swap, Outer, SecondHalf, At
  <2>2. Plainly
    BY <1>1, <1>2, <1>3 DEF quick_sort, quick_sort_entry, ScanUp, ScanDown, Swap, Outer, SecondHalf
  <2> QED
    BY <2>1, <2>2 DEF Concerned, Routines
<1>4. CASE radix_sort
  <2>1. stack # <<>> /\ frame.fn = "radix_sort"
    BY <1>4 DEF radix_sort, radix_entry, Clear, Count, PrefixSums, Place, CopyBack, At
  <2>2. Plainly
    BY <1>2, <1>4 DEF radix_sort, radix_entry, Clear, Count, PrefixSums, Place, CopyBack
  <2> QED
    BY <2>1, <2>2 DEF Concerned, Routines
<1>5. CASE malloc
  <2>1. stack # <<>> /\ frame.fn = "malloc" /\ Plainly
    BY <1>2, <1>5 DEF malloc, At
  <2> QED
    BY <2>1 DEF Concerned, Routines
<1>6. CASE memcpy
  <2>1. stack # <<>> /\ frame.fn = "memcpy" /\ Plainly
    BY <1>2, <1>6 DEF memcpy, At
  <2> QED
    BY <2>1 DEF Concerned, Routines
<1>7. CASE fib
  <2>1. stack # <<>> /\ frame.fn = "fib" /\ Plainly
    BY <1>1, <1>2, <1>7 DEF fib, At
  <2> QED
    BY <2>1 DEF Concerned, Routines
<1> QED
  BY <1>3, <1>4, <1>5, <1>6, <1>7

(* main() hands a routine the operands the program was compiled with. *)
LEMMA ProgramIsCalled ==
  ASSUME OperatorInv
  PROVE  Sound(Called(job.program, Main.args), job)
<1>1. job \in Jobs
  BY DEF OperatorInv
<1>2. CASE job.program \in {"quick_sort", "radix_sort"}
  BY <1>2 DEF Sound, Called, Routines
<1>3. CASE job.program = "matmul"
  BY <1>3 DEF Sound, Called, Routines
<1>4. CASE job.program \notin {"quick_sort", "radix_sort", "matmul"}
  <2>1. Main.args = job.args
    BY <1>4 DEF Main, NumberMain
  <2> DEFINE g == Called(job.program, Main.args)
  <2>2. g.fn = job.program /\ g.args = job.args /\ g.pc = "entry"
    BY <2>1 DEF Called
  <2> HIDE DEF g
  <2>3. /\ job.program \in Routines => job.args[1] \in Words /\ job.args[2] \in Words
        /\ job.program = "fact" => job.args[1] \in Words
    BY <1>1, OperandsAssumption DEF Words
  <2>4. Sound(g, job)
    BY <1>4, <2>2, <2>3 DEF Sound
  <2> QED
    BY <2>4 DEF g
<1> QED
  BY <1>2, <1>3, <1>4

LEMMA MainIsPlain ==
  ASSUME OperatorInv, main \/ HeapUser
  PROVE  stack # <<>> /\ frame.fn \notin Concerned /\ Plainly
<1>1. stack # <<>> /\ frame.fn = "main"
  BY DEF main, HeapUser, At
<1>2. \A pc, v, args : /\ Call(pc, v, "malloc", args) => Plainly
                       /\ Call(pc, v, "memcpy", args) => Plainly
  <2>1. "malloc" \notin Concerned /\ "memcpy" \notin Concerned
    BY DEF Concerned, Routines
  <2> QED
    BY <2>1, OtherIsSound DEF Plainly
<1>3. \A pc, v, x : (Goto(pc, v) => Plainly) /\ (Return(x) => Plainly)
  BY DEF Plainly
<1>4. \A pc, v : Call(pc, v, job.program, Main.args) => Plainly
  BY ProgramIsCalled DEF Plainly
<1>5. ASSUME main PROVE Plainly
  BY <1>3, <1>4, <1>5 DEF main
<1>6. ASSUME HeapUser PROVE Plainly
  BY <1>2, <1>3, <1>6 DEF HeapUser
<1> QED
  BY <1>1, <1>5, <1>6 DEF Concerned, Routines

LEMMA StopStep ==
  ASSUME OperatorInv, job' = job, start
  PROVE  OperatorInv' /\ Computes
<1>1. stack # <<>> /\ frame.fn = "_start"
  BY DEF start, At
<1>2. CASE stack' = <<>> /\ a0' = a0
  <2>1. StackIsList'
    <3>1. <<>> \in Seq({})
      OBVIOUS
    <3> QED
      BY <1>2, <3>1 DEF StackIsList
  <2>2. Len(stack') = 0
    BY <1>2
  <2> QED
    BY <1>1, <1>2, <2>1, <2>2 DEF OperatorInv, Computes, Below, Routines
<1>3. CASE Call("stop", <<>>, "main", <<>>)
  <2>1. "main" \notin Concerned /\ frame.fn \notin Concerned
    BY <1>1 DEF Concerned, Routines
  <2>2. Plainly
    BY <1>3, <2>1, OtherIsSound DEF Plainly
  <2> QED
    BY <1>1, <2>1, <2>2, PlainStep, ProceedsSoundly
<1> QED
  BY <1>2, <1>3 DEF start

LEMMA OperatorInit == Init => OperatorInv
<1> SUFFICES ASSUME Init PROVE OperatorInv
  OBVIOUS
<1> DEFINE f == Called("_start", <<>>)
<1>1. stack = <<f>> /\ job \in Jobs
  BY DEF Init
<1>2. f.fn = "_start"
  BY DEF Called
<1> HIDE DEF f
<1>3. stack \in Seq({f}) /\ Len(stack) = 1 /\ stack[1] = f /\ frame = f
  BY <1>1 DEF frame, Last
<1>4. Sound(f, job) /\ Answered(f, a0)
  BY <1>2 DEF Sound, Answered, Routines
<1>5. StackIsList /\ Below(stack) = {} /\ \A p \in 1 .. Len(stack) : p = 1
  BY <1>3 DEF StackIsList, Below
<1>6. \A p \in 1 .. Len(stack) : Sound(stack[p], job)
  BY <1>3, <1>4, <1>5
<1> QED
  BY <1>1, <1>3, <1>4, <1>5, <1>6 DEF OperatorInv

LEMMA OperatorStep ==
  ASSUME OperatorInv, [Next]_vars
  PROVE  OperatorInv' /\ (stack # <<>> => Computes)
<1>1. CASE UNCHANGED vars
  <2>1. OperatorInv'
    BY <1>1 DEF OperatorInv, StackIsList, Below, frame, Last, vars, memory
  <2>2. StackIsList /\ stack' = stack
    BY <1>1 DEF OperatorInv, vars
  <2>3. ~(Len(stack') < Len(stack))
    BY <2>2, StackFacts
  <2> QED
    BY <2>1, <2>3 DEF Computes
<1>2. CASE Next
  <2>1. job' = job
    BY <1>2 DEF Next, memory
  <2>2. CASE start
    BY <2>1, <2>2, StopStep
  <2>3. ASSUME stack # <<>> /\ frame.fn \notin Concerned /\ Plainly
        PROVE OperatorInv' /\ Computes
    BY <2>1, <2>3, PlainStep, ProceedsSoundly
  <2>4. CASE main \/ HeapUser
    BY <2>3, <2>4, MainIsPlain
  <2>5. CASE quick_sort \/ radix_sort \/ malloc \/ memcpy \/ fib
    BY <2>3, <2>5, SortsArePlain
  <2>6. CASE ArithmeticSteps \/ fact \/ matmul
    <3>1. Proceeds
      BY <2>6, RoutineStep, FactStep, MatrixStep
    <3>2. stack # <<>>
      <4>1. fact => stack # <<>>
        BY DEF fact, At
      <4>2. matmul => stack # <<>>
        BY DEF matmul, matmul_loops, At
      <4>3. ArithmeticSteps => stack # <<>>
        BY DEF ArithmeticSteps, udivsi3, umodsi3, divsi3, modsi3, mulsi3, Divide, Double, At
      <4> QED
        BY <2>6, <4>1, <4>2, <4>3
    <3> QED
      BY <2>1, <3>1, <3>2, ProceedsSoundly
  <2> QED
    BY <1>2, <2>2, <2>4, <2>5, <2>6 DEF Next
<1> QED
  BY <1>1, <1>2

(* The routines mean C's operators, for every width of the registers with  *)
(* the table that fits, and every two operands: the quarter squares and    *)
(* the long multiplication agree, no doubling of the divisor loses a bit,  *)
(* and the least integer divides as well (essentials/stdlib).              *)
THEOREM OperatorsAreAlwaysC == Spec => OperatorsAreC
<1>1. Init => OperatorInv
  BY OperatorInit
<1>2. OperatorInv /\ [Next]_vars => OperatorInv'
  BY OperatorStep
<1>3. OperatorInv /\ [Next]_vars
        => [stack # <<>> /\ frame.fn \in Routines /\ Len(stack') < Len(stack)
             => a0' = Meaning(frame.fn, frame.args[1], frame.args[2])]_<<stack, a0>>
  BY OperatorStep DEF Computes
<1> QED
  BY <1>1, <1>2, <1>3, PTL DEF Spec, OperatorsAreC
=============================================================================
