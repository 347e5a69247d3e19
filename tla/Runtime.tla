------------------------------ MODULE Runtime -------------------------------
(***************************************************************************)
(* The C programs the simulator comes with (programs/c), the start-up code *)
(* and the library they are linked with (essentials).  A program is a      *)
(* stack of frames over the memory it declares; an action is a statement   *)
(* or one iteration of a loop, and every call and return is a step.        *)
(***************************************************************************)
EXTENDS Arithmetic

CONSTANTS
  Jobs,        \* the programs with their data
  DigitBits,   \* the bits radix_sort() sorts by in a pass
  Passes,
  HeapStart, HeapEnd   \* the symbols of linker.ld

ASSUME RuntimeAssumption ==
  /\ DigitBits \in Nat \ {0} /\ Passes \in Nat \ {0} /\ Passes * DigitBits = WordBits
  /\ HeapStart \in Nat \ {0} /\ HeapStart % 4 = 0
  /\ HeapEnd \in Nat /\ HeapStart <= HeapEnd /\ HeapEnd < Modulus

(* Arrays start at 0; an array to be sorted by quick_sort() is not empty.  *)
ASSUME JobsAssumption ==
  \A q \in Jobs : \E length \in {Cardinality(DOMAIN q.arr)} :
    /\ length \in Nat /\ q.arr \in [0 .. length - 1 -> Nat]
    /\ q.program = "quick_sort" => length > 0

(* The operands of the routines, the argument of fact() and the elements   *)
(* of the matrices are words.                                              *)
ASSUME OperandsAssumption ==
  \A q \in Jobs :
    /\ q.program \in Routines => {q.args[1], q.args[2]} \subseteq 0 .. Modulus - 1
    /\ q.program = "fact" => q.args[1] \in 0 .. Modulus - 1
    /\ q.program = "matmul" =>
         /\ q.n \in Nat \ {0}
         /\ {q.A, q.B} \subseteq [(0 .. q.n - 1) \X (0 .. q.n - 1) -> 0 .. Modulus - 1]

VARIABLES
  job,     \* the program and the data it was compiled with
  arr,     \* the array of the sorting programs, from 0
  temp,    \* radix_sort's second array
  C,       \* the matrix matmul() fills
  bytes,   \* the memory malloc() and memcpy() deal with
  end      \* where the free part of the heap starts

memory == <<job, arr, temp, C, bytes, end>>

vars == <<stack, a0, memory>>

Indices == DOMAIN job.arr

(* _start sets the stack pointer and calls main.                           *)
Init ==
  /\ job \in Jobs
  /\ stack = <<Called("_start", <<>>)>> /\ a0 = 0
  /\ arr = job.arr /\ temp = [i \in Indices |-> 0]
  /\ C = [p \in DOMAIN job.A |-> 0]
  /\ bytes = [a \in 0 .. HeapEnd - 1 |-> IF a < HeapStart THEN a ELSE 0]
  /\ end = HeapStart

-----------------------------------------------------------------------------
(* programs/c/factorial.c and nth_fibonacci.c                              *)
fact ==
  \/ /\ At("fact", "entry")
     /\ IF frame.args[1] \in {0, 1} THEN Return(1)
        ELSE Call("multiply", <<>>, "fact", <<frame.args[1] - 1>>)
  \/ At("fact", "multiply") /\ Call("return", <<>>, "__mulsi3", <<frame.args[1], a0>>)
  \/ At("fact", "return") /\ Return(a0)

fib ==
  \/ /\ At("fib", "entry")
     /\ IF frame.args[1] \in {0, 1} THEN Return(frame.args[1])
        ELSE Call("second", <<>>, "fib", <<frame.args[1] - 1>>)
  \/ At("fib", "second") /\ Call("add", <<a0>>, "fib", <<frame.args[1] - 2>>)
  \/ At("fib", "add") /\ Return(Word(frame.v[1] + a0))

-----------------------------------------------------------------------------
(* programs/c/test_matrix_multiplication.c: A is M by N, B is N by P; all  *)
(* three are square here, of job.n rows.  The product of two elements is a *)
(* call of __mulsi3.                                                       *)
n == job.n

matmul_loops ==
  /\ At("matmul", "k")
  /\ \E v \in {frame.v} :
       IF v.k < n
       THEN /\ Call("sum", v, "__mulsi3", <<job.A[<<v.i, v.k>>], job.B[<<v.k, v.j>>]>>)
            /\ UNCHANGED C
       ELSE /\ C' = [C EXCEPT ![<<v.i, v.j>>] = v.sum]
            /\ IF v.j < n - 1 THEN Goto("k", [v EXCEPT !.j = @ + 1, !.k = 0, !.sum = 0])
               ELSE IF v.i < n - 1
               THEN Goto("k", [i |-> v.i + 1, j |-> 0, k |-> 0, sum |-> 0])
               ELSE Return(a0)

matmul ==
  \/ At("matmul", "entry") /\ Goto("k", [i |-> 0, j |-> 0, k |-> 0, sum |-> 0]) /\ UNCHANGED C
  \/ matmul_loops
  \/ /\ At("matmul", "sum") /\ UNCHANGED C
     /\ Goto("k", [frame.v EXCEPT !.sum = Word(@ + a0), !.k = @ + 1])

-----------------------------------------------------------------------------
(* programs/c/quick_sort.c                                                 *)
left == frame.args[1]
right == frame.args[2]
i == frame.v.i
j == frame.v.j
pivot == frame.v.pivot

quick_sort_entry ==
  /\ At("quick_sort", "entry")
  /\ IF left >= right THEN Return(a0)
     ELSE Goto("outer", [i |-> left, j |-> right, pivot |-> arr[(left + right) \div 2]])
  /\ UNCHANGED arr

(* A slip: the scan does not stop at elements equal to the pivot.          *)
ScanUp_PastEqual ==
  /\ At("quick_sort", "up") /\ UNCHANGED arr
  /\ IF arr[i] <= pivot THEN Goto("up", [frame.v EXCEPT !.i = @ + 1]) ELSE Goto("down", frame.v)

(* while (arr[i] < pivot) i++;                                             *)
ScanUp ==
  /\ At("quick_sort", "up") /\ UNCHANGED arr
  /\ IF arr[i] < pivot THEN Goto("up", [frame.v EXCEPT !.i = @ + 1]) ELSE Goto("down", frame.v)

(* while (arr[j] > pivot) j--;                                             *)
ScanDown ==
  /\ At("quick_sort", "down") /\ UNCHANGED arr
  /\ IF arr[j] > pivot THEN Goto("down", [frame.v EXCEPT !.j = @ - 1]) ELSE Goto("swap", frame.v)

(* A slip: the indices stay where they are.                                *)
Swap_Stays ==
  /\ At("quick_sort", "swap")
  /\ IF i <= j
     THEN /\ arr' = [arr EXCEPT ![i] = arr[j], ![j] = arr[i]]
          /\ Goto("outer", frame.v)
     ELSE Goto("outer", frame.v) /\ UNCHANGED arr

Swap ==
  /\ At("quick_sort", "swap")
  /\ IF i <= j
     THEN /\ arr' = [arr EXCEPT ![i] = arr[j], ![j] = arr[i]]
          /\ Goto("outer", [i |-> i + 1, j |-> j - 1, pivot |-> pivot])
     ELSE Goto("outer", frame.v) /\ UNCHANGED arr

Outer ==
  /\ At("quick_sort", "outer") /\ UNCHANGED arr
  /\ IF i <= j THEN Goto("up", frame.v)
     ELSE IF left < j THEN Call("right", frame.v, "quick_sort", <<left, j>>)
     ELSE Goto("right", frame.v)

(* A slip: a second half of two elements is left alone.                    *)
SecondHalf_Short ==
  /\ At("quick_sort", "right") /\ UNCHANGED arr
  /\ IF i + 1 < right THEN Call("return", frame.v, "quick_sort", <<i, right>>)
     ELSE Goto("return", frame.v)

SecondHalf ==
  /\ At("quick_sort", "right") /\ UNCHANGED arr
  /\ IF i < right THEN Call("return", frame.v, "quick_sort", <<i, right>>)
     ELSE Goto("return", frame.v)

quick_sort ==
  \/ quick_sort_entry \/ ScanUp \/ ScanDown \/ Swap \/ Outer \/ SecondHalf
  \/ At("quick_sort", "return") /\ Return(a0) /\ UNCHANGED arr

-----------------------------------------------------------------------------
(* programs/c/radix_sort.c: DigitBits is 8 there and Passes 4.             *)
Radix == 2 ^ DigitBits

(* A slip: the shift is the number of the pass.                            *)
Digit_ByPass(x, p) == (x \div 2 ^ p) % Radix

Weight(p) == 2 ^ (p * DigitBits)

Digit(x, p) == (x \div Weight(p)) % Radix

ASSUME PowersAssumption ==
  /\ Modulus \in Nat \ {0} /\ Modulus > 1 /\ Radix \in Nat \ {0}
  /\ \A p \in 0 .. Passes - 1 : Weight(p) \in Nat \ {0}

Length == frame.args[1]
count == frame.v.count
pass == frame.v.pass

Counting(c, k) == [pass |-> pass, i |-> k, count |-> c]

(* count holds what the stack held before.                                 *)
radix_entry ==
  /\ At("radix_sort", "entry")
  /\ Goto("clear", [pass |-> 0, i |-> 0, count |-> [d \in 0 .. Radix - 1 |-> 1]])
  /\ UNCHANGED <<arr, temp>>

Clear ==
  /\ At("radix_sort", "clear") /\ UNCHANGED <<arr, temp>>
  /\ IF i < Radix THEN Goto("clear", Counting([count EXCEPT ![i] = 0], i + 1))
     ELSE Goto("count", Counting(count, 0))

Count ==
  /\ At("radix_sort", "count") /\ UNCHANGED <<arr, temp>>
  /\ IF i < Length
     THEN Goto("count", Counting([count EXCEPT ![Digit(arr[i], pass)] = @ + 1], i + 1))
     ELSE Goto("prefix", Counting(count, 1))

PrefixSums ==
  /\ At("radix_sort", "prefix") /\ UNCHANGED <<arr, temp>>
  /\ IF i < Radix
     THEN Goto("prefix", Counting([count EXCEPT ![i] = @ + count[i - 1]], i + 1))
     ELSE Goto("place", Counting(count, Length - 1))

Place ==
  /\ At("radix_sort", "place") /\ UNCHANGED arr
  /\ IF i >= 0
     THEN \E digit \in {Digit(arr[i], pass)} :
            /\ temp' = [temp EXCEPT ![count[digit] - 1] = arr[i]]
            /\ Goto("place", Counting([count EXCEPT ![digit] = @ - 1], i - 1))
     ELSE Goto("copy", Counting(count, 0)) /\ UNCHANGED temp

CopyBack ==
  /\ At("radix_sort", "copy") /\ UNCHANGED temp
  /\ IF i < Length
     THEN arr' = [arr EXCEPT ![i] = temp[i]] /\ Goto("copy", Counting(count, i + 1))
     ELSE /\ UNCHANGED arr
          /\ IF pass + 1 < Passes THEN Goto("clear", [pass |-> pass + 1, i |-> 0, count |-> count])
             ELSE Return(a0)

radix_sort == radix_entry \/ Clear \/ Count \/ PrefixSums \/ Place \/ CopyBack

-----------------------------------------------------------------------------
(* essentials/malloc.c and memcpy.c                                        *)
(* A slip: sizes are rounded down.                                         *)
Rounded_Down(size) == 4 * (size \div 4)

Rounded(size) == 4 * (Word(size + 3) \div 4)

malloc ==
  /\ At("malloc", "entry")
  /\ \E size \in {Rounded(frame.args[1])} :
       IF Word(end + size) > HeapEnd THEN Return(0) /\ UNCHANGED end
       ELSE Return(end) /\ end' = Word(end + size)

(* d and s run through dst .. and src .. while n goes down to 0.           *)
memcpy ==
  \/ /\ At("memcpy", "entry") /\ UNCHANGED bytes
     /\ Goto("copy", [d |-> frame.args[1], s |-> frame.args[2], n |-> frame.args[3]])
  \/ /\ At("memcpy", "copy")
     /\ \E v \in {frame.v} :
          IF v.n = 0 THEN Return(frame.args[1]) /\ UNCHANGED bytes
          ELSE /\ bytes' = [bytes EXCEPT ![v.d] = bytes[v.s]]
               /\ Goto("copy", [d |-> v.d + 1, s |-> v.s + 1, n |-> v.n - 1])

-----------------------------------------------------------------------------
(* crt0.S: main's result is left behind; a7 is cleared and ecall stops.    *)
start ==
  \/ At("_start", "entry") /\ Call("stop", <<>>, "main", <<>>)
  \/ At("_start", "stop") /\ stack' = <<>> /\ UNCHANGED a0

(* main() of a program is one call: its arguments, and what main returns.  *)
QuickSortMain == [args |-> <<0, Cardinality(Indices) - 1>>, result |-> 0]

RadixSortMain == [args |-> <<Cardinality(Indices)>>, result |-> 0]

MatrixMain == [args |-> <<>>, result |-> 1]

NumberMain == [args |-> job.args, result |-> a0]

Main ==
  CASE job.program = "quick_sort" -> QuickSortMain
    [] job.program = "radix_sort" -> RadixSortMain
    [] job.program = "matmul" -> MatrixMain
    [] OTHER -> NumberMain

main ==
  \/ /\ At("main", "entry") /\ job.program # "heap"
     /\ Call("return", <<>>, job.program, Main.args)
  \/ At("main", "return") /\ Return(Main.result)

(* A program that uses the heap: it fills every block it gets from the     *)
(* read-only data at its number, and goes on without the ones it does not. *)
HeapUser ==
  \/ /\ At("main", "entry") /\ job.program = "heap"
     /\ Goto("ask", <<>>)
  \/ /\ At("main", "ask")
     /\ IF Len(frame.v) = Len(job.args) THEN Goto("return", frame.v)
        ELSE Call("fill", frame.v, "malloc", <<job.args[Len(frame.v) + 1]>>)
  \/ /\ At("main", "fill")
     /\ \E k \in {Len(frame.v) + 1} :
          IF a0 = 0 THEN Goto("ask", Append(frame.v, 0))
          ELSE Call("ask", Append(frame.v, a0), "memcpy", <<a0, k, job.args[k]>>)

-----------------------------------------------------------------------------
Next ==
  \/ (ArithmeticSteps \/ fact \/ fib \/ start \/ main \/ HeapUser) /\ UNCHANGED memory
  \/ matmul /\ UNCHANGED <<job, arr, temp, bytes, end>>
  \/ quick_sort /\ UNCHANGED <<job, temp, C, bytes, end>>
  \/ radix_sort /\ UNCHANGED <<job, C, bytes, end>>
  \/ malloc /\ UNCHANGED <<job, arr, temp, C, bytes>>
  \/ memcpy /\ UNCHANGED <<job, arr, temp, C, end>>

Spec == Init /\ [][Next]_vars

(* The processor goes on executing the program.                            *)
FairSpec == Spec /\ WF_vars(Next)

-----------------------------------------------------------------------------
Permutes(f, g) ==
  \A x \in {f[k] : k \in DOMAIN f} \cup {g[k] : k \in DOMAIN g} :
    Cardinality({k \in DOMAIN f : f[k] = x}) = Cardinality({k \in DOMAIN g : g[k] = x})

Ascending(f, Key(_)) == \A k, l \in DOMAIN f : k < l => Key(f[k]) <= Key(f[l])

Product == [p \in DOMAIN job.A |->
  Word(FoldFunction(LAMBDA x, y : x + y, 0, [k \in 0 .. n - 1 |-> job.A[<<p[1], k>>] * job.B[<<k, p[2]>>]]))]

Factorial[k \in Nat] == IF k = 0 THEN 1 ELSE k * Factorial[k - 1]

Fibonacci[k \in Nat] == IF k < 2 THEN k ELSE Fibonacci[k - 1] + Fibonacci[k - 2]

(* When a program has stopped, what it was written to compute is there:    *)
(* the arrays are sorted and hold what they held, the matrix is the        *)
(* product, a0 the number asked for (the comments in each main()).         *)
ProgramsCompute ==
  stack = <<>> =>
    CASE job.program \in {"quick_sort", "radix_sort"} ->
           Ascending(arr, LAMBDA x : x) /\ Permutes(arr, job.arr)
      [] job.program = "matmul" -> C = Product
      [] job.program = "fact" -> a0 = Word(Factorial[job.args[1]])
      [] job.program = "fib" -> a0 = Word(Fibonacci[job.args[1]])
      [] OTHER -> TRUE

(* quick_sort() tests no index against the ends of the array: the pivot    *)
(* stops both scans, and what a swap has moved stops the later ones.       *)
(* radix_sort()'s counts never lead out of temp either.                    *)
IndicesInBounds ==
  stack # <<>> =>
    /\ At("quick_sort", "up") => i \in Indices
    /\ At("quick_sort", "down") => j \in Indices
    /\ At("radix_sort", "place") /\ i >= 0 => count[Digit(arr[i], pass)] - 1 \in Indices

(* Between the passes of radix_sort() the array holds what it held, in the *)
(* order of the digits the passes so far have sorted by: placing from the  *)
(* end keeps the order of the earlier passes.                              *)
PassesAreStable ==
  At("radix_sort", "clear") =>
    Permutes(arr, job.arr) /\ Ascending(arr, LAMBDA x : x % 2 ^ (pass * DigitBits))

(* The sizes asked for are words, even when they are rounded up and added  *)
(* to the heap, and the data to fill the blocks from is there.             *)
RequestsFit(sizes) ==
  /\ sizes \in Seq(Nat)
  /\ \A k \in DOMAIN sizes :
       sizes[k] + 3 + HeapEnd < Modulus /\ k + sizes[k] <= HeapStart

(* Blocks of the heap that were handed out keep their contents whatever is *)
(* allocated and filled later, and lie within the heap, in a program whose *)
(* requests fit: malloc.c:9-11 rounds a size up and adds it to the end of  *)
(* the heap without a test for a wrap, and grants requests that do.        *)
BlocksAreKept ==
  stack # <<>> /\ job.program = "heap" /\ RequestsFit(job.args) /\ frame.fn = "main" /\ frame.pc = "ask" =>
    \A k \in DOMAIN frame.v :
      \E block \in {frame.v[k]} :
        block # 0 =>
          /\ block % 4 = 0 /\ block >= HeapStart /\ block + job.args[k] <= HeapEnd
          /\ \A b \in 0 .. job.args[k] - 1 : bytes[block + b] = k + b

(* Every program stops.                                                    *)
Stops == <>(stack = <<>>)
=============================================================================
