----------------------------- MODULE MCRuntime ------------------------------
(* Programs and data for checking module Runtime. *)
EXTENDS Runtime

Nothing == [p \in {} |-> 0]

Job(program, args) ==
  [program |-> program, args |-> args, n |-> 0, arr |-> Nothing, A |-> Nothing, B |-> Nothing]

(* Small and large words, and those about the table's end and the sign. *)
Operands == 0 .. 8 \cup {15, 16, 30, 31, 32, 63, 127, 128, 129, 170, 192, 240, 254, 255}

Operations == {Job(fn, <<a, b>>) : fn \in Routines, a \in Operands, b \in Operands}

Numbers == {Job(fn, <<k>>) : fn \in {"fact", "fib"}, k \in 0 .. 6}

(* Every array up to four elements over values whose digits coincide and   *)
(* differ.                                                                 *)
Values == {0, 8, 69, 132, 255}

Arrays == UNION {[0 .. l -> Values] : l \in 0 .. 3}

Sorts == {[Job(program, <<>>) EXCEPT !.arr = a] : program \in {"quick_sort", "radix_sort"}, a \in Arrays}

Matrices(rows, values) == [(0 .. rows - 1) \X (0 .. rows - 1) -> values]

Multiplications ==
  UNION {{[Job("matmul", <<>>) EXCEPT !.n = rows, !.A = A, !.B = B] :
            A \in Matrices(rows, {1, 7}), B \in Matrices(rows, {3, 130})} : rows \in {1, 2}}

(* Three blocks, which may be empty or not fit. *)
Requests == {Job("heap", sizes) : sizes \in [1 .. 3 -> {0, 1, 3, 4, 5, 8}]}

MCJobs == Operations \cup Numbers \cup Sorts \cup Multiplications \cup Requests
=============================================================================
