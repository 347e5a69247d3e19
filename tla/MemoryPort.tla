---------------------------- MODULE MemoryPort ----------------------------
(***************************************************************************)
(* The counter in read_memory_i, read_memory and write_memory of memory.c. *)
(* Each function keeps a static counter of the cycles its access still     *)
(* takes; -1 means that no access is being carried out.  The caches are    *)
(* asked for a latency only when the counter is negative.                  *)
(***************************************************************************)
EXTENDS Integers

(* A slip the liveness properties must reject: a counter that stays put. *)
Attempt_NeverCounts(c, lat) ==
  LET n == IF c < 0 THEN lat - 1 ELSE c
  IN  [result |-> IF n = 0 THEN "done" ELSE "pending", counter |-> IF n = 0 THEN -1 ELSE n]

(* One call of a port whose counter is c, lat being what set_read_i_counter, *)
(* set_read_counter or set_write_counter would answer.  -1 from them (a     *)
(* structural hazard in the caches) makes the counter -2, so the call       *)
(* neither completes nor looks refused: only a latency of 0 does.           *)
Attempt(c, lat) ==
  LET n == IF c < 0 THEN lat - 1 ELSE c
  IN  CASE n > 0   -> [result |-> "pending", counter |-> n - 1]
        [] n = 0   -> [result |-> "done",    counter |-> -1]
        [] n = -1  -> [result |-> "refused", counter |-> -1]
        [] n < -1  -> [result |-> "pending", counter |-> n]

(* The latencies to consider for a call of a port whose counter is c. *)
Answers(c, latencies) == IF c < 0 THEN latencies ELSE {1}
=============================================================================
