----------------------------- MODULE BatchRanges -----------------------------
(***************************************************************************)
(* What build_batch (server/src/collector.rs) promises, in closed form:    *)
(* the ranges of `distance` blocks that follow latest_l2, as many as both  *)
(* max_concurrency and finalized_l2 allow.  BuildBatch shows that the loop *)
(* of the code returns exactly this; Collector uses it as the value of the *)
(* call.  Numbers are unbounded here, the loop's are of a fixed width.     *)
(***************************************************************************)
EXTENDS Integers, Sequences

(* The number of whole distances between latest_l2 and finalized_l2, capped
   by max_concurrency.  Only meaningful for a positive distance. *)
BatchLen(latest_l2, finalized_l2, distance, max_concurrency) ==
  LET room == (finalized_l2 - latest_l2) \div distance
  IN  IF finalized_l2 < latest_l2 THEN 0
      ELSE IF room < max_concurrency THEN room ELSE max_concurrency

(* The i-th range of a batch that starts at latest_l2. *)
BatchRange(latest_l2, distance, i) ==
  [start |-> latest_l2 + (i - 1) * distance, end |-> latest_l2 + i * distance]

Batch(latest_l2, finalized_l2, distance, max_concurrency) ==
  [i \in 1..BatchLen(latest_l2, finalized_l2, distance, max_concurrency) |->
     BatchRange(latest_l2, distance, i)]
=============================================================================
