----------------------------- MODULE BuildBatch -----------------------------
(***************************************************************************)
(* The loop of build_batch (server/src/collector.rs), one step per         *)
(* iteration, in the arithmetic of a release build: `current + distance`   *)
(* wraps around at Modulus, which stands for 2^64.                         *)
(***************************************************************************)
EXTENDS BatchRanges

CONSTANTS
  Modulus,        \* 2^64 in the code: the width of the block numbers
  Concurrencies   \* the values of the max_concurrency option

ASSUME ModulusAssumption == Modulus \in Nat \ {0}
ASSUME ConcurrenciesAssumption == Concurrencies \subseteq Nat

VARIABLES
  latest_l2, finalized_l2, distance, max_concurrency,  \* the arguments
  iterations,     \* iterations of the `for` completed
  current, batch, \* the locals of the loop
  pc              \* "loop" | "returned"

arguments == <<latest_l2, finalized_l2, distance, max_concurrency>>
vars == <<latest_l2, finalized_l2, distance, max_concurrency, iterations,
          current, batch, pc>>

U64 == 0..(Modulus - 1)

TypeOK ==
  /\ {latest_l2, finalized_l2, distance, current} \subseteq U64
  /\ max_concurrency \in Concurrencies
  /\ iterations \in 0..max_concurrency
  /\ batch \in Seq([start : U64, end : U64])
  /\ pc \in {"loop", "returned"}

Init ==
  /\ latest_l2 \in U64
  /\ finalized_l2 \in U64
  /\ distance \in U64
  /\ max_concurrency \in Concurrencies
  /\ iterations = 0
  /\ current = latest_l2
  /\ batch = <<>>
  /\ pc = "loop"

EndBlock == (current + distance) % Modulus

(* Bug: `for _ in 0..=max_concurrency`. *)
BugIterating == pc = "loop" /\ iterations <= max_concurrency

Iterating == pc = "loop" /\ iterations < max_concurrency

(* Bugs: `end >= finalized_l2` breaks one block too early, `current >
   finalized_l2` looks at the wrong end of the range. *)
BugFitsStrictly == EndBlock < finalized_l2
BugFitsFromStart == current <= finalized_l2

Fits == EndBlock <= finalized_l2

Push ==
  /\ Iterating
  /\ Fits
  /\ batch' = Append(batch, [start |-> current, end |-> EndBlock])
  /\ current' = EndBlock
  /\ iterations' = iterations + 1
  /\ UNCHANGED <<arguments, pc>>

Break ==
  /\ Iterating
  /\ ~Fits
  /\ pc' = "returned"
  /\ UNCHANGED <<arguments, iterations, current, batch>>

Exhausted ==
  /\ pc = "loop"
  /\ ~Iterating
  /\ pc' = "returned"
  /\ UNCHANGED <<arguments, iterations, current, batch>>

Next == Push \/ Break \/ Exhausted

Spec == Init /\ [][Next]_vars

-----------------------------------------------------------------------------
(* The arguments under which no addition of the loop can wrap around: the
   last `end` it computes is at most one distance above finalized_l2, and
   collect (collector.rs:162) calls it only with finalized_l2 > latest_l2. *)
InRange ==
  /\ distance > 0
  /\ latest_l2 < finalized_l2
  /\ finalized_l2 + distance < Modulus

(* For arguments in range the loop returns the closed form: consecutive
   ranges of exactly `distance` blocks from latest_l2, none beyond
   finalized_l2, and no range missing that would still fit. *)
ReturnsBatch ==
  pc = "returned" /\ InRange =>
    batch = Batch(latest_l2, finalized_l2, distance, max_concurrency)

(* Whatever the arguments, a wrapped addition included, no range ends beyond
   finalized_l2 and each range starts where the one before it ended: an
   overflow can make a range run backwards but never makes the collector
   derive a block that is not finalized, or leave a gap. *)
NeverBeyondFinalized ==
  /\ \A i \in DOMAIN batch : batch[i].end <= finalized_l2
  /\ \A i \in DOMAIN batch :
       batch[i].start = IF i = 1 THEN latest_l2 ELSE batch[i - 1].end
=============================================================================
