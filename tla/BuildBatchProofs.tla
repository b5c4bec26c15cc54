-------------------------- MODULE BuildBatchProofs --------------------------
(***************************************************************************)
(* For every width of the block numbers, and every arguments that do not   *)
(* overflow it, build_batch returns the closed form of BatchRanges.        *)
(***************************************************************************)
EXTENDS BuildBatch, TLAPS

(* The state of the loop: how far it got, and why it stopped. *)
LoopInv ==
  /\ iterations = Len(batch)
  /\ current = IF batch = <<>> THEN latest_l2 ELSE batch[Len(batch)].end

Advance ==
  InRange =>
    /\ \A i \in DOMAIN batch : batch[i] = BatchRange(latest_l2, distance, i)
    /\ current = latest_l2 + Len(batch) * distance
    /\ current <= finalized_l2

Stopped ==
  pc = "returned" /\ InRange =>
    \/ iterations = max_concurrency
    \/ current + distance > finalized_l2

IInv == TypeOK /\ LoopInv /\ NeverBeyondFinalized /\ Advance /\ Stopped

-----------------------------------------------------------------------------
(* Distributivity, which the solver is given rather than left to find. *)
LEMMA NextMultiple ==
  ASSUME NEW k \in Int, NEW d \in Int
  PROVE  (k + 1) * d = k * d + d
BY SMT

(* The quotient is the only number of distances that fit and cannot be
   extended: what ties the loop's exit to the \div of the closed form. *)
LEMMA QuotientUnique ==
  ASSUME NEW x \in Nat, NEW d \in Nat, d > 0, NEW k \in Nat, k * d <= x
  PROVE  /\ k <= x \div d
         /\ x < (k + 1) * d => x \div d = k
<1> DEFINE q == x \div d
<1>1. q \in Nat /\ q * d <= x /\ x < (q + 1) * d
  BY SMT
<1>2. k < q + 1
  <2>1. k * d < (q + 1) * d
    BY <1>1, SMT
  <2>2. k >= q + 1 => k * d >= (q + 1) * d
    BY <1>1, SMT
  <2> QED BY <2>1, <2>2, <1>1, SMT
<1>3. x < (k + 1) * d => q < k + 1
  <2> SUFFICES ASSUME x < (k + 1) * d, q >= k + 1 PROVE FALSE
    BY <1>1, SMT
  <2>1. q * d >= (k + 1) * d
    BY <1>1, SMT
  <2> QED BY <2>1, <1>1, SMT
<1> QED BY <1>1, <1>2, <1>3, SMT

(* A loop that stopped at the first range that does not fit, or at
   max_concurrency, ran exactly BatchLen times. *)
LEMMA StoppedLength ==
  ASSUME TypeOK, LoopInv, Advance, Stopped, InRange, pc = "returned"
  PROVE  Len(batch) = BatchLen(latest_l2, finalized_l2, distance, max_concurrency)
<1> DEFINE k == Len(batch)
           x == finalized_l2 - latest_l2
<1>1. /\ x \in Nat /\ distance \in Nat /\ distance > 0
      /\ k \in Nat /\ k <= max_concurrency /\ max_concurrency \in Nat
      /\ latest_l2 \in Nat /\ finalized_l2 \in Nat
  BY ConcurrenciesAssumption, ModulusAssumption
     DEF TypeOK, U64, InRange, LoopInv
<1>2. current = latest_l2 + k * distance /\ current <= finalized_l2
  BY DEF Advance
<1>3. k * distance \in Nat
  BY <1>1, SMT
<1>4. k * distance <= x
  BY <1>1, <1>2, <1>3
<1>5. k = max_concurrency \/ x < (k + 1) * distance
  BY <1>1, <1>2, <1>3, NextMultiple DEF Stopped, LoopInv
<1>6. /\ k <= x \div distance
      /\ x < (k + 1) * distance => x \div distance = k
  BY <1>1, <1>4, QuotientUnique
<1>7. x \div distance \in Int
  BY <1>1, SMT
<1> QED BY <1>1, <1>5, <1>6, <1>7 DEF BatchLen, InRange

-----------------------------------------------------------------------------
LEMMA InitIInv == Init => IInv
<1> SUFFICES ASSUME Init PROVE IInv
  OBVIOUS
<1>1. TypeOK
  BY ConcurrenciesAssumption, ModulusAssumption DEF Init, TypeOK, U64
<1>2. LoopInv /\ NeverBeyondFinalized /\ Stopped
  BY DEF Init, LoopInv, NeverBeyondFinalized, Stopped
<1>3. Advance
  <2>1. DOMAIN batch = {}
    BY DEF Init
  <2>2. latest_l2 \in Int /\ distance \in Int
    BY ModulusAssumption DEF Init, U64
  <2>3. Len(batch) = 0 /\ current = latest_l2
    BY DEF Init
  <2>4. 0 * distance = 0
    BY <2>2
  <2>5. current = latest_l2 + Len(batch) * distance
    BY <2>2, <2>3, <2>4
  <2>6. InRange => current <= finalized_l2
    BY <2>2, <2>3, ModulusAssumption DEF InRange, Init, U64
  <2> QED BY <2>1, <2>5, <2>6 DEF Advance
<1> QED BY <1>1, <1>2, <1>3 DEF IInv

LEMMA EndBlockType == TypeOK => EndBlock \in U64
BY ModulusAssumption DEF TypeOK, EndBlock, U64

LEMMA PushIInv ==
  ASSUME IInv, Push
  PROVE  IInv'
<1> DEFINE r == [start |-> current, end |-> EndBlock]
<1>1. EndBlock \in U64
  BY EndBlockType DEF IInv
<1>2. r \in [start : U64, end : U64]
  BY <1>1 DEF IInv, TypeOK
<1>3. /\ batch' = Append(batch, r)
      /\ batch \in Seq([start : U64, end : U64])
      /\ batch' \in Seq([start : U64, end : U64])
      /\ Len(batch) \in Nat
      /\ Len(batch') = Len(batch) + 1
      /\ batch'[Len(batch) + 1] = r
      /\ DOMAIN batch = 1..Len(batch)
      /\ DOMAIN batch' = 1..(Len(batch) + 1)
      /\ \A i \in 1..Len(batch) : batch'[i] = batch[i]
  BY <1>2 DEF Push, IInv, TypeOK
<1>4. TypeOK'
  BY <1>1, <1>3, ConcurrenciesAssumption, ModulusAssumption
     DEF IInv, TypeOK, Push, Iterating, arguments, U64
<1>5. LoopInv'
  BY <1>3 DEF IInv, LoopInv, Push
<1>6. NeverBeyondFinalized'
  <2>1. \A i \in DOMAIN batch' : batch'[i].end <= finalized_l2'
    BY <1>3 DEF IInv, NeverBeyondFinalized, Push, Fits, arguments
  <2>2. ASSUME NEW i \in DOMAIN batch'
        PROVE  batch'[i].start = IF i = 1 THEN latest_l2' ELSE batch'[i - 1].end
    <3>1. CASE i = Len(batch) + 1
      <4>1. batch'[i].start = current
        BY <1>3, <3>1
      <4>2. CASE batch = <<>>
        BY <1>3, <3>1, <4>1, <4>2 DEF IInv, LoopInv, Push, arguments
      <4>3. CASE batch # <<>>
        BY <1>3, <3>1, <4>1, <4>3 DEF IInv, LoopInv, Push, arguments
      <4> QED BY <4>2, <4>3
    <3>2. CASE i \in 1..Len(batch)
      BY <1>3, <3>2 DEF IInv, NeverBeyondFinalized, Push, arguments
    <3> QED BY <1>3, <3>1, <3>2
  <2> QED BY <2>1, <2>2 DEF NeverBeyondFinalized
<1>7. Advance'
  <2> SUFFICES ASSUME InRange'
               PROVE  /\ \A i \in DOMAIN batch' :
                            batch'[i] = BatchRange(latest_l2', distance', i)
                      /\ current' = latest_l2' + Len(batch') * distance'
                      /\ current' <= finalized_l2'
    BY DEF Advance
  <2>1. InRange /\ UNCHANGED arguments
    BY DEF Push, arguments, InRange
  <2>2. /\ latest_l2 \in Nat /\ distance \in Nat /\ finalized_l2 \in Nat
        /\ current \in Nat
    BY ModulusAssumption DEF IInv, TypeOK, U64
  <2>3. /\ current = latest_l2 + Len(batch) * distance
        /\ current <= finalized_l2
        /\ \A i \in DOMAIN batch : batch[i] = BatchRange(latest_l2, distance, i)
    BY <2>1 DEF IInv, Advance
  <2>4. EndBlock = current + distance
    BY <2>1, <2>2, <2>3, ModulusAssumption DEF EndBlock, InRange
  <2>5. (Len(batch) + 1) * distance = Len(batch) * distance + distance
    BY <1>3, <2>2, NextMultiple
  <2>6. Len(batch) * distance \in Nat
    BY <1>3, <2>2, SMT
  <2>7. current' = latest_l2' + Len(batch') * distance'
    BY <1>3, <2>1, <2>2, <2>3, <2>4, <2>5, <2>6 DEF Push, arguments
  <2>8. current' <= finalized_l2'
    BY <2>1 DEF Push, Fits, arguments
  <2>9. r = BatchRange(latest_l2, distance, Len(batch) + 1)
    <3>1. (Len(batch) + 1) - 1 = Len(batch)
      BY <1>3
    <3> QED BY <3>1, <2>2, <2>3, <2>4, <2>5, <2>6 DEF BatchRange
  <2>10. ASSUME NEW i \in DOMAIN batch'
         PROVE  batch'[i] = BatchRange(latest_l2', distance', i)
    <3>1. BatchRange(latest_l2', distance', i) = BatchRange(latest_l2, distance, i)
      BY <2>1 DEF arguments
    <3>2. CASE i = Len(batch) + 1
      BY <1>3, <2>9, <3>1, <3>2
    <3>3. CASE i \in DOMAIN batch
      BY <1>3, <2>3, <3>1, <3>3
    <3> QED BY <1>3, <3>2, <3>3
  <2> QED BY <2>7, <2>8, <2>10
<1>8. Stopped'
  BY DEF Stopped, Push, Iterating
<1> QED BY <1>4, <1>5, <1>6, <1>7, <1>8 DEF IInv

(* Leaving the loop changes pc alone; what is to show is why it stopped. *)
LEMMA ReturnIInv ==
  ASSUME IInv, Break \/ Exhausted
  PROVE  IInv'
<1>1. UNCHANGED <<arguments, iterations, current, batch>> /\ pc' = "returned"
  BY DEF Break, Exhausted
<1>2. TypeOK' /\ LoopInv' /\ NeverBeyondFinalized' /\ Advance'
  BY <1>1 DEF IInv, TypeOK, LoopInv, NeverBeyondFinalized, Advance, InRange,
              arguments
<1>3. Stopped'
  <2> SUFFICES ASSUME InRange
               PROVE  iterations = max_concurrency \/ current + distance > finalized_l2
    BY <1>1 DEF Stopped, InRange, arguments
  <2>1. /\ iterations \in Nat /\ max_concurrency \in Nat /\ iterations <= max_concurrency
        /\ current \in Nat /\ distance \in Nat /\ finalized_l2 \in Nat
        /\ current <= finalized_l2
    BY ConcurrenciesAssumption, ModulusAssumption DEF IInv, TypeOK, U64, Advance
  <2>2. CASE Break
    <3>1. EndBlock = current + distance
      BY <2>1, ModulusAssumption DEF EndBlock, InRange
    <3> QED BY <2>1, <2>2, <3>1 DEF Break, Fits
  <2>3. CASE Exhausted
    BY <2>1, <2>3 DEF Exhausted, Iterating
  <2> QED BY <2>2, <2>3
<1> QED BY <1>2, <1>3 DEF IInv

LEMMA IInvReturns == IInv => ReturnsBatch
<1> SUFFICES ASSUME IInv, pc = "returned", InRange
             PROVE  batch = Batch(latest_l2, finalized_l2, distance, max_concurrency)
  BY DEF ReturnsBatch
<1>1. Len(batch) = BatchLen(latest_l2, finalized_l2, distance, max_concurrency)
  BY StoppedLength DEF IInv
<1>2. batch \in Seq([start : U64, end : U64])
  BY DEF IInv, TypeOK
<1>3. batch = [i \in 1..Len(batch) |-> batch[i]]
  BY <1>2
<1>4. \A i \in 1..Len(batch) : batch[i] = BatchRange(latest_l2, distance, i)
  BY <1>2 DEF IInv, Advance
<1> QED BY <1>1, <1>3, <1>4 DEF Batch

-----------------------------------------------------------------------------
LEMMA Inductive == Spec => []IInv
<1>1. IInv /\ [Next]_vars => IInv'
  <2> SUFFICES ASSUME IInv, [Next]_vars PROVE IInv'
    OBVIOUS
  <2>1. CASE Push
    BY <2>1, PushIInv
  <2>2. CASE Break \/ Exhausted
    BY <2>2, ReturnIInv
  <2>3. CASE UNCHANGED vars
    BY <2>3 DEF vars, IInv, TypeOK, LoopInv, NeverBeyondFinalized, Advance,
                Stopped, InRange
  <2> QED BY <2>1, <2>2, <2>3 DEF Next
<1> QED BY InitIInv, <1>1, PTL DEF Spec

(* The argument and result types of build_batch hold throughout. *)
THEOREM TypeCorrect == Spec => []TypeOK
BY Inductive, PTL DEF IInv

(* build_batch returns consecutive ranges of exactly `distance` blocks, as many
   as fit below finalized_l2 and max_concurrency, for arguments that do not
   overflow. *)
THEOREM ReturnsClosedForm == Spec => []ReturnsBatch
BY Inductive, IInvReturns, PTL

(* Even where the addition wraps, no range ends above finalized_l2 and
   consecutive ranges touch. *)
THEOREM BoundedByFinalized == Spec => []NeverBeyondFinalized
BY Inductive, PTL DEF IInv
=============================================================================
