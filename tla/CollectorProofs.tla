--------------------------- MODULE CollectorProofs ---------------------------
(***************************************************************************)
(* For every distance, concurrency, L1 schedule and number of faults: the  *)
(* collector stores a chain of claims, each covered by its L1 head, and    *)
(* implements ClaimChain.                                                  *)
(*                                                                         *)
(* The invariant says what each suspension relies on: the sync status that *)
(* bounds the batch stays below the L1 head chosen later (HeadInv), the    *)
(* counters stay within the batch (BatchInv), and everything stored lies   *)
(* below the point the next upsert starts from (StoredInv), also while an  *)
(* upsert has stored its file and not returned.                            *)
(***************************************************************************)
EXTENDS Collector, FiniteSetTheorems, TLAPS

Collecting == pc # "sync"

HeadInv ==
  /\ Collecting => sync.l2 = SafeL2[sync.l1]
  /\ pc \in {"save_l1", "join", "commit", "ack"} => sync.l1 <= l1_head

BatchInv ==
  /\ pc \notin {"commit", "ack"} => committed = 0
  /\ Collecting => Len(batch) > 0
  /\ pc \in {"commit", "ack"} => committed < Len(batch)

StoredInv == \A m \in stored : m.agreed < m.claimed /\ m.claimed <= Reached

IInv == TypeOK /\ HeadInv /\ BatchInv /\ StoredInv /\ HeadCoversClaims /\ NoOverlap

-----------------------------------------------------------------------------
(* A batch starts at `from', its ranges are `distance` blocks each and touch,
   it has at most max_concurrency of them and none ends above `upto'. *)
LEMMA BatchFacts ==
  ASSUME NEW from \in Nat, NEW upto \in Nat,
         NEW distance \in Nat \ {0}, NEW max_concurrency \in Nat
  PROVE  LET b == Batch(from, upto, distance, max_concurrency)
         IN  /\ Len(b) \in 0..max_concurrency
             /\ DOMAIN b = 1..Len(b)
             /\ \A i \in 1..Len(b) :
                  /\ b[i].start \in Nat /\ b[i].end \in Nat
                  /\ b[i].end = b[i].start + distance
                  /\ b[i].start = IF i = 1 THEN from ELSE b[i - 1].end
                  /\ b[i].end <= upto
<1> DEFINE b == Batch(from, upto, distance, max_concurrency)
           n == BatchLen(from, upto, distance, max_concurrency)
           x == upto - from
<1>1. n \in 0..max_concurrency /\ (n > 0 => x \in Nat /\ n <= x \div distance)
  <2>1. CASE upto < from
    BY <2>1 DEF BatchLen
  <2>2. CASE upto >= from
    <3>1. x \in Nat /\ x \div distance \in Nat
      BY <2>2, SMT
    <3> QED BY <2>2, <3>1 DEF BatchLen
  <2> QED BY <2>1, <2>2
<1>2. Len(b) = n /\ DOMAIN b = 1..n
  BY <1>1 DEF Batch
<1>3. ASSUME NEW i \in 1..n
      PROVE  /\ b[i].start \in Nat /\ b[i].end \in Nat
             /\ b[i].end = b[i].start + distance
             /\ b[i].start = IF i = 1 THEN from ELSE b[i - 1].end
             /\ b[i].end <= upto
  <2>1. i \in Nat /\ i - 1 \in Nat /\ i <= n /\ distance \in Int
    BY <1>1
  <2>2. b[i] = [start |-> from + (i - 1) * distance, end |-> from + i * distance]
    BY DEF Batch, BatchRange
  <2>3. i * distance = (i - 1) * distance + distance
    BY <2>1, SMT
  <2>4. (i - 1) * distance \in Nat
    BY <2>1, SMT
  <2>5. i # 1 => b[i - 1].end = from + (i - 1) * distance
    BY <2>1, <1>1 DEF Batch, BatchRange
  <2>6. x \in Nat /\ i <= x \div distance
    BY <1>1, <2>1, SMT
  <2>7. i * distance <= x
    <3>1. (x \div distance) * distance <= x /\ x \div distance \in Nat
      BY <2>6, SMT
    <3>2. i * distance <= (x \div distance) * distance
      BY <2>1, <2>6, <3>1, SMT
    <3> QED BY <3>1, <3>2, <2>1, <2>6, SMT
  <2>8. b[i].end <= upto
    BY <2>2, <2>7, <2>1, SMT
  <2> HIDE DEF b
  <2> QED BY <2>1, <2>2, <2>3, <2>4, <2>4, <2>5, <2>8
<1> HIDE DEF b, n
<1>4. \A i \in 1..n :
        /\ b[i].start \in Nat /\ b[i].end \in Nat
        /\ b[i].end = b[i].start + distance
        /\ b[i].start = IF i = 1 THEN from ELSE b[i - 1].end
        /\ b[i].end <= upto
  BY <1>3
<1> QED BY <1>1, <1>2, <1>4 DEF b, n

(* BatchFacts for the collector's own batch. *)
LEMMA BatchShape ==
  ASSUME TypeOK
  PROVE  /\ Len(batch) \in 0..MaxConcurrency
         /\ DOMAIN batch = 1..Len(batch)
         /\ \A i \in 1..Len(batch) :
              /\ batch[i].start \in Nat /\ batch[i].end \in Nat
              /\ batch[i].end = batch[i].start + Distance
              /\ batch[i].start = IF i = 1 THEN latest_l2 ELSE batch[i - 1].end
              /\ batch[i].end <= sync.l2
<1>1. latest_l2 \in Nat /\ sync.l2 \in Nat
  BY DEF TypeOK
<1>2. Distance \in Nat \ {0} /\ MaxConcurrency \in Nat
  BY OptionsAssumption
<1> QED BY <1>1, <1>2, BatchFacts DEF batch

(* The point the chain has reached is a block number, and while a batch is
   committed it is where the next range starts. *)
LEMMA ReachedShape ==
  ASSUME TypeOK, BatchInv
  PROVE  /\ Reached \in Nat
         /\ pc = "commit" => Reached = batch[committed + 1].start
         /\ pc \notin {"commit", "ack"} => Reached = latest_l2
<1>1. committed \in Nat /\ latest_l2 \in Nat
  BY DEF TypeOK
<1>2. CASE pc \notin {"commit", "ack"}
  BY <1>1, <1>2 DEF TypeOK, BatchInv, Reached, Durable
<1>3. CASE pc = "commit"
  <2>1. committed < Len(batch) /\ Len(batch) \in Nat
    BY <1>3, BatchShape DEF BatchInv
  <2>2. committed + 1 \in 1..Len(batch) /\ (committed # 0 => committed \in 1..Len(batch))
    BY <1>1, <2>1
  <2>3. Reached = IF committed = 0 THEN latest_l2 ELSE batch[committed].end
    BY <1>3 DEF Reached, Durable
  <2>4. batch[committed + 1].start = IF committed = 0 THEN latest_l2 ELSE batch[committed].end
    <3>1. /\ committed + 1 = 1 <=> committed = 0
          /\ (committed + 1) - 1 = committed
      BY <1>1
    <3> QED BY <2>2, <3>1, BatchShape
  <2> QED BY <1>1, <1>3, <2>2, <2>3, <2>4, BatchShape
<1>4. CASE pc = "ack"
  <2>1. committed + 1 \in 1..Len(batch)
    BY <1>1, <1>4, BatchShape DEF BatchInv
  <2>2. Reached = batch[committed + 1].end
    BY <1>1, <1>4 DEF Reached, Durable
  <2> QED BY <1>4, <2>1, <2>2, BatchShape
<1> QED BY <1>2, <1>3, <1>4

LEMMA InitIInv == Init => IInv
<1> SUFFICES ASSUME Init PROVE IInv
  OBVIOUS
<1>1. TypeOK
  BY OptionsAssumption, BoundsAssumption
     DEF Init, TypeOK, L1Blocks, NoSync, NoTasks
<1> QED BY <1>1 DEF Init, IInv, HeadInv, BatchInv, StoredInv, HeadCoversClaims,
                    NoOverlap, Collecting

(* A step that leaves the collector's own variables and its store alone. *)
LEMMA FrameIInv ==
  ASSUME IInv, TypeOK',
         UNCHANGED <<stored, pc, latest_l2, sync, l1_head, committed>>
  PROVE  IInv'
<1>1. batch' = batch /\ Reached' = Reached
  BY DEF batch, Reached, Durable
<1> QED BY <1>1 DEF IInv, HeadInv, BatchInv, StoredInv, HeadCoversClaims, NoOverlap,
                    Collecting

(* collect returns with a claimed block not below what is stored. *)
LEMMA ReturnIInv ==
  ASSUME IInv, TypeOK', UNCHANGED stored,
         NEW claimed \in Nat, Return(claimed),
         \A m \in stored : m.claimed <= claimed
  PROVE  IInv'
<1>1. pc' = "sync" /\ committed' = 0 /\ latest_l2' = claimed
  BY DEF Return
<1>2. Reached' = claimed
  BY <1>1 DEF Reached, Durable
<1> QED BY <1>1, <1>2 DEF IInv, HeadInv, BatchInv, StoredInv, HeadCoversClaims, NoOverlap,
                          Collecting

LEMMA ReturnType ==
  ASSUME NEW claimed \in Nat, Return(claimed)
  PROVE  /\ pc' = "sync" /\ latest_l2' \in Nat
         /\ sync' \in [l1 : L1Blocks, l2 : Nat] /\ l1_head' \in L1Blocks
         /\ tasks' \in [1..MaxConcurrency -> {"none", "roots", "drive", "ok", "err"}]
         /\ joined' \in 0..MaxConcurrency /\ committed' \in 0..MaxConcurrency
BY OptionsAssumption, BoundsAssumption DEF Return, NoSync, NoTasks, L1Blocks

LEMMA FaultType == Fault /\ faults \in 0..MaxFaults => faults' \in 0..MaxFaults
BY BoundsAssumption DEF Fault

-----------------------------------------------------------------------------
(* The environment, and the steps that only wait, retry or end a task. *)
LEMMA EnvironmentIInv ==
  ASSUME IInv, NodeAdvances \/ BeaconAdvances \/ OrphanEnds
  PROVE  IInv'
<1> USE DEF IInv, TypeOK
<1>1. TypeOK'
  <2>1. CASE NodeAdvances
    BY <2>1, BoundsAssumption DEF NodeAdvances, L1Blocks, locals
  <2>2. CASE BeaconAdvances
    BY <2>2, BoundsAssumption DEF BeaconAdvances, L1Blocks, locals
  <2>3. CASE OrphanEnds
    BY <2>3 DEF OrphanEnds, locals, environment
  <2> QED BY <2>1, <2>2, <2>3
<1>2. UNCHANGED <<stored, pc, latest_l2, sync, l1_head, committed>>
  BY DEF NodeAdvances, BeaconAdvances, OrphanEnds, locals
<1> QED BY <1>1, <1>2, FrameIInv

LEMMA WaitIInv ==
  ASSUME IInv, NothingToCollect \/ SyncStatusFails
  PROVE  IInv'
<1>1. TypeOK'
  BY FaultType DEF IInv, TypeOK, NothingToCollect, SyncStatusFails, vars, locals, environment
<1>2. UNCHANGED <<stored, pc, latest_l2, sync, l1_head, committed>>
  BY DEF NothingToCollect, SyncStatusFails, vars, locals
<1> QED BY <1>1, <1>2, FrameIInv

LEMMA TaskIInv ==
  ASSUME IInv, NEW i \in 1..MaxConcurrency, TaskStep(i) \/ TaskFails(i)
  PROVE  IInv'
<1>1. TypeOK'
  BY FaultType DEF IInv, TypeOK, TaskStep, TaskFails, environment
<1>2. UNCHANGED <<stored, pc, latest_l2, sync, l1_head, committed>>
  BY DEF TaskStep, TaskFails
<1> QED BY <1>1, <1>2, FrameIInv

LEMMA ExpireIInv ==
  ASSUME IInv, NEW m \in stored, Expire(m)
  PROVE  IInv'
<1>1. TypeOK'
  BY DEF IInv, TypeOK, Expire, locals, environment
<1>2. batch' = batch /\ Reached' = Reached
  BY DEF Expire, locals, batch, Reached, Durable
<1> QED BY <1>1, <1>2 DEF IInv, HeadInv, BatchInv, StoredInv, HeadCoversClaims, NoOverlap,
                          Collecting, Expire, locals

(* From the sync status to the head: the batch is fixed, and its bound is known
   to be covered once the head has been compared with the status. *)
LEMMA SyncStatusIInv ==
  ASSUME IInv, SyncStatus
  PROVE  IInv'
<1>1. NodeStatus \in [l1 : L1Blocks, l2 : Nat]
  BY SafeL2Assumption DEF IInv, TypeOK, NodeStatus
<1>2. TypeOK'
  BY <1>1 DEF IInv, TypeOK, SyncStatus, environment
<1>3. pc = "sync" /\ pc' = "l1_head" /\ committed = 0 /\ UNCHANGED <<committed, latest_l2, stored>>
  BY DEF SyncStatus, IInv, BatchInv
<1>4. batch' = BatchOf(NodeStatus)
  BY DEF SyncStatus, batch, BatchOf
<1>5. Len(batch') > 0
  <2>1. batch' # <<>>
    BY <1>4 DEF SyncStatus, Worthwhile
  <2>2. Len(batch') \in Nat /\ DOMAIN batch' = 1..Len(batch')
    <3>1. latest_l2 \in Nat /\ NodeStatus.l2 \in Nat
      BY <1>1 DEF IInv, TypeOK
    <3>2. Distance \in Nat \ {0} /\ MaxConcurrency \in Nat
      BY OptionsAssumption
    <3> QED BY <1>4, <3>1, <3>2, BatchFacts DEF BatchOf
  <2>3. batch' = [j \in 1..Len(batch') |-> batch'[j]]
    BY <2>2 DEF batch, Batch
  <2> QED BY <2>1, <2>2, <2>3
<1>6. HeadInv'
  BY <1>1, <1>3 DEF SyncStatus, HeadInv, NodeStatus
<1>7. BatchInv'
  BY <1>3, <1>5 DEF BatchInv
<1>8. Reached' = Reached
  BY <1>3 DEF Reached, Durable
<1>9. StoredInv' /\ NoOverlap' /\ HeadCoversClaims'
  BY <1>3, <1>8 DEF IInv, StoredInv, NoOverlap, HeadCoversClaims
<1> QED BY <1>2, <1>6, <1>7, <1>9 DEF IInv

(* Asking the beacon node, and asking again. *)
LEMMA AskIInv ==
  ASSUME IInv, BeaconAnswers \/ L1HeadDelayed \/ L1HeadRetry
  PROVE  IInv'
<1> USE DEF IInv
<1>1. /\ pc \in {"l1_head", "l1_check"} /\ pc' \in {"l1_head", "l1_check"}
      /\ UNCHANGED <<stored, latest_l2, sync, committed>>
  BY DEF BeaconAnswers, L1HeadDelayed, L1HeadRetry, AskAgain
<1>2. l1_head' \in L1Blocks
  BY BoundsAssumption DEF BeaconAnswers, L1HeadDelayed, L1HeadRetry, AskAgain, TypeOK, L1Blocks
<1>3. TypeOK'
  BY <1>1, <1>2, FaultType DEF TypeOK, BeaconAnswers, L1HeadDelayed, L1HeadRetry, environment
<1>4. batch' = batch /\ Reached' = Reached
  BY <1>1 DEF batch, Reached, Durable
<1> QED BY <1>1, <1>3, <1>4 DEF HeadInv, BatchInv, StoredInv, HeadCoversClaims, NoOverlap,
                                Collecting

LEMMA L1HeadFoundIInv ==
  ASSUME IInv, L1HeadFound
  PROVE  IInv'
<1> USE DEF IInv
<1>1. TypeOK'
  BY DEF TypeOK, L1HeadFound, environment, locals
<1>2. batch' = batch /\ Reached' = Reached
  BY DEF L1HeadFound, locals, batch, Reached, Durable
<1>3. HeadInv' /\ BatchInv'
  BY <1>2 DEF L1HeadFound, locals, HeadInv, BatchInv, HeadIsCurrent, Collecting
<1>4. StoredInv' /\ NoOverlap'
  BY <1>2 DEF L1HeadFound, StoredInv, NoOverlap
<1>5. HeadCoversClaims'
  <2>1. sync.l2 <= SafeL2[l1_head] /\ SafeL2[l1_head] \in Nat /\ sync.l2 \in Nat
    BY SafeL2Assumption DEF L1HeadFound, TypeOK, HeadInv, HeadIsCurrent, Collecting
  <2>2. \A i \in DOMAIN batch : batch[i].end <= SafeL2[l1_head]
    BY <2>1, BatchShape
  <2> QED BY <1>2, <2>2 DEF L1HeadFound, locals, HeadCoversClaims
<1> QED BY <1>1, <1>3, <1>4, <1>5

LEMMA SpawnIInv ==
  ASSUME IInv, SaveL1 \/ SaveL1Fails
  PROVE  IInv'
<1> USE DEF IInv
<1>1. pc = "save_l1" /\ pc' = "join"
      /\ UNCHANGED <<stored, latest_l2, sync, l1_head, joined, committed>>
  BY DEF SaveL1, SaveL1Fails, Spawn
<1>2. TypeOK'
  BY FaultType DEF TypeOK, SaveL1, SaveL1Fails, Spawn, environment
<1>3. batch' = batch /\ Reached' = Reached
  BY <1>1 DEF batch, Reached, Durable
<1> QED BY <1>1, <1>2, <1>3 DEF HeadInv, BatchInv, StoredInv, HeadCoversClaims, NoOverlap,
                                Collecting

LEMMA JoinOkIInv ==
  ASSUME IInv, JoinOk
  PROVE  IInv'
<1> USE DEF IInv
<1>1. UNCHANGED <<stored, latest_l2, sync, l1_head, committed>> /\ committed = 0
      /\ pc = "join" /\ pc' \in {"join", "commit"}
  BY DEF JoinOk, BatchInv
<1>2. joined' \in 0..MaxConcurrency
  BY BatchShape, OptionsAssumption DEF JoinOk, TypeOK
<1>3. TypeOK'
  BY <1>1, <1>2 DEF TypeOK, JoinOk, environment
<1>4. batch' = batch /\ Reached' = Reached
  BY <1>1 DEF batch, Reached, Durable
<1> QED BY <1>1, <1>3, <1>4 DEF HeadInv, BatchInv, StoredInv, HeadCoversClaims, NoOverlap,
                                Collecting

LEMMA AbandonIInv ==
  ASSUME IInv, L1HeadFails \/ JoinFails
  PROVE  IInv'
<1> USE DEF IInv
<1>1. Return(latest_l2) /\ UNCHANGED <<environment, stored, finalized_l1>> /\ latest_l2 \in Nat
  BY DEF L1HeadFails, JoinFails, TypeOK
<1>2. orphans' \in Nat
  <2>1. CASE L1HeadFails
    BY <2>1 DEF L1HeadFails, TypeOK
  <2>2. CASE JoinFails
    <3>1. IsFiniteSet(Unawaited)
      <4>1. joined + 2 \in Int /\ Len(batch) \in Int
        BY BatchShape DEF TypeOK
      <4>2. IsFiniteSet((joined + 2)..Len(batch))
        BY <4>1, FS_Interval
      <4> QED BY <4>2, FS_Subset DEF Unawaited
    <3> QED BY <2>2, <3>1, FS_CardinalityType DEF JoinFails, TypeOK
  <2> QED BY <2>1, <2>2
<1>3. faults' \in 0..MaxFaults
  BY FaultType DEF L1HeadFails, JoinFails, TypeOK
<1>4. TypeOK'
  BY <1>1, <1>2, <1>3, ReturnType DEF TypeOK, environment
<1>5. Reached = latest_l2
  BY ReachedShape DEF L1HeadFails, JoinFails
<1> QED BY <1>1, <1>4, <1>5, ReturnIInv DEF StoredInv

-----------------------------------------------------------------------------
(* The commits. *)
LEMMA CommitStoreIInv ==
  ASSUME IInv, CommitStore
  PROVE  IInv'
<1> USE DEF IInv
<1> DEFINE m == Claim(committed + 1)
<1>1. committed + 1 \in 1..Len(batch)
  BY BatchShape DEF CommitStore, BatchInv, TypeOK
<1>2. /\ m.agreed = Reached /\ m.claimed = Reached + Distance
      /\ m \in [agreed : Nat, claimed : Nat, l1_head : L1Blocks]
      /\ m.l1_head = l1_head
  BY <1>1, BatchShape, ReachedShape DEF CommitStore, Claim, TypeOK
<1>3. Reached \in Nat /\ Distance \in Nat /\ Distance > 0
  BY ReachedShape, OptionsAssumption
<1>4. batch' = batch /\ Reached' = m.claimed
  BY <1>1 DEF CommitStore, locals, batch, Reached, Durable, Claim, TypeOK
<1>5. stored' = stored \cup {m} /\ pc = "commit" /\ pc' = "ack"
      /\ UNCHANGED <<sync, l1_head, committed, latest_l2>>
  BY DEF CommitStore, locals
<1>6. TypeOK'
  BY <1>2, <1>5 DEF TypeOK, CommitStore, locals, environment
<1>7. HeadInv' /\ BatchInv'
  BY <1>4, <1>5 DEF HeadInv, BatchInv, Collecting
<1>8. StoredInv'
  BY <1>2, <1>3, <1>4, <1>5 DEF StoredInv, TypeOK
<1>9. HeadCoversClaims'
  <2>1. m.claimed <= SafeL2[m.l1_head]
    BY <1>1, <1>2, <1>5, BatchShape DEF HeadCoversClaims, Claim
  <2> QED BY <1>4, <1>5, <2>1 DEF HeadCoversClaims
<1>10. NoOverlap'
  <2>1. \A n \in stored : n.claimed <= m.agreed
    BY <1>2 DEF StoredInv
  <2> QED BY <1>5, <2>1 DEF NoOverlap
<1> QED BY <1>6, <1>7, <1>8, <1>9, <1>10

LEMMA CommitAckIInv ==
  ASSUME IInv, CommitAck
  PROVE  IInv'
<1> USE DEF IInv
<1>1. /\ committed \in Nat /\ committed + 1 \in 1..Len(batch) /\ pc = "ack"
      /\ Len(batch) \in 0..MaxConcurrency
  BY BatchShape DEF CommitAck, BatchInv, TypeOK
<1>2. Reached = batch[committed + 1].end
  BY <1>1 DEF Reached, Durable
<1>3. CASE committed + 1 < Len(batch)
  <2>1. /\ pc' = "commit" /\ committed' = committed + 1
        /\ UNCHANGED <<stored, latest_l2, sync, l1_head, tasks, joined>>
    BY <1>3 DEF CommitAck
  <2>2. batch' = batch /\ Reached' = Reached
    BY <1>1, <1>2, <2>1 DEF batch, Reached, Durable
  <2>3. TypeOK'
    BY <1>1, <1>3, <2>1, OptionsAssumption DEF TypeOK, CommitAck, environment
  <2> QED BY <1>1, <1>3, <2>1, <2>2, <2>3 DEF HeadInv, BatchInv, StoredInv,
          HeadCoversClaims, NoOverlap, Collecting
<1>4. CASE ~(committed + 1 < Len(batch))
  <2>1. Len(batch) = committed + 1
    BY <1>1, <1>4
  <2>2. Return(Reached) /\ Reached \in Nat
    BY <1>2, <1>4, <2>1, ReachedShape DEF CommitAck
  <2>3. TypeOK'
    BY <2>2, ReturnType DEF TypeOK, CommitAck, environment
  <2>4. UNCHANGED stored
    BY DEF CommitAck
  <2> QED BY <2>2, <2>3, <2>4, ReturnIInv DEF StoredInv
<1> QED BY <1>3, <1>4

LEMMA CommitFailsIInv ==
  ASSUME IInv, CommitFails
  PROVE  IInv'
<1> USE DEF IInv
<1>1. ClaimedOnFailure = Reached
  BY DEF CommitFails, ClaimedOnFailure, Reached, Durable
<1>2. Return(Reached) /\ Reached \in Nat /\ UNCHANGED stored
  BY <1>1, ReachedShape DEF CommitFails
<1>3. TypeOK'
  BY <1>2, ReturnType, FaultType DEF TypeOK, CommitFails, environment
<1> QED BY <1>2, <1>3, ReturnIInv DEF StoredInv

(* A restart resumes above everything that is stored. *)
LEMMA RestartIInv ==
  ASSUME IInv, Restart
  PROVE  IInv'
<1> USE DEF IInv
<1>1. PICK claimed \in Nat : Return(claimed) /\ \A m \in stored : m.claimed <= claimed
  <2>1. CASE stored = {} /\ Return(InitialClaimed)
    BY <2>1, OptionsAssumption
  <2>2. CASE \E m \in stored : IsLatest(m) /\ Return(m.claimed)
    BY <2>2 DEF IsLatest, TypeOK
  <2> QED BY <2>1, <2>2 DEF Restart
<1>2. TypeOK'
  BY <1>1, ReturnType, FaultType DEF TypeOK, Restart, environment
<1> QED BY <1>1, <1>2, ReturnIInv DEF Restart

LEMMA NextIInv == IInv /\ [Next]_vars => IInv'
<1> SUFFICES ASSUME IInv, [Next]_vars PROVE IInv'
  OBVIOUS
<1>1. CASE NodeAdvances \/ BeaconAdvances \/ OrphanEnds
  BY <1>1, EnvironmentIInv
<1>2. CASE \E m \in stored : Expire(m)
  BY <1>2, ExpireIInv
<1>3. CASE Collect
  BY <1>3, SyncStatusIInv, WaitIInv, AskIInv, L1HeadFoundIInv, SpawnIInv, JoinOkIInv, AbandonIInv,
     CommitStoreIInv, CommitAckIInv DEF Collect
<1>4. CASE CollectFails
  BY <1>4, WaitIInv, AskIInv, AbandonIInv, SpawnIInv, CommitFailsIInv DEF CollectFails
<1>5. CASE \E i \in 1..MaxConcurrency : TaskStep(i) \/ TaskFails(i)
  BY <1>5, TaskIInv
<1>6. CASE Restart
  BY <1>6, RestartIInv
<1>7. CASE UNCHANGED vars
  <2>1. TypeOK' /\ UNCHANGED <<stored, pc, latest_l2, sync, l1_head, committed>>
    BY <1>7 DEF vars, environment, locals, IInv, TypeOK
  <2> QED BY <2>1, FrameIInv
<1> QED BY <1>1, <1>2, <1>3, <1>4, <1>5, <1>6, <1>7 DEF Next

LEMMA Inductive == Spec => []IInv
BY InitIInv, NextIInv, PTL DEF Spec

-----------------------------------------------------------------------------
(* The collector implements ClaimChain: storing a preimage extends the chain,
   the purger's removals drop from it, a restart resumes it, and no other step
   moves the point it has reached. *)
LEMMA StillChain ==
  ASSUME UNCHANGED <<stored, pc, latest_l2, sync, committed>>
  PROVE  UNCHANGED <<Reached, stored>>
BY DEF Reached, Durable, batch

LEMMA ReturnChain ==
  ASSUME Return(Reached), UNCHANGED stored
  PROVE  UNCHANGED <<Reached, stored>>
BY DEF Return, Reached, Durable

(* Every step but storing, expiring and restarting. *)
Steady ==
  \/ NodeAdvances \/ BeaconAdvances
  \/ SyncStatus \/ NothingToCollect \/ SyncStatusFails
  \/ BeaconAnswers \/ L1HeadFound \/ L1HeadDelayed \/ L1HeadRetry \/ L1HeadFails
  \/ SaveL1 \/ SaveL1Fails
  \/ \E i \in 1..MaxConcurrency : TaskStep(i) \/ TaskFails(i)
  \/ JoinOk \/ JoinFails \/ OrphanEnds
  \/ CommitAck \/ CommitFails

LEMMA SteadyReached ==
  ASSUME IInv, Steady \/ UNCHANGED vars
  PROVE  UNCHANGED <<Reached, stored>>
<1>1. CASE NodeAdvances \/ BeaconAdvances \/ OrphanEnds \/ NothingToCollect
           \/ SyncStatusFails \/ UNCHANGED vars
  <2>1. UNCHANGED <<stored, pc, latest_l2, sync, committed>>
    BY <1>1 DEF NodeAdvances, BeaconAdvances, OrphanEnds, NothingToCollect, SyncStatusFails,
                vars, locals
  <2> QED BY <2>1, StillChain
<1>2. CASE \E i \in 1..MaxConcurrency : TaskStep(i) \/ TaskFails(i)
  BY <1>2, StillChain DEF TaskStep, TaskFails
<1>3. CASE SyncStatus \/ BeaconAnswers \/ L1HeadDelayed \/ L1HeadRetry \/ L1HeadFound
           \/ SaveL1 \/ SaveL1Fails \/ JoinOk
  <2>1. /\ pc \notin {"commit", "ack"} /\ pc' # "ack" /\ committed = 0
        /\ UNCHANGED <<stored, latest_l2, committed>>
    BY <1>3 DEF SyncStatus, BeaconAnswers, L1HeadDelayed, L1HeadRetry, AskAgain, L1HeadFound,
                SaveL1, SaveL1Fails, Spawn, JoinOk, IInv, BatchInv, locals
  <2> QED BY <2>1 DEF Reached, Durable
<1>4. CASE L1HeadFails \/ JoinFails
  <2>1. Reached = latest_l2
    BY <1>4, ReachedShape DEF IInv, L1HeadFails, JoinFails
  <2> QED BY <1>4, <2>1, ReturnChain DEF L1HeadFails, JoinFails
<1>5. CASE CommitAck
  <2>1. /\ committed \in Nat /\ committed + 1 \in 1..Len(batch) /\ pc = "ack"
        /\ Len(batch) \in Nat
    BY <1>5, BatchShape DEF IInv, CommitAck, BatchInv, TypeOK
  <2>2. Reached = batch[committed + 1].end
    BY <2>1 DEF Reached, Durable
  <2>3. CASE committed + 1 < Len(batch)
    <3>1. /\ pc' = "commit" /\ committed' = committed + 1
          /\ UNCHANGED <<stored, latest_l2, sync>>
      BY <1>5, <2>3 DEF CommitAck
    <3> QED BY <2>1, <2>2, <3>1 DEF batch, Reached, Durable
  <2>4. CASE ~(committed + 1 < Len(batch))
    <3>1. Len(batch) = committed + 1
      BY <2>1, <2>4
    <3> QED BY <1>5, <2>2, <2>4, <3>1, ReturnChain DEF CommitAck
  <2> QED BY <2>3, <2>4
<1>6. CASE CommitFails
  <2>1. ClaimedOnFailure = Reached
    BY <1>6 DEF CommitFails, ClaimedOnFailure, Reached, Durable
  <2> QED BY <1>6, <2>1, ReturnChain DEF CommitFails
<1> QED BY <1>1, <1>2, <1>3, <1>4, <1>5, <1>6 DEF Steady

(* The preimage that is about to be stored begins where the chain ends. *)
LEMMA NextClaim ==
  ASSUME IInv, pc = "commit"
  PROVE  /\ Claim(committed + 1) = [agreed |-> Reached, claimed |-> Reached + Distance,
                                    l1_head |-> l1_head]
         /\ Reached + Distance <= SafeL2[l1_head]
<1>1. committed + 1 \in 1..Len(batch)
  BY BatchShape DEF IInv, BatchInv, TypeOK
<1>2. /\ Claim(committed + 1) = [agreed |-> Reached, claimed |-> Reached + Distance,
                                 l1_head |-> l1_head]
      /\ Reached + Distance = batch[committed + 1].end
  BY <1>1, BatchShape, ReachedShape DEF IInv, Claim
<1> QED BY <1>1, <1>2, BatchShape DEF IInv, HeadCoversClaims

LEMMA StoreReached ==
  ASSUME IInv, CommitStore
  PROVE  /\ Reached' = Reached + Distance
         /\ stored' = stored \cup {Claim(committed + 1)}
         /\ Claim(committed + 1)' = Claim(committed + 1)
<1>1. committed + 1 \in 1..Len(batch) /\ committed \in Nat
  BY BatchShape DEF IInv, CommitStore, BatchInv, TypeOK
<1>2. UNCHANGED <<latest_l2, locals>> /\ pc = "commit" /\ pc' = "ack"
  BY DEF CommitStore
<1>3. Claim(committed + 1)' = Claim(committed + 1) /\ batch' = batch
  BY <1>2 DEF locals, Claim, batch
<1>4. Reached' = batch[committed + 1].end
  BY <1>1, <1>2, <1>3 DEF locals, Reached, Durable
<1>5. Reached + Distance = batch[committed + 1].end
  BY <1>1, <1>2, BatchShape, ReachedShape DEF IInv
<1> QED BY <1>3, <1>4, <1>5 DEF CommitStore

LEMMA ExpireReached ==
  ASSUME NEW m, Expire(m)
  PROVE  UNCHANGED Reached
BY DEF Expire, locals, Reached, Durable, batch

LEMMA RestartReached ==
  ASSUME Restart
  PROVE  /\ UNCHANGED stored
         /\ \/ stored = {} /\ Reached' = InitialClaimed
            \/ \E m \in stored : IsLatest(m) /\ Reached' = m.claimed
<1>1. \A claimed : Return(claimed) => Reached' = claimed
  BY DEF Return, Reached, Durable
<1> QED BY <1>1 DEF Restart

LEMMA NextChain == IInv /\ [Next]_vars => [Chain!Next]_(Chain!chainVars)
<1> SUFFICES ASSUME IInv, [Next]_vars
             PROVE  Chain!Next \/ UNCHANGED <<Reached, stored>>
  BY DEF Chain!chainVars
<1>1. CASE Steady \/ UNCHANGED vars
  BY <1>1, SteadyReached
<1>2. ASSUME NEW m \in stored, Expire(m)
      PROVE  Chain!Next
  BY <1>2, ExpireReached DEF Expire, Chain!Drop, Chain!Next
<1>3. CASE CommitStore
  <2>1. l1_head \in L1Blocks
    BY DEF IInv, TypeOK
  <2>2. Chain!Extend(l1_head)
    BY <1>3, NextClaim, StoreReached DEF CommitStore, Chain!Extend
  <2> QED BY <2>1, <2>2 DEF Chain!Next
<1>4. CASE Restart
  <2>1. Chain!Resume
    BY <1>4, RestartReached DEF IsLatest, Chain!IsLatest, Chain!Resume
  <2> QED BY <2>1 DEF Chain!Next
<1> QED BY <1>1, <1>2, <1>3, <1>4 DEF Next, Collect, CollectFails, Steady

LEMMA InitChain == Init => Chain!Init
BY DEF Init, Chain!Init, Reached, Durable

-----------------------------------------------------------------------------
(* Between two calls of collect nothing is left of the last search. *)
Asleep == pc = "sync" => sync = NoSync /\ l1_head = 0

LEMMA InitAsleep == Init => Asleep
BY DEF Init, Asleep

LEMMA NextAsleep == Asleep /\ [Next]_vars => Asleep'
<1> SUFFICES ASSUME Asleep, [Next]_vars PROVE Asleep'
  OBVIOUS
<1>1. CASE \E claimed : Return(claimed)
  BY <1>1 DEF Return, Asleep
<1>2. CASE pc' # "sync"
  BY <1>2 DEF Asleep
<1>3. CASE UNCHANGED <<pc, sync, l1_head>>
  BY <1>3 DEF Asleep
<1> QED BY <1>1, <1>2, <1>3
        DEF Next, Collect, CollectFails, vars, locals, NodeAdvances, BeaconAdvances, Expire,
            SyncStatus, NothingToCollect, SyncStatusFails, BeaconAnswers, L1HeadFound,
            L1HeadDelayed, L1HeadRetry, AskAgain, L1HeadFails, SaveL1, SaveL1Fails, Spawn,
            TaskStep, TaskFails, OrphanEnds, JoinOk, JoinFails, CommitStore, CommitAck,
            CommitFails, Restart

(* What leaves the search and the head alone. *)
LEMMA StillPicker ==
  ASSUME UNCHANGED <<beacon_l1, sync, l1_head>>,
         \/ UNCHANGED pc
         \/ {pc, pc'} \subseteq {"save_l1", "join", "commit", "ack"}
  PROVE  UNCHANGED Picker!pickerVars
BY DEF Picker!pickerVars

LEMMA ReturnPicker ==
  ASSUME Asleep, UNCHANGED beacon_l1, \E claimed : Return(claimed)
  PROVE  Picker!Next \/ UNCHANGED Picker!pickerVars
<1>1. CASE pc = "sync"
  BY <1>1 DEF Asleep, Return, Picker!pickerVars
<1>2. CASE pc # "sync"
  BY <1>2 DEF Return, NoSync, Picker!Next, Picker!Return
<1> QED BY <1>1, <1>2

LEMMA NextPicker == TypeOK /\ Asleep /\ [Next]_vars => [Picker!Next]_(Picker!pickerVars)
<1> SUFFICES ASSUME TypeOK, Asleep, [Next]_vars
             PROVE  Picker!Next \/ UNCHANGED Picker!pickerVars
  OBVIOUS
<1>1. CASE BeaconAdvances
  <2>1. beacon_l1' > beacon_l1 /\ UNCHANGED <<pc, sync, l1_head>>
    BY <1>1 DEF BeaconAdvances, TypeOK, L1Blocks, locals
  <2> QED BY <2>1 DEF Picker!Next, Picker!BeaconAdvances
<1>2. CASE SyncStatus
  <2>1. sync'.l1 \in Nat
    BY <1>2 DEF SyncStatus, NodeStatus, TypeOK, L1Blocks
  <2> QED BY <1>2, <2>1 DEF SyncStatus, environment, Picker!Next, Picker!SyncStatus
<1>3. CASE BeaconAnswers
  BY <1>3 DEF BeaconAnswers, environment, Picker!Next, Picker!BeaconAnswers
<1>4. CASE L1HeadFound
  BY <1>4 DEF L1HeadFound, HeadIsCurrent, environment, locals, Picker!Next, Picker!L1HeadFound
<1>5. CASE L1HeadDelayed \/ L1HeadRetry
  BY <1>5 DEF L1HeadDelayed, L1HeadRetry, AskAgain, environment, Picker!Next, Picker!AskAgain
<1>6. CASE \/ NodeAdvances \/ OrphanEnds \/ NothingToCollect \/ SyncStatusFails
           \/ UNCHANGED vars
           \/ \E m \in stored : Expire(m)
           \/ \E i \in 1..MaxConcurrency : TaskStep(i) \/ TaskFails(i)
  <2>1. UNCHANGED <<beacon_l1, sync, l1_head, pc>>
    BY <1>6 DEF NodeAdvances, OrphanEnds, NothingToCollect, SyncStatusFails, Expire, TaskStep,
                TaskFails, vars, environment, locals
  <2> QED BY <2>1, StillPicker
<1>7. CASE SaveL1 \/ SaveL1Fails \/ JoinOk \/ CommitStore
           \/ (CommitAck /\ committed + 1 < Len(batch))
  <2>1. /\ UNCHANGED <<beacon_l1, sync, l1_head>>
        /\ {pc, pc'} \subseteq {"save_l1", "join", "commit", "ack"}
    BY <1>7 DEF SaveL1, SaveL1Fails, Spawn, JoinOk, CommitStore, CommitAck, environment, locals
  <2> QED BY <2>1, StillPicker
<1>8. CASE L1HeadFails \/ JoinFails \/ CommitFails \/ Restart
           \/ (CommitAck /\ ~(committed + 1 < Len(batch)))
  BY <1>8, ReturnPicker DEF L1HeadFails, JoinFails, CommitFails, Restart, CommitAck, environment
<1> QED BY <1>1, <1>2, <1>3, <1>4, <1>5, <1>6, <1>7, <1>8 DEF Next, Collect, CollectFails

LEMMA InitPicker == Init => Picker!Init
BY DEF Init, NoSync, Picker!Init
-----------------------------------------------------------------------------
(* The variables keep their types. *)
THEOREM TypeCorrect == Spec => []TypeOK
BY Inductive, PTL DEF IInv

(* The L1 head of a preimage always covers the block it claims, although it is
   read after the sync status that bounds the batch and from another node. *)
THEOREM HeadCovers == Spec => []HeadCoversClaims
BY Inductive, PTL DEF IInv

(* No block is claimed by two stored preimages, across failures, purges and
   restarts. *)
THEOREM Disjoint == Spec => []NoOverlap
BY Inductive, PTL DEF IInv

(* The collector refines the chain of claims. *)
THEOREM Refinement == Spec => ImplementsChain
<1>1. Spec => Chain!Init /\ [][Chain!Next]_(Chain!chainVars)
  BY InitChain, Inductive, NextChain, PTL DEF Spec
<1> QED BY <1>1, PTL DEF ImplementsChain, Chain!Spec

(* The collector searches its L1 head the way HeadPicker says. *)
THEOREM PickerRefinement == Spec => ImplementsPicker
<1>1. IInv => TypeOK
  BY DEF IInv
<1>2. Spec => Picker!Init /\ [][Picker!Next]_(Picker!pickerVars)
  BY <1>1, InitPicker, InitAsleep, NextAsleep, Inductive, NextPicker, PTL DEF Spec
<1> QED BY <1>2, PTL DEF ImplementsPicker, Picker!Spec
=============================================================================
