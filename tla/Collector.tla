------------------------------ MODULE Collector ------------------------------
(***************************************************************************)
(* The collector task (server/src/collector.rs): poll the rollup node,     *)
(* choose an L1 head, derive a batch of ranges in parallel, and store the  *)
(* preimages in order.  Every `await` separates two steps; around it the   *)
(* rollup node and the beacon node advance independently, the purger drops *)
(* preimages, calls fail and the process restarts.                         *)
(*                                                                         *)
(* Finalized L1 blocks do not reorganise, so a hash is identified with its *)
(* number.  The loop that picks the L1 head is reduced to the steps of     *)
(* HeadPicker; L1Head models the loop in full.                             *)
(***************************************************************************)
EXTENDS BatchRanges, FiniteSets

CONSTANTS
  Distance, MaxConcurrency, InitialClaimed,  \* the options of the collector
  MaxL1,      \* bound: the last L1 block
  SafeL2,     \* SafeL2[n]: the last L2 block derivable from L1 up to block n
  MaxFaults   \* bound: failed calls and restarts in a run

L1Blocks == 0..MaxL1

ASSUME OptionsAssumption ==
  Distance \in Nat \ {0} /\ MaxConcurrency \in Nat /\ InitialClaimed \in Nat
ASSUME BoundsAssumption == MaxL1 \in Nat /\ MaxFaults \in Nat
ASSUME SafeL2Assumption ==
  /\ SafeL2 \in [L1Blocks -> Nat]
  /\ \A a, b \in L1Blocks : a <= b => SafeL2[a] <= SafeL2[b]

VARIABLES
  node_l1,    \* the finalized L1 block of the rollup node (optimism_syncStatus)
  beacon_l1,  \* the finalized L1 block of the beacon node
  stored,     \* the preimage repository: the stored metadata
  finalized_l1,  \* the heads saved in the finalized L1 repository
  pc,         \* where the collector is: see TypeOK
  latest_l2,
  sync,       \* sync_status as collect read it
  l1_head,    \* the head chosen for the batch
  tasks,      \* tasks[i]: the task that derives the i-th range
  joined,     \* tasks awaited successfully
  committed,  \* upserts that returned Ok
  orphans,    \* tasks still running whose JoinHandle was dropped
  faults

environment == <<node_l1, beacon_l1>>
locals == <<sync, l1_head, tasks, joined, committed>>
vars == <<environment, stored, finalized_l1, pc, latest_l2, locals, orphans, faults>>

NoSync == [l1 |-> 0, l2 |-> 0]
NoTasks == [i \in 1..MaxConcurrency |-> "none"]
Running == {"roots", "drive"}

TypeOK ==
  /\ node_l1 \in L1Blocks /\ beacon_l1 \in L1Blocks
  /\ stored \subseteq [agreed : Nat, claimed : Nat, l1_head : L1Blocks]
  /\ finalized_l1 \subseteq L1Blocks
  /\ pc \in {"sync", "l1_head", "l1_check", "save_l1", "join", "commit", "ack"}
  /\ latest_l2 \in Nat
  /\ sync \in [l1 : L1Blocks, l2 : Nat]
  /\ l1_head \in L1Blocks
  /\ tasks \in [1..MaxConcurrency -> {"none", "roots", "drive", "ok", "err"}]
  /\ joined \in 0..MaxConcurrency /\ committed \in 0..MaxConcurrency
  /\ orphans \in Nat
  /\ faults \in 0..MaxFaults

Init ==
  /\ node_l1 = 0 /\ beacon_l1 = 0
  /\ stored = {} /\ finalized_l1 = {}
  /\ pc = "sync"
  /\ latest_l2 = InitialClaimed
  /\ sync = NoSync /\ l1_head = 0
  /\ tasks = NoTasks /\ joined = 0 /\ committed = 0
  /\ orphans = 0
  /\ faults = 0

Fault == faults < MaxFaults /\ faults' = faults + 1

(* The batch is a local computed from the two others before the first await
   that follows them, and none of the three changes until collect returns. *)
batch == Batch(latest_l2, sync.l2, Distance, MaxConcurrency)

(* Bug: a range too early, from the end of the one before the last. *)
BugClaim(i) ==
  [agreed |-> batch[i].start - Distance, claimed |-> batch[i].end, l1_head |-> l1_head]

Claim(i) ==
  [agreed |-> batch[i].start, claimed |-> batch[i].end, l1_head |-> l1_head]

(* collect returns to the loop of start, which sleeps and calls it again. *)
Return(claimed) ==
  /\ pc' = "sync"
  /\ latest_l2' = claimed
  /\ sync' = NoSync /\ l1_head' = 0
  /\ tasks' = NoTasks /\ joined' = 0 /\ committed' = 0
-----------------------------------------------------------------------------
(* The environment. *)
NodeAdvances ==
  /\ node_l1 < MaxL1
  /\ node_l1' = node_l1 + 1
  /\ UNCHANGED <<beacon_l1, stored, finalized_l1, pc, latest_l2, locals, orphans, faults>>

BeaconAdvances ==
  /\ beacon_l1 < MaxL1
  /\ beacon_l1' = beacon_l1 + 1
  /\ UNCHANGED <<node_l1, stored, finalized_l1, pc, latest_l2, locals, orphans, faults>>

(* purge_expired removes files in the order of the directory, so any of them. *)
Expire(m) ==
  /\ m \in stored
  /\ stored' = stored \ {m}
  /\ UNCHANGED <<environment, finalized_l1, pc, latest_l2, locals, orphans, faults>>
-----------------------------------------------------------------------------
(* collect: the sync status decides whether there is a batch to derive. *)
BatchOf(status) == Batch(latest_l2, status.l2, Distance, MaxConcurrency)

NodeStatus == [l1 |-> node_l1, l2 |-> SafeL2[node_l1]]

(* Bug: wait until a batch of max_concurrency ranges fits. *)
BugWorthwhile == Len(BatchOf(NodeStatus)) = MaxConcurrency

Worthwhile == NodeStatus.l2 > latest_l2 /\ BatchOf(NodeStatus) # <<>>

SyncStatus ==
  /\ pc = "sync"
  /\ Worthwhile
  /\ pc' = "l1_head"
  /\ sync' = NodeStatus
  /\ UNCHANGED <<environment, stored, finalized_l1, latest_l2, l1_head, tasks, joined,
                 committed, orphans, faults>>

NothingToCollect == pc = "sync" /\ ~Worthwhile /\ UNCHANGED vars

SyncStatusFails ==
  /\ pc = "sync"
  /\ Fault
  /\ UNCHANGED <<environment, stored, finalized_l1, pc, latest_l2, locals, orphans>>

(* get_l1_head_and_finalized_data: what the beacon node answers is compared, one
   L1 call later, with the sync status of before. *)
BeaconAnswers ==
  /\ pc = "l1_head"
  /\ pc' = "l1_check"
  /\ l1_head' = beacon_l1
  /\ UNCHANGED <<environment, stored, finalized_l1, latest_l2, sync, tasks, joined,
                 committed, orphans, faults>>

BugHeadIsCurrent == TRUE  \* Bug: whatever the beacon node has is taken

HeadIsCurrent == l1_head >= sync.l1

L1HeadFound ==
  /\ pc = "l1_check"
  /\ HeadIsCurrent
  /\ pc' = "save_l1"
  /\ UNCHANGED <<environment, stored, finalized_l1, latest_l2, locals, orphans, faults>>

AskAgain == pc = "l1_check" /\ pc' = "l1_head" /\ l1_head' = 0

L1HeadDelayed ==
  /\ AskAgain
  /\ ~HeadIsCurrent
  /\ UNCHANGED <<environment, stored, finalized_l1, latest_l2, sync, tasks, joined,
                 committed, orphans, faults>>

(* Slot or period mismatch, low participation, or no answer from L1. *)
L1HeadRetry ==
  /\ AskAgain
  /\ Fault
  /\ UNCHANGED <<environment, stored, finalized_l1, latest_l2, sync, tasks, joined,
                 committed, orphans>>

(* No answer from the beacon node to one of its two calls: collect returns None. *)
L1HeadFails ==
  /\ pc \in {"l1_head", "l1_check"}
  /\ Fault
  /\ Return(latest_l2)
  /\ UNCHANGED <<environment, stored, finalized_l1, orphans>>

(* The data of the head is saved, or failing to is only logged; either way the
   tasks are spawned before the collector suspends again. *)
Spawn ==
  /\ pc' = "join"
  /\ tasks' = [i \in 1..MaxConcurrency |-> IF i \in DOMAIN batch THEN "roots" ELSE "none"]
  /\ UNCHANGED <<environment, stored, latest_l2, sync, l1_head, joined, committed, orphans>>

SaveL1 ==
  /\ pc = "save_l1"
  /\ finalized_l1' = finalized_l1 \cup {l1_head}
  /\ Spawn
  /\ UNCHANGED faults

SaveL1Fails ==
  /\ pc = "save_l1"
  /\ Fault
  /\ Spawn
  /\ UNCHANGED finalized_l1
-----------------------------------------------------------------------------
(* The spawned tasks: two output_root_at calls, then the derivation. *)
TaskStep(i) ==
  /\ tasks[i] \in Running
  /\ tasks' = [tasks EXCEPT ![i] = IF @ = "roots" THEN "drive" ELSE "ok"]
  /\ UNCHANGED <<environment, stored, finalized_l1, pc, latest_l2, sync, l1_head, joined,
                 committed, orphans, faults>>

TaskFails(i) ==
  /\ tasks[i] \in Running
  /\ Fault
  /\ tasks' = [tasks EXCEPT ![i] = "err"]
  /\ UNCHANGED <<environment, stored, finalized_l1, pc, latest_l2, sync, l1_head, joined,
                 committed, orphans>>

(* A task whose handle was dropped runs on to an end nobody looks at. *)
OrphanEnds ==
  /\ orphans > 0
  /\ orphans' = orphans - 1
  /\ UNCHANGED <<environment, stored, finalized_l1, pc, latest_l2, locals, faults>>

(* parallel_collect awaits the tasks in the order of the ranges. *)
JoinOk ==
  /\ pc = "join"
  /\ joined < Len(batch)
  /\ tasks[joined + 1] = "ok"
  /\ joined' = joined + 1
  /\ pc' = IF joined' = Len(batch) THEN "commit" ELSE "join"
  /\ UNCHANGED <<environment, stored, finalized_l1, latest_l2, sync, l1_head, tasks,
                 committed, orphans, faults>>

(* The first failed task ends the batch; later tasks are not aborted. *)
Unawaited == {i \in (joined + 2)..Len(batch) : tasks[i] \in Running}

JoinFails ==
  /\ pc = "join"
  /\ joined < Len(batch)
  /\ tasks[joined + 1] = "err"
  /\ orphans' = orphans + Cardinality(Unawaited)
  /\ Return(latest_l2)
  /\ UNCHANGED <<environment, stored, finalized_l1, faults>>
-----------------------------------------------------------------------------
(* commit_batch, in ascending order of `claimed`, which is that of the batch.
   An upsert makes its preimage durable and then returns. *)
CommitStore ==
  /\ pc = "commit"
  /\ pc' = "ack"
  /\ stored' = stored \cup {Claim(committed + 1)}
  /\ UNCHANGED <<environment, finalized_l1, latest_l2, locals, orphans, faults>>

CommitAck ==
  /\ pc = "ack"
  /\ IF committed + 1 < Len(batch)
       THEN /\ pc' = "commit"
            /\ committed' = committed + 1
            /\ UNCHANGED <<latest_l2, sync, l1_head, tasks, joined>>
       ELSE Return(batch[Len(batch)].end)
  /\ UNCHANGED <<environment, stored, finalized_l1, orphans, faults>>

(* Bug: the end of the batch is returned though its last upserts did not happen. *)
BugClaimedOnFailure == batch[Len(batch)].end

(* What commit_batch returns when the next upsert fails. *)
ClaimedOnFailure == IF committed = 0 THEN latest_l2 ELSE batch[committed].end

CommitFails ==
  /\ pc = "commit"
  /\ Fault
  /\ Return(ClaimedOnFailure)
  /\ UNCHANGED <<environment, stored, finalized_l1, orphans>>
-----------------------------------------------------------------------------
(* Bug: the set of metadata is not sorted before its last element is taken. *)
BugIsLatest(m) == m \in stored

(* latest_metadata after a restart: the highest claimed block of the files. *)
IsLatest(m) == m \in stored /\ \A n \in stored : n.claimed <= m.claimed

Restart ==
  /\ Fault
  /\ \/ stored = {} /\ Return(InitialClaimed)
     \/ \E m \in stored : IsLatest(m) /\ Return(m.claimed)
  /\ orphans' = 0
  /\ UNCHANGED <<environment, stored, finalized_l1>>

Collect ==
  SyncStatus \/ NothingToCollect \/ BeaconAnswers \/ L1HeadFound \/ L1HeadDelayed
  \/ SaveL1 \/ JoinOk \/ JoinFails \/ CommitStore \/ CommitAck

CollectFails == SyncStatusFails \/ L1HeadRetry \/ L1HeadFails \/ SaveL1Fails \/ CommitFails

Next ==
  \/ NodeAdvances \/ BeaconAdvances \/ \E m \in stored : Expire(m)
  \/ Collect \/ CollectFails
  \/ \E i \in 1..MaxConcurrency : TaskStep(i) \/ TaskFails(i)
  \/ OrphanEnds
  \/ Restart

Spec == Init /\ [][Next]_vars

(* The runtime polls the collector and each task; a derivation ends; the beacon
   node gets to every block the rollup node holds for final. *)
Fairness ==
  /\ WF_vars(Collect)
  /\ \A i \in 1..MaxConcurrency : WF_vars(TaskStep(i))
  /\ WF_vars(beacon_l1 < node_l1 /\ BeaconAdvances)

FairSpec == Spec /\ Fairness
-----------------------------------------------------------------------------
(* How far the stored preimages reach, upserts of the running batch included. *)
Durable == IF pc = "ack" THEN committed + 1 ELSE committed
Reached == IF Durable = 0 THEN latest_l2 ELSE batch[Durable].end

(* Every preimage, stored or being derived, claims a block that its L1 head is
   recent enough to derive: the head is chosen after the sync status that
   bounds the batch, from another node, and must not be behind it. *)
HeadCoversClaims ==
  /\ \A m \in stored : m.claimed <= SafeL2[m.l1_head]
  /\ pc \in {"save_l1", "join", "commit", "ack"} =>
       \A i \in DOMAIN batch : batch[i].end <= SafeL2[l1_head]

(* No two stored preimages cover the same block, whatever failed, was purged
   or restarted between the two upserts. *)
NoOverlap ==
  \A m, n \in stored : m # n => m.claimed <= n.agreed \/ n.claimed <= m.agreed

Chain == INSTANCE ClaimChain WITH reached <- Reached

(* The collector implements ClaimChain: each upsert extends the chain by exactly
   the next Distance blocks, a failed or detached task never stores anything,
   and a failure in the middle of a batch keeps what was stored before it. *)
ImplementsChain == Chain!Spec

Picker == INSTANCE HeadPicker
            WITH sync_l1 <- sync.l1,
                 pc <- IF pc \in {"sync", "l1_head", "l1_check"} THEN pc ELSE "save_l1"

(* The search for the L1 head is HeadPicker's, which L1Head implements: from one
   call of the beacon node to the end of the batch the head is one and the same,
   through retries, failures and restarts. *)
ImplementsPicker == Picker!Spec

(* Every block the rollup node finalizes is claimed in the end, up to the blocks
   that do not fill a whole distance yet. *)
Progress ==
  \A b \in 0..SafeL2[MaxL1] : SafeL2[node_l1] >= b ~> latest_l2 + Distance > b

(* "Max concurrency of preimage collector" (config.rs): the derivations that
   run at one time.  A batch that failed leaves its other tasks running. *)
RunningBounded ==
  orphans + Cardinality({i \in DOMAIN tasks : tasks[i] \in Running}) <= MaxConcurrency
=============================================================================
