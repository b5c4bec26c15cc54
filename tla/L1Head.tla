------------------------------- MODULE L1Head -------------------------------
(***************************************************************************)
(* The loop of get_l1_head_and_finalized_data (server/src/collector.rs):   *)
(* get a finality update and then the light client update of its period    *)
(* from a beacon node that moves on in between, and ask again until the    *)
(* two agree with each other and with the sync status.                     *)
(*                                                                         *)
(* A beacon slot stands for the execution block finalized with it: both    *)
(* only grow, and eth_getBlockByHash maps one to the other.  Slots are     *)
(* counted from 0; the node's chain is modelled from what the code reads.  *)
(***************************************************************************)
EXTENDS Integers

CONSTANTS
  SlotsPerEpoch, EpochsPerPeriod,  \* the preset of client/period.rs
  Validators,        \* the size of the sync committee
  Participations,    \* the numbers of participants a finality update can have
  MaxDelay,   \* external: the slots a signature is ahead of the finalized slot
  MaxSlot,    \* bound: the last signature slot of a run
  MaxFaults   \* bound: failed calls and insufficient signatures in a run

ASSUME PresetAssumption == SlotsPerEpoch \in Nat \ {0} /\ EpochsPerPeriod \in Nat \ {0}
ASSUME CommitteeAssumption == Validators \in Nat /\ Participations \subseteq 0..Validators
ASSUME BoundsAssumption ==
  MaxDelay \in Nat /\ MaxSlot \in Nat \ {0} /\ MaxFaults \in Nat

VARIABLES
  finality,  \* the beacon node: its latest finality update
  best,      \* best[p]: the finalized slot of its light client update of period p
  pc,        \* "idle" | "finality" | "update" | "number" | "found"
  sync_l1,   \* the finalized L1 block of the sync status
  finality_update, light_client_update,  \* what the node answered
  began,     \* history: the period of the chain when the search began
  rounds,    \* attempts that ended since the chain last advanced, up to 2
  faults

node == <<finality, best>>
answers == <<finality_update, light_client_update>>
vars == <<node, pc, sync_l1, answers, began, rounds, faults>>

Slots == 0..MaxSlot

(* client/period.rs *)
ComputeEpoch(slot) == slot \div SlotsPerEpoch
ComputePeriod(slot) == ComputeEpoch(slot) \div EpochsPerPeriod

Periods == {ComputePeriod(slot) : slot \in Slots}

FinalityUpdate == [finalized : Slots, signature : Slots, participants : 0..Validators]
NoFinality == [finalized |-> 0, signature |-> 0, participants |-> 0]
NoUpdate == -1

TypeOK ==
  /\ finality \in FinalityUpdate
  /\ best \in [Periods -> Slots \cup {NoUpdate}]
  /\ pc \in {"idle", "finality", "update", "number", "found"}
  /\ sync_l1 \in Nat
  /\ finality_update \in FinalityUpdate
  /\ light_client_update \in Slots
  /\ began \in Periods
  /\ rounds \in 0..2
  /\ faults \in 0..MaxFaults

Init ==
  /\ finality = [finalized |-> 0, signature |-> 1, participants |-> Validators]
  /\ best = [p \in Periods |-> IF p = 0 THEN 0 ELSE NoUpdate]
  /\ pc = "idle"
  /\ sync_l1 = 0
  /\ finality_update = NoFinality /\ light_client_update = 0
  /\ began = 0 /\ rounds = 0
  /\ faults = 0

Fault == faults < MaxFaults /\ faults' = faults + 1

(* SyncAggregate::is_insufficient_participation, a trust level of 2/3. *)
InsufficientParticipation(participants) == participants * 3 < Validators * 2
-----------------------------------------------------------------------------
(* The beacon node signs the next slots, finalizes the next epoch or not, and
   keeps or replaces its light client update of the current period.  Assumed of
   the time scale: the loop, which asks every 10 seconds, gets through a whole
   attempt between two of these steps, which are epochs apart. *)
BeaconAdvances ==
  /\ pc \in {"idle", "found"} \/ rounds = 2
  /\ \E f \in {finality.finalized, finality.finalized + SlotsPerEpoch},
        s \in 1..SlotsPerEpoch, n \in Participations :
       LET signature == finality.signature + s IN
       /\ f < signature /\ signature <= f + MaxDelay /\ signature <= MaxSlot
       /\ finality' = [finalized |-> f, signature |-> signature, participants |-> n]
       /\ best' \in {best, [best EXCEPT ![ComputePeriod(signature)] = f]}
       /\ IF InsufficientParticipation(n) THEN Fault ELSE UNCHANGED faults
  /\ rounds' = 0
  /\ UNCHANGED <<pc, sync_l1, answers, began>>

(* collect has a batch.  The rollup node is at most an epoch ahead. *)
Search ==
  /\ pc = "idle"
  /\ pc' = "finality"
  /\ sync_l1' \in {finality.finalized, finality.finalized + SlotsPerEpoch}
  /\ began' = ComputePeriod(finality.signature)
  /\ UNCHANGED <<node, answers, rounds, faults>>
-----------------------------------------------------------------------------
Forget ==
  /\ finality_update' = NoFinality
  /\ light_client_update' = 0

Return ==
  /\ pc' = "idle"
  /\ sync_l1' = 0
  /\ Forget
  /\ UNCHANGED <<node, began, rounds>>

(* Bug: only the light client update is asked for again. *)
BugAskAgain ==
  /\ pc' = "update"
  /\ rounds' = IF rounds = 2 THEN 2 ELSE rounds + 1
  /\ UNCHANGED <<node, sync_l1, answers, began>>

(* Sleep and continue. *)
AskAgain ==
  /\ pc' = "finality"
  /\ Forget
  /\ rounds' = IF rounds = 2 THEN 2 ELSE rounds + 1
  /\ UNCHANGED <<node, sync_l1, began>>

GetFinalityUpdate ==
  /\ pc = "finality"
  /\ pc' = "update"
  /\ finality_update' = finality
  /\ UNCHANGED <<node, sync_l1, light_client_update, began, rounds, faults>>

(* get_finalized_l1_data asks for the update of the finalized slot's period. *)
FinalizedPeriod == ComputePeriod(finality_update.finalized)
Update == best[FinalizedPeriod]

BugHasUpdate == TRUE  \* Bug: the first element of an empty array is taken

HasUpdate == Update # NoUpdate

SlotsInOrder == Update <= finality_update.finalized

BugSamePeriod == TRUE  \* Bug: the signature may be of the next period

SamePeriod == ComputePeriod(finality_update.signature) = FinalizedPeriod

GetLightClientUpdate ==
  /\ pc = "update"
  /\ HasUpdate
  /\ SlotsInOrder
  /\ SamePeriod
  /\ pc' = "number"
  /\ light_client_update' = Update
  /\ UNCHANGED <<node, sync_l1, finality_update, began, rounds, faults>>

Mismatch ==
  /\ pc = "update"
  /\ HasUpdate
  /\ ~(SlotsInOrder /\ SamePeriod)
  /\ AskAgain
  /\ UNCHANGED faults

(* No answer, another status than 200, or JSON that does not parse; or no update
   of the period yet, an empty array.  The search ends. *)
FinalityUpdateFails == pc = "finality" /\ Fault /\ Return

LightClientUpdateFails ==
  /\ pc = "update"
  /\ Fault \/ (~HasUpdate /\ UNCHANGED faults)
  /\ Return

BeaconFails == FinalityUpdateFails \/ LightClientUpdateFails

(* get_block_by_hash, and what is compared with its answer. *)
BugRecent == TRUE  \* Bug: the sync status is not looked at

Recent == finality_update.finalized >= sync_l1
Signed == ~InsufficientParticipation(finality_update.participants)

Found ==
  /\ pc = "number"
  /\ Recent
  /\ Signed
  /\ pc' = "found"
  /\ UNCHANGED <<node, sync_l1, answers, began, rounds, faults>>

Delayed ==
  /\ pc = "number"
  /\ ~(Recent /\ Signed)
  /\ AskAgain
  /\ UNCHANGED faults

(* No answer, a JSON-RPC error, or a node that does not have the block yet. *)
L1Fails ==
  /\ pc = "number"
  /\ Fault
  /\ AskAgain

(* The collector saves the data, derives its batch and returns. *)
Used == pc = "found" /\ Return /\ UNCHANGED faults

Next ==
  \/ BeaconAdvances
  \/ Search \/ GetFinalityUpdate \/ GetLightClientUpdate \/ Mismatch
  \/ BeaconFails \/ Found \/ Delayed \/ L1Fails \/ Used

Spec == Init /\ [][Next]_vars
-----------------------------------------------------------------------------
(* The two updates saved with a head fit together although the chain advanced
   between the calls: both are signed by the sync committee of the period they
   are saved under, and a light client that applies the one and then the other
   never goes back. *)
SavedPairFits ==
  pc = "found" =>
    /\ light_client_update <= finality_update.finalized
    /\ ComputePeriod(finality_update.signature) = ComputePeriod(finality_update.finalized)
    /\ sync_l1 <= finality_update.finalized

(* However long the loop retries, a search waits out at most one boundary of
   sync committee periods, as long as no call fails and the committee signs:
   the chain is at most in the period after the one in which it began. *)
OneBoundary ==
  faults = 0 /\ pc \in {"finality", "update", "number"} =>
    ComputePeriod(finality.finalized) <= began + 1

PickerPc == [idle |-> "sync", finality |-> "l1_head", update |-> "l1_check",
             number |-> "l1_check", found |-> "save_l1"]

Picker == INSTANCE HeadPicker
            WITH beacon_l1 <- finality.finalized,
                 pc <- PickerPc[pc],
                 l1_head <- finality_update.finalized

(* The loop is what Collector takes it for: its head was final for the beacon
   node when the attempt began, and is not behind the sync status. *)
ImplementsPicker == Picker!Spec
=============================================================================
