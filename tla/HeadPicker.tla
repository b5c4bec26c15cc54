----------------------------- MODULE HeadPicker -----------------------------
(***************************************************************************)
(* What the collector relies on when it asks for an L1 head: it gets one   *)
(* that the beacon node held for final at some point of the search, and    *)
(* that is not behind the L1 block of the sync status.  Collector has the  *)
(* same steps; L1Head is the loop of the code and implements them.         *)
(***************************************************************************)
EXTENDS Integers

VARIABLES
  beacon_l1,  \* the finalized L1 block of the beacon node
  sync_l1,    \* the finalized L1 block of the sync status
  pc,         \* "sync" | "l1_head" | "l1_check" | "save_l1"
  l1_head     \* the answer of the beacon node, then the head that was chosen

pickerVars == <<beacon_l1, sync_l1, pc, l1_head>>

Init == beacon_l1 \in Nat /\ sync_l1 = 0 /\ pc = "sync" /\ l1_head = 0

BeaconAdvances == beacon_l1' > beacon_l1 /\ UNCHANGED <<sync_l1, pc, l1_head>>

SyncStatus ==
  /\ pc = "sync"
  /\ pc' = "l1_head"
  /\ sync_l1' \in Nat
  /\ UNCHANGED <<beacon_l1, l1_head>>

BeaconAnswers ==
  /\ pc = "l1_head"
  /\ pc' = "l1_check"
  /\ l1_head' = beacon_l1
  /\ UNCHANGED <<beacon_l1, sync_l1>>

AskAgain ==
  /\ pc = "l1_check"
  /\ pc' = "l1_head"
  /\ l1_head' = 0
  /\ UNCHANGED <<beacon_l1, sync_l1>>

L1HeadFound ==
  /\ pc = "l1_check"
  /\ l1_head >= sync_l1
  /\ pc' = "save_l1"
  /\ UNCHANGED <<beacon_l1, sync_l1, l1_head>>

(* The search failed, or its result was used: collect returns. *)
Return ==
  /\ pc # "sync"
  /\ pc' = "sync"
  /\ sync_l1' = 0 /\ l1_head' = 0
  /\ UNCHANGED beacon_l1

Next ==
  BeaconAdvances \/ SyncStatus \/ BeaconAnswers \/ AskAgain \/ L1HeadFound \/ Return

Spec == Init /\ [][Next]_pickerVars
=============================================================================
