-------------------------- MODULE PreimageMakerProofs --------------------------
(***************************************************************************)
(* The collector, the purger, the clock and restarts together: for every   *)
(* option, chain, TTL and bound, the young preimages are an unbroken chain,*)
(* a purge takes the oldest ones, and the repository keeps its contract.   *)
(*                                                                         *)
(* The invariant adds to the collector's what the parts owe each other:    *)
(* nothing that is stored, listed or being purged lies beyond the point    *)
(* the collector has reached (BelowReached), what claims later was written *)
(* later (AgeInv), and what the purge has taken for a target is older than *)
(* all that it leaves (PurgeInv).                                          *)
(***************************************************************************)
EXTENDS PreimageMaker, CollectorProofs

BelowReached == \A m \in stored \cup listed \cup purger.removed : m.claimed <= Reached

AgeInv == \A m, n \in stored : m.claimed <= n.claimed => since[m] <= since[n]

(* An upsert has not returned yet: its file is there, and young. *)
AckInv ==
  pc = "ack" => /\ Claim(committed + 1) \in stored
                /\ clock < since[Claim(committed + 1)] + Ttl

PurgeInv ==
  /\ purger.pc # "preimages" => purger.target = {}
  /\ purger.removed \cap stored = {}
  /\ \A m \in purger.target : clock >= since[m] + Ttl
  /\ \A m \in purger.target \cup purger.removed, n \in stored \ purger.target :
       m.claimed < n.claimed

OldOrRenewed(h) == purger.now >= saved_at[h] + Ttl \/ saved_at[h] >= purger.now

HeadsInv ==
  /\ purger.heads \cap purger.expired = {}
  /\ \A h \in purger.expired : OldOrRenewed(h)

MakerInv ==
  /\ MakerTypeOK /\ IInv
  /\ BelowReached /\ AgeInv /\ AckInv /\ PurgeInv /\ HeadsInv /\ FreshChain

-----------------------------------------------------------------------------
LEMMA MakerInitInv == MakerInit => MakerInv
<1> SUFFICES ASSUME MakerInit PROVE MakerInv
  OBVIOUS
<1>1. IInv
  BY InitIInv DEF MakerInit
<1>2. stored = {} /\ finalized_l1 = {} /\ pc = "sync" /\ since = <<>> /\ saved_at = <<>>
      /\ listed = {} /\ clock = 0 /\ purger = PurgerAsleep
  BY DEF MakerInit, Init
<1>3. MakerTypeOK
  <2>1. since \in [stored -> 0..clock] /\ saved_at \in [finalized_l1 -> 0..clock]
    BY <1>2
  <2> QED BY <1>1, <1>2, <2>1 DEF MakerTypeOK, PurgerAsleep, IInv
<1>4. BelowReached /\ AgeInv /\ AckInv /\ PurgeInv /\ HeadsInv /\ FreshChain
  BY <1>2 DEF BelowReached, AgeInv, AckInv, PurgeInv, HeadsInv, FreshChain, PurgerAsleep
<1> QED BY <1>1, <1>3, <1>4 DEF MakerInv

(* The composition's steps are the collector's, or leave what its invariant
   speaks of alone. *)
LEMMA MakerIInv == MakerInv /\ [MakerNext]_makerVars => IInv'
<1> SUFFICES ASSUME MakerInv, [MakerNext]_makerVars PROVE IInv'
  OBVIOUS
<1> USE DEF MakerInv
<1>1. CASE CollectorSaves \/ CollectorStores \/ CollectorLists \/ CollectorOther
           \/ MakerRestart \/ \E m \in stored : PurgeRemove(m)
  <2>1. Next
    BY <1>1 DEF CollectorSaves, CollectorStores, CollectorLists, CollectorOther, MakerRestart,
                PurgeRemove, Next, Collect, CollectFails
  <2> QED BY <2>1, NextIInv
<1>2. CASE Tick \/ PurgeBegin \/ PurgeUncache \/ UNCHANGED makerVars
           \/ \E h \in finalized_l1 : PurgeExamineHead(h)
  <2>1. UNCHANGED vars
    BY <1>2 DEF Tick, PurgeBegin, PurgeUncache, PurgeExamineHead, makerVars
  <2> QED BY <2>1, NextIInv
<1>3. CASE PurgeRemoveFails \/ PurgeEnd \/ \E h \in finalized_l1 : PurgeRemoveHead(h)
  <2>1. UNCHANGED <<environment, stored, pc, latest_l2, locals, orphans>>
    BY <1>3 DEF PurgeRemoveFails, PurgeEnd, PurgeRemoveHead
  <2>2. faults' \in 0..MaxFaults /\ finalized_l1' \subseteq finalized_l1
    BY <1>3, FaultType DEF PurgeRemoveFails, PurgeEnd, PurgeRemoveHead, IInv, TypeOK
  <2>3. TypeOK'
    BY <2>1, <2>2 DEF IInv, TypeOK, environment, locals
  <2> QED BY <2>1, <2>3, FrameIInv DEF locals
<1> QED BY <1>1, <1>2, <1>3 DEF MakerNext, Purge

(* The steps that keep the chain where it is. *)
LEMMA MakerSteady ==
  ASSUME MakerInv,
         \/ CollectorSaves \/ CollectorLists \/ CollectorOther
         \/ Tick \/ PurgeBegin \/ PurgeUncache \/ PurgeRemoveFails \/ PurgeEnd
         \/ \E h \in finalized_l1 : PurgeExamineHead(h) \/ PurgeRemoveHead(h)
         \/ UNCHANGED makerVars
  PROVE  /\ UNCHANGED <<Reached, stored, since>>
         /\ pc' = "ack" => pc = "ack" /\ UNCHANGED Claim(committed + 1)
<1> USE DEF MakerInv
<1>1. CASE CollectorSaves \/ CollectorLists \/ CollectorOther
  <2>1. Steady /\ UNCHANGED since
    BY <1>1 DEF CollectorSaves, CollectorLists, CollectorOther, Steady
  <2>2. ASSUME pc' = "ack"
        PROVE  pc = "ack" /\ UNCHANGED <<latest_l2, sync, l1_head, committed>>
    BY <2>1, <2>2 DEF Steady, NodeAdvances, BeaconAdvances, SyncStatus, NothingToCollect,
       SyncStatusFails, BeaconAnswers, L1HeadFound, L1HeadDelayed, L1HeadRetry, AskAgain,
       L1HeadFails, SaveL1, SaveL1Fails, Spawn, TaskStep, TaskFails, JoinOk, JoinFails,
       OrphanEnds, CommitAck, CommitFails, Return, vars, locals
  <2> QED BY <2>1, <2>2, SteadyReached DEF Claim, batch
<1>2. CASE \/ Tick \/ PurgeBegin \/ PurgeUncache \/ PurgeRemoveFails \/ PurgeEnd
           \/ \E h \in finalized_l1 : PurgeExamineHead(h) \/ PurgeRemoveHead(h)
           \/ UNCHANGED makerVars
  <2>1. UNCHANGED <<stored, since, pc, latest_l2, sync, l1_head, committed>>
    BY <1>2 DEF Tick, PurgeBegin, PurgeUncache, PurgeRemoveFails, PurgeEnd, PurgeExamineHead,
                PurgeRemoveHead, makerVars, vars, locals
  <2> QED BY <2>1, StillChain DEF Claim, batch
<1> QED BY <1>1, <1>2

(* Steps that leave the store, its ages and the clock alone, and list nothing. *)
LEMMA StoreFrame ==
  ASSUME MakerInv, UNCHANGED <<Reached, stored, since, clock>>, listed' \subseteq listed,
         pc' = "ack" => pc = "ack" /\ UNCHANGED Claim(committed + 1)
  PROVE  /\ purger'.removed \subseteq purger.removed => BelowReached'
         /\ AgeInv' /\ AckInv' /\ FreshChain'
BY DEF MakerInv, BelowReached, AgeInv, AckInv, FreshChain
-----------------------------------------------------------------------------
(* The collector. *)
LEMMA OtherMakerInv ==
  ASSUME MakerInv, CollectorOther \/ UNCHANGED makerVars, IInv'
  PROVE  MakerInv'
<1>1. UNCHANGED <<clock, since, listed, saved_at, purger, finalized_l1>>
  BY DEF CollectorOther, NodeAdvances, BeaconAdvances, SyncStatus, NothingToCollect,
     SyncStatusFails, BeaconAnswers, L1HeadFound, L1HeadDelayed, L1HeadRetry, AskAgain,
     L1HeadFails, SaveL1Fails, Spawn, TaskStep, TaskFails, JoinOk, JoinFails,
     OrphanEnds, CommitFails, makerVars, vars
<1>2. /\ UNCHANGED <<Reached, stored>>
      /\ pc' = "ack" => pc = "ack" /\ UNCHANGED Claim(committed + 1)
  BY MakerSteady
<1>3. MakerTypeOK' /\ PurgeInv' /\ HeadsInv'
  BY <1>1, <1>2 DEF MakerInv, IInv, MakerTypeOK, PurgeInv, HeadsInv, OldOrRenewed
<1> QED BY <1>1, <1>2, <1>3, StoreFrame DEF MakerInv

LEMMA SavesMakerInv ==
  ASSUME MakerInv, CollectorSaves, IInv'
  PROVE  MakerInv'
<1>1. /\ UNCHANGED <<clock, since, listed, purger>>
      /\ finalized_l1' = finalized_l1 \cup {l1_head}
      /\ saved_at' = [h \in finalized_l1' |-> IF h = l1_head THEN clock ELSE saved_at[h]]
  BY DEF CollectorSaves, SaveL1
<1>2. /\ UNCHANGED <<Reached, stored>>
      /\ pc' = "ack" => pc = "ack" /\ UNCHANGED Claim(committed + 1)
  BY MakerSteady
<1>3. MakerTypeOK'
  <2>1. saved_at' \in [finalized_l1' -> 0..clock']
    BY <1>1 DEF MakerInv, MakerTypeOK
  <2> QED BY <1>1, <1>2, <2>1 DEF MakerInv, IInv, MakerTypeOK
<1>4. HeadsInv'
  BY <1>1 DEF MakerInv, MakerTypeOK, HeadsInv, OldOrRenewed
<1>5. PurgeInv'
  BY <1>1, <1>2 DEF MakerInv, PurgeInv
<1> QED BY <1>1, <1>2, <1>3, <1>4, <1>5, StoreFrame DEF MakerInv

LEMMA ListsMakerInv ==
  ASSUME MakerInv, CollectorLists, IInv'
  PROVE  MakerInv'
<1>1. /\ UNCHANGED <<clock, since, saved_at, purger, finalized_l1>>
      /\ listed' = listed \cup {Claim(committed + 1)}
      /\ Claim(committed + 1) \in stored
  BY DEF CollectorLists, CommitAck, MakerInv, AckInv
<1>2. /\ UNCHANGED <<Reached, stored>>
      /\ pc' = "ack" => pc = "ack" /\ UNCHANGED Claim(committed + 1)
  BY MakerSteady
<1>3. MakerTypeOK' /\ PurgeInv' /\ HeadsInv'
  BY <1>1, <1>2 DEF MakerInv, IInv, MakerTypeOK, PurgeInv, HeadsInv, OldOrRenewed
<1>4. BelowReached' /\ AgeInv' /\ AckInv' /\ FreshChain'
  BY <1>1, <1>2 DEF MakerInv, BelowReached, AgeInv, AckInv, FreshChain
<1> QED BY <1>3, <1>4 DEF MakerInv

(* What an upsert is about to store is new to the store, the list and the purge:
   it claims what lies beyond the point that was reached. *)
LEMMA NewClaim ==
  ASSUME MakerInv, pc = "commit", NEW k, k = Claim(committed + 1)
  PROVE  /\ k \in Metadata
         /\ k.agreed = Reached /\ k.claimed = Reached + Distance /\ Reached \in Nat
         /\ k \notin stored \cup listed \cup purger.removed
<1> USE DEF MakerInv
<1>1. /\ k = [agreed |-> Reached, claimed |-> Reached + Distance, l1_head |-> l1_head]
      /\ Reached + Distance <= SafeL2[l1_head]
  BY NextClaim
<1>2. Reached \in Nat /\ Distance \in Nat /\ Distance > 0 /\ l1_head \in L1Blocks
  BY ReachedShape, OptionsAssumption DEF IInv, TypeOK
<1>3. SafeL2[l1_head] <= SafeL2[MaxL1] /\ SafeL2[l1_head] \in Nat /\ SafeL2[MaxL1] \in Nat
  BY <1>2, SafeL2Assumption, BoundsAssumption DEF L1Blocks
<1>4. k \in Metadata
  BY <1>1, <1>2, <1>3 DEF Metadata
<1>5. \A m \in stored \cup listed \cup purger.removed : m.claimed # k.claimed
  <2> TAKE m \in stored \cup listed \cup purger.removed
  <2>1. m.claimed <= Reached
    BY DEF BelowReached
  <2> QED BY <1>1, <1>2, <2>1
<1> QED BY <1>1, <1>2, <1>4, <1>5

LEMMA StoresMakerInv ==
  ASSUME MakerInv, CollectorStores, IInv'
  PROVE  MakerInv'
<1> USE DEF MakerInv
<1> DEFINE k == Claim(committed + 1)
<1>1. /\ pc = "commit" /\ pc' = "ack" /\ stored' = stored \cup {k}
      /\ since' = [m \in stored' |-> IF m \in stored THEN since[m] ELSE clock]
      /\ UNCHANGED <<clock, listed, saved_at, purger, finalized_l1>>
  BY DEF CollectorStores, CommitStore
<1>2. /\ k \in Metadata /\ k.agreed = Reached /\ k.claimed = Reached + Distance
      /\ Reached \in Nat /\ k \notin stored \cup listed \cup purger.removed
  BY <1>1, NewClaim
<1>3. Reached' = k.claimed /\ k' = k
  BY <1>2, StoreReached DEF CollectorStores
<1>4. Distance \in Nat /\ Distance > 0 /\ clock \in Nat /\ Ttl \in Nat /\ Ttl > 0
  BY OptionsAssumption, TimeAssumption DEF MakerTypeOK
<1>5. \A m \in stored : m.claimed \in Nat /\ since[m] \in 0..clock /\ since'[m] = since[m]
  BY <1>1 DEF MakerTypeOK, IInv, TypeOK
<1>6. since'[k] = clock
  BY <1>1, <1>2
<1> HIDE DEF k
<1>7. MakerTypeOK'
  <2>1. since' \in [stored' -> 0..clock']
    BY <1>1, <1>4, <1>5, <1>6
  <2> QED BY <1>1, <1>2, <2>1 DEF MakerTypeOK, IInv
<1>8. \A m \in stored \cup listed \cup purger.removed : m.claimed < k.claimed
  <2> TAKE m \in stored \cup listed \cup purger.removed
  <2>1. m.claimed <= Reached /\ m \in Metadata
    BY DEF BelowReached, MakerTypeOK
  <2> QED BY <1>2, <1>4, <2>1 DEF Metadata
<1>9. k.claimed \in Nat /\ \A m \in stored \cup listed \cup purger.removed : m.claimed \in Nat
  BY <1>2 DEF Metadata, MakerTypeOK
<1>10. BelowReached'
  BY <1>1, <1>3, <1>8, <1>9 DEF BelowReached
<1>11. AgeInv'
  <2> SUFFICES ASSUME NEW m \in stored', NEW n \in stored', m.claimed <= n.claimed
               PROVE  since'[m] <= since'[n]
    BY DEF AgeInv
  <2>1. CASE n = k
    BY <1>1, <1>4, <1>5, <1>6, <2>1
  <2>2. CASE n # k
    <3>1. n \in stored /\ m \in stored
      BY <1>1, <1>8, <1>9, <2>2
    <3> QED BY <1>5, <3>1 DEF AgeInv
  <2> QED BY <2>1, <2>2
<1>12. AckInv'
  BY <1>1, <1>3, <1>4, <1>6 DEF AckInv, k
<1>13. PurgeInv'
  <2>1. purger.target \subseteq stored
    BY DEF MakerTypeOK
  <2> QED BY <1>1, <1>2, <1>5, <1>8, <2>1 DEF PurgeInv
<1>14. HeadsInv'
  BY <1>1 DEF HeadsInv, OldOrRenewed
<1>15. FreshChain'
  <2> SUFFICES ASSUME NEW m \in stored, clock < since[m] + Ttl
               PROVE  \E n \in stored' : n.agreed = m.claimed /\ clock < since'[n] + Ttl
    BY <1>1, <1>3, <1>5 DEF FreshChain
  <2>1. CASE m.claimed = Reached
    BY <1>1, <1>2, <1>4, <1>6, <2>1
  <2>2. CASE m.claimed # Reached
    BY <1>1, <1>5, <2>2 DEF FreshChain
  <2> QED BY <2>1, <2>2
<1> QED BY <1>7, <1>10, <1>11, <1>12, <1>13, <1>14, <1>15
-----------------------------------------------------------------------------
(* The clock, the purger and restarts. *)
LEMMA TickMakerInv ==
  ASSUME MakerInv, Tick, IInv'
  PROVE  MakerInv'
<1> USE DEF MakerInv
<1>1. /\ clock' = clock + 1 /\ clock \in Nat
      /\ UNCHANGED <<since, listed, saved_at, purger, stored, finalized_l1, Reached>>
      /\ pc' = "ack" => pc = "ack" /\ UNCHANGED Claim(committed + 1)
      /\ pc = "ack" => clock + 1 < since[Claim(committed + 1)] + Ttl
  BY MakerSteady DEF Tick, MakerTypeOK, vars
<1>2. Ttl \in Nat /\ since \in [stored -> 0..clock] /\ saved_at \in [finalized_l1 -> 0..clock]
  BY TimeAssumption DEF MakerTypeOK
<1>3. MakerTypeOK'
  <2>1. 0..clock \subseteq 0..clock'
    BY <1>1
  <2>2. since' \in [stored' -> 0..clock'] /\ saved_at' \in [finalized_l1' -> 0..clock']
    BY <1>1, <1>2, <2>1
  <2> QED BY <1>1, <2>1, <2>2 DEF MakerTypeOK, IInv
<1>4. BelowReached' /\ AgeInv'
  BY <1>1 DEF BelowReached, AgeInv
<1>5. AckInv'
  BY <1>1 DEF AckInv
<1>6. PurgeInv' /\ HeadsInv'
  <2>1. purger.target \subseteq stored
    BY DEF MakerTypeOK
  <2>2. \A m \in purger.target : clock' >= since[m] + Ttl
    BY <1>1, <1>2, <2>1 DEF PurgeInv
  <2> QED BY <1>1, <2>2 DEF PurgeInv, HeadsInv, OldOrRenewed
<1>7. FreshChain'
  <2> SUFFICES ASSUME NEW m \in stored, clock + 1 < since[m] + Ttl
               PROVE  \/ m.claimed = Reached
                      \/ \E n \in stored : n.agreed = m.claimed /\ clock + 1 < since[n] + Ttl
    BY <1>1 DEF FreshChain
  <2>1. clock < since[m] + Ttl
    BY <1>1, <1>2
  <2>2. ASSUME NEW n \in stored, n.agreed = m.claimed
        PROVE  clock + 1 < since[n] + Ttl
    <3>1. n.agreed < n.claimed /\ m.claimed \in Nat /\ n.claimed \in Nat
      BY DEF IInv, StoredInv, TypeOK
    <3>2. since[m] <= since[n]
      BY <2>2, <3>1 DEF AgeInv
    <3> QED BY <1>1, <1>2, <3>2
  <2> QED BY <2>1, <2>2 DEF FreshChain
<1> QED BY <1>3, <1>4, <1>5, <1>6, <1>7

LEMMA BeginMakerInv ==
  ASSUME MakerInv, PurgeBegin, IInv'
  PROVE  MakerInv'
<1> USE DEF MakerInv
<1>1. /\ UNCHANGED <<clock, since, listed, saved_at, stored, finalized_l1, Reached>>
      /\ pc' = "ack" => pc = "ack" /\ UNCHANGED Claim(committed + 1)
      /\ purger' = [pc |-> "preimages", now |-> clock, target |-> ExpiredPreimages,
                    removed |-> {}, heads |-> {}, expired |-> {}]
  BY MakerSteady DEF PurgeBegin, PurgerAsleep, vars
<1>2. MakerTypeOK'
  BY <1>1 DEF MakerTypeOK, IInv, ExpiredPreimages
<1>3. PurgeInv'
  <2>1. \A m \in ExpiredPreimages, n \in stored \ ExpiredPreimages : m.claimed < n.claimed
    <3> TAKE m \in ExpiredPreimages, n \in stored \ ExpiredPreimages
    <3>1. /\ m \in stored /\ n \in stored
          /\ clock >= since[m] + Ttl /\ ~(clock >= since[n] + Ttl)
      BY DEF ExpiredPreimages
    <3>2. /\ since[m] \in Nat /\ since[n] \in Nat /\ clock \in Nat /\ Ttl \in Nat
          /\ m.claimed \in Nat /\ n.claimed \in Nat
      <4>1. clock \in Nat /\ since \in [stored -> 0..clock] /\ Ttl \in Nat
        BY TimeAssumption DEF MakerTypeOK
      <4>2. m.claimed \in Nat /\ n.claimed \in Nat
        BY <3>1 DEF IInv, TypeOK
      <4> QED BY <3>1, <4>1, <4>2
    <3>3. ~(since[n] <= since[m])
      BY <3>1, <3>2
    <3>4. ~(n.claimed <= m.claimed)
      BY <3>1, <3>3 DEF AgeInv
    <3> QED BY <3>2, <3>4
  <2> QED BY <1>1, <2>1 DEF PurgeInv, ExpiredPreimages
<1>4. HeadsInv'
  BY <1>1 DEF HeadsInv
<1> QED BY <1>1, <1>2, <1>3, <1>4, StoreFrame

(* The step takes an expired preimage: no young one loses its successor. *)
LEMMA RemoveMakerInv ==
  ASSUME MakerInv, NEW m \in stored, PurgeRemove(m), IInv'
  PROVE  MakerInv'
<1> USE DEF MakerInv
<1>1. /\ UNCHANGED <<clock, listed, saved_at, finalized_l1, pc, latest_l2, locals, Reached>>
      /\ stored' = stored \ {m} /\ m \in purger.target
      /\ since' = [n \in stored' |-> since[n]]
      /\ purger' = [purger EXCEPT !.target = @ \ {m}, !.removed = @ \cup {m}]
  BY ExpireReached DEF PurgeRemove, Expire
<1>2. m \in Metadata /\ purger.target \subseteq stored /\ Ttl \in Nat
      /\ since \in [stored -> 0..clock]
  BY TimeAssumption DEF MakerTypeOK
<1>3. /\ purger'.pc = purger.pc /\ purger'.target = purger.target \ {m}
      /\ purger'.removed = purger.removed \cup {m}
      /\ purger'.heads = purger.heads /\ purger'.expired = purger.expired
      /\ purger'.now = purger.now
  BY <1>1 DEF MakerTypeOK
<1>4. MakerTypeOK'
  <2>1. since' \in [stored' -> 0..clock']
    BY <1>1, <1>2
  <2>2. purger'.target \subseteq stored' /\ purger'.removed \subseteq Metadata
    BY <1>1, <1>2, <1>3 DEF MakerTypeOK
  <2> QED BY <1>1, <1>3, <2>1, <2>2 DEF MakerTypeOK, IInv
<1>5. clock >= since[m] + Ttl
  BY <1>1 DEF PurgeInv
<1>6. BelowReached' /\ AgeInv'
  BY <1>1, <1>3 DEF BelowReached, AgeInv
<1>7. AckInv'
  <2> SUFFICES ASSUME pc = "ack"
               PROVE  Claim(committed + 1) # m
    BY <1>1 DEF AckInv, Claim, batch, locals
  <2>1. clock < since[Claim(committed + 1)] + Ttl
    BY DEF AckInv
  <2> QED BY <1>2, <1>5, <2>1 DEF MakerTypeOK
<1>8. PurgeInv'
  BY <1>1, <1>2, <1>3 DEF PurgeInv
<1>9. HeadsInv'
  BY <1>1, <1>3 DEF HeadsInv, OldOrRenewed
<1>10. FreshChain'
  <2>1. ~(clock < since[m] + Ttl)
    BY <1>2, <1>5 DEF MakerTypeOK
  <2> QED BY <1>1, <2>1 DEF FreshChain
<1> QED BY <1>4, <1>6, <1>7, <1>8, <1>9, <1>10

LEMMA HeadsStart ==
  ASSUME MakerInv, purger' = PurgeHeads,
         UNCHANGED <<clock, since, saved_at, stored, finalized_l1, Reached>>,
         listed' \subseteq listed,
         pc' = "ack" => pc = "ack" /\ UNCHANGED Claim(committed + 1),
         IInv'
  PROVE  MakerInv'
<1> USE DEF MakerInv
<1>1. purger' = [pc |-> "l1", now |-> clock, target |-> {}, removed |-> {},
                 heads |-> finalized_l1, expired |-> {}]
  BY DEF PurgeHeads, PurgerAsleep
<1>2. MakerTypeOK' /\ PurgeInv' /\ HeadsInv'
  BY <1>1 DEF MakerTypeOK, IInv, PurgeInv, HeadsInv
<1> QED BY <1>1, <1>2, StoreFrame

LEMMA UncacheMakerInv ==
  ASSUME MakerInv, PurgeUncache \/ PurgeRemoveFails, IInv'
  PROVE  MakerInv'
<1>1. /\ UNCHANGED <<clock, since, saved_at, stored, finalized_l1, Reached>>
      /\ pc' = "ack" => pc = "ack" /\ UNCHANGED Claim(committed + 1)
      /\ listed' \subseteq listed /\ purger' = PurgeHeads
  BY MakerSteady DEF PurgeUncache, PurgeRemoveFails, vars
<1> QED BY <1>1, HeadsStart

LEMMA ExamineMakerInv ==
  ASSUME MakerInv, NEW h \in finalized_l1, PurgeExamineHead(h) \/ PurgeRemoveHead(h), IInv'
  PROVE  MakerInv'
<1> USE DEF MakerInv
<1>1. /\ UNCHANGED <<clock, since, listed, stored, Reached>>
      /\ pc' = "ack" => pc = "ack" /\ UNCHANGED Claim(committed + 1)
  BY MakerSteady DEF PurgeExamineHead, PurgeRemoveHead
<1>2. /\ purger'.pc = purger.pc /\ purger'.target = purger.target
      /\ purger'.removed = purger.removed /\ purger'.now = purger.now
  BY DEF PurgeExamineHead, PurgeRemoveHead, MakerTypeOK
<1>3. PurgeInv'
  BY <1>1, <1>2 DEF PurgeInv
<1>4. CASE PurgeExamineHead(h)
  <2>1. /\ UNCHANGED <<saved_at, finalized_l1>>
        /\ purger' = [purger EXCEPT !.heads = @ \ {h},
                                    !.expired = IF HeadExpired(h) THEN {h} ELSE {}]
    BY <1>4 DEF PurgeExamineHead, vars
  <2>2. MakerTypeOK'
    BY <1>1, <2>1 DEF MakerTypeOK, IInv
  <2>3. HeadsInv'
    BY <1>1, <2>1 DEF MakerTypeOK, HeadsInv, OldOrRenewed, HeadExpired
  <2> QED BY <1>1, <1>2, <1>3, <2>2, <2>3, StoreFrame
<1>5. CASE PurgeRemoveHead(h)
  <2>1. /\ h \in purger.expired /\ finalized_l1' = finalized_l1 \ {h}
        /\ saved_at' = [k \in finalized_l1' |-> saved_at[k]]
        /\ purger' = [purger EXCEPT !.expired = {}]
    BY <1>5 DEF PurgeRemoveHead
  <2>2. purger.heads \subseteq finalized_l1'
    BY <2>1 DEF MakerTypeOK, HeadsInv
  <2>3. saved_at' \in [finalized_l1' -> 0..clock']
    BY <1>1, <2>1 DEF MakerTypeOK
  <2>4. MakerTypeOK'
    BY <1>1, <2>1, <2>2, <2>3 DEF MakerTypeOK, IInv
  <2>5. HeadsInv'
    BY <2>1 DEF MakerTypeOK, HeadsInv
  <2> QED BY <1>1, <1>2, <1>3, <2>4, <2>5, StoreFrame
<1> QED BY <1>4, <1>5

LEMMA EndMakerInv ==
  ASSUME MakerInv, PurgeEnd, IInv'
  PROVE  MakerInv'
<1> USE DEF MakerInv
<1>1. /\ UNCHANGED <<clock, since, saved_at, listed, stored, finalized_l1, Reached>>
      /\ pc' = "ack" => pc = "ack" /\ UNCHANGED Claim(committed + 1)
      /\ purger' = PurgerAsleep
  BY MakerSteady DEF PurgeEnd, environment
<1>2. MakerTypeOK' /\ PurgeInv' /\ HeadsInv'
  BY <1>1 DEF MakerTypeOK, IInv, PurgeInv, HeadsInv, PurgerAsleep
<1> QED BY <1>1, <1>2, StoreFrame DEF PurgerAsleep

(* The list is what is stored, and the collector goes on behind all of it. *)
LEMMA RestartMakerInv ==
  ASSUME MakerInv, MakerRestart, IInv'
  PROVE  MakerInv'
<1> USE DEF MakerInv
<1>1. /\ UNCHANGED <<clock, since, saved_at, stored, finalized_l1>>
      /\ listed' = stored /\ purger' = PurgerAsleep /\ pc' = "sync"
  BY DEF MakerRestart, Restart, Return
<1>2. \/ stored = {} /\ Reached' = InitialClaimed
      \/ \E m \in stored : IsLatest(m) /\ Reached' = m.claimed
  BY RestartReached DEF MakerRestart
<1>3. MakerTypeOK' /\ PurgeInv' /\ HeadsInv'
  BY <1>1 DEF MakerTypeOK, IInv, PurgeInv, HeadsInv, PurgerAsleep
<1>4. BelowReached' /\ AgeInv' /\ AckInv'
  BY <1>1, <1>2 DEF BelowReached, AgeInv, AckInv, IsLatest, PurgerAsleep
<1>5. FreshChain'
  <2> SUFFICES ASSUME NEW m \in stored, m.claimed = Reached
               PROVE  m.claimed = Reached'
    BY <1>1 DEF FreshChain
  <2>1. PICK l \in stored : IsLatest(l) /\ Reached' = l.claimed
    BY <1>2
  <2>2. m.claimed <= l.claimed /\ l.claimed <= Reached
    BY <2>1 DEF IsLatest, BelowReached
  <2>3. m.claimed \in Nat /\ l.claimed \in Nat
    BY DEF IInv, TypeOK
  <2> QED BY <2>1, <2>2, <2>3
<1> QED BY <1>3, <1>4, <1>5

LEMMA MakerNextInv == MakerInv /\ [MakerNext]_makerVars => MakerInv'
<1> SUFFICES ASSUME MakerInv, [MakerNext]_makerVars PROVE MakerInv'
  OBVIOUS
<1>1. IInv'
  BY MakerIInv
<1> QED BY <1>1, OtherMakerInv, SavesMakerInv, ListsMakerInv, StoresMakerInv, TickMakerInv,
           BeginMakerInv, RemoveMakerInv, UncacheMakerInv, ExamineMakerInv, EndMakerInv,
           RestartMakerInv DEF MakerNext, Purge

LEMMA MakerInductive == MakerSpec => []MakerInv
BY MakerInitInv, MakerNextInv, PTL DEF MakerSpec
-----------------------------------------------------------------------------
(* The repository keeps the contract of PreimageStore. *)
StoreSince == [m \in Metadata |-> IF m \in stored THEN since[m] ELSE 0]

LEMMA InitStore == MakerInit => Store!Init
BY DEF MakerInit, Init, Store!Init

LEMMA NextStore == MakerInv /\ [MakerNext]_makerVars => [Store!Next]_(Store!storeVars)
<1> SUFFICES ASSUME MakerInv, [MakerNext]_makerVars
             PROVE  Store!Next \/ UNCHANGED <<clock, StoreSince, stored, listed>>
  BY DEF Store!storeVars, StoreSince
<1> USE DEF MakerInv
<1>1. stored \subseteq Metadata /\ listed \subseteq Metadata /\ clock \in Nat
      /\ since \in [stored -> 0..clock]
  BY DEF MakerTypeOK
<1>2. UNCHANGED <<stored, since>> => UNCHANGED StoreSince
  BY DEF StoreSince
<1>3. CASE CollectorStores
  <2>1. PICK c : c = Claim(committed + 1)
    OBVIOUS
  <2>2. /\ stored' = stored \cup {c} /\ UNCHANGED <<clock, listed>>
        /\ since' = [m \in stored' |-> IF m \in stored THEN since[m] ELSE clock]
        /\ pc = "commit"
    BY <1>3, <2>1 DEF CollectorStores, CommitStore
  <2>3. c \in Metadata /\ c \notin stored
    BY <2>1, <2>2, NewClaim
  <2>4. StoreSince' = [m \in Metadata |-> IF m \in stored' THEN since'[m] ELSE 0]
    BY DEF StoreSince
  <2>5. ASSUME NEW m \in Metadata
        PROVE  (IF m \in stored' THEN since'[m] ELSE 0)
                 = IF m = c THEN clock ELSE StoreSince[m]
    BY <2>2, <2>3 DEF StoreSince
  <2>6. StoreSince' = [StoreSince EXCEPT ![c] = clock]
    BY <2>4, <2>5 DEF StoreSince
  <2>7. clock \in 0..clock
    BY <1>1
  <2>8. Store!Put(c)
    BY <2>2, <2>3, <2>6, <2>7 DEF Store!Put, StoreSince
  <2> QED BY <2>3, <2>8 DEF Store!Next
<1>4. CASE CollectorLists
  <2>1. PICK c : c = Claim(committed + 1)
    OBVIOUS
  <2>2. listed' = listed \cup {c} /\ c \in stored /\ UNCHANGED <<clock, since, stored>>
    BY <1>4, <2>1 DEF CollectorLists, CommitAck, AckInv
  <2>3. Store!Enlist(c)
    BY <1>2, <2>2 DEF Store!Enlist, StoreSince
  <2> QED BY <1>1, <2>2, <2>3 DEF Store!Next
<1>5. ASSUME NEW m \in stored, PurgeRemove(m)
      PROVE  Store!Next
  <2>1. /\ stored' = stored \ {m} /\ UNCHANGED <<clock, listed>>
        /\ since' = [n \in stored' |-> since[n]] /\ clock >= since[m] + Ttl
    BY <1>5 DEF PurgeRemove, Expire, PurgeInv
  <2>2. StoreSince' = [StoreSince EXCEPT ![m] = 0] /\ StoreSince[m] = since[m]
    BY <1>1, <2>1 DEF StoreSince
  <2>3. Store!Drop(m)
    BY <2>1, <2>2 DEF Store!Drop, Store!Old, StoreSince
  <2> QED BY <1>1, <2>3 DEF Store!Next
<1>6. CASE PurgeUncache
  <2>1. /\ listed' = listed \ purger.removed /\ UNCHANGED <<clock, since, stored>>
        /\ purger.removed \cap stored = {} /\ purger.removed \in SUBSET Metadata
    BY <1>6 DEF PurgeUncache, PurgeInv, MakerTypeOK, vars
  <2>2. Store!Delist(purger.removed)
    BY <1>2, <2>1 DEF Store!Delist, StoreSince
  <2> QED BY <2>1, <2>2 DEF Store!Next
<1>7. CASE Tick
  <2>1. clock' > clock /\ UNCHANGED <<since, stored, listed>>
    BY <1>1, <1>7 DEF Tick, vars
  <2> QED BY <1>2, <2>1 DEF Store!Next, Store!Pass, StoreSince
<1>8. CASE MakerRestart
  <2>1. listed' = stored /\ UNCHANGED <<clock, since, stored>>
    BY <1>8 DEF MakerRestart, Restart
  <2> QED BY <1>2, <2>1 DEF Store!Next, Store!Reopen, StoreSince
<1>9. CASE \/ CollectorSaves \/ CollectorOther \/ PurgeBegin \/ PurgeRemoveFails \/ PurgeEnd
           \/ \E h \in finalized_l1 : PurgeExamineHead(h) \/ PurgeRemoveHead(h)
           \/ UNCHANGED makerVars
  <2>1. UNCHANGED <<stored, since>>
    BY <1>9, MakerSteady
  <2>2. UNCHANGED <<clock, listed>>
    BY <1>9 DEF CollectorSaves, CollectorOther, PurgeBegin, PurgeRemoveFails, PurgeEnd,
                PurgeExamineHead, PurgeRemoveHead, makerVars
  <2> QED BY <1>2, <2>1, <2>2
<1> QED BY <1>3, <1>4, <1>5, <1>6, <1>7, <1>8, <1>9 DEF MakerNext, Purge

(* The chain of claims is not disturbed by what the purger does. *)
LEMMA MakerNextChain == MakerInv /\ [MakerNext]_makerVars => [Chain!Next]_(Chain!chainVars)
<1> SUFFICES ASSUME MakerInv, [MakerNext]_makerVars
             PROVE  Chain!Next \/ UNCHANGED <<Reached, stored>>
  BY DEF Chain!chainVars
<1>1. CASE CollectorStores \/ MakerRestart \/ \E m \in stored : PurgeRemove(m)
  <2>1. Next
    BY <1>1 DEF CollectorStores, MakerRestart, PurgeRemove, Next, Collect
  <2> QED BY <2>1, NextChain DEF MakerInv, Chain!chainVars
<1> QED BY <1>1, MakerSteady DEF MakerNext, Purge
-----------------------------------------------------------------------------
(* The variables of the process keep their types. *)
THEOREM MakerTypeCorrect == MakerSpec => []MakerTypeOK
BY MakerInductive, PTL DEF MakerInv

(* What the composition does to the store is still a chain of claims: the purger
   only drops from it, and no failure of the purger moves the collector. *)
THEOREM MakerChain == MakerSpec => ImplementsChain
<1>1. MakerInit => Chain!Init
  BY InitChain DEF MakerInit
<1>2. MakerSpec => Chain!Init /\ [][Chain!Next]_(Chain!chainVars)
  BY <1>1, MakerInductive, MakerNextChain, PTL DEF MakerSpec
<1> QED BY <1>2, PTL DEF ImplementsChain, Chain!Spec

(* A reader who starts at a preimage younger than the TTL finds the successor of
   each up to the last one: files expire in the order of the claims, whatever
   the order in which the purge removes them. *)
THEOREM YoungChain == MakerSpec => []FreshChain
BY MakerInductive, PTL DEF MakerInv

(* The collector never writes a preimage that is still stored or listed, also
   not after a failed batch or a restart: what the repository's purge needs. *)
THEOREM NewKeysOnly == MakerSpec => []StoresNewKeys
<1>1. MakerInv => StoresNewKeys
  BY NewClaim DEF StoresNewKeys
<1> QED BY <1>1, MakerInductive, PTL

(* The purge removes L1 data that is older than the TTL, or that was renewed
   after it was examined, and no other. *)
THEOREM OldHeadsPurged == MakerSpec => OldHeadsOnly
<1>1. MakerInv /\ [MakerNext]_makerVars
        => [\A h \in finalized_l1 \ finalized_l1' : OldOrRenewed(h)]_makerVars
  <2> SUFFICES ASSUME MakerInv, MakerNext, NEW h \in finalized_l1, h \notin finalized_l1'
               PROVE  OldOrRenewed(h)
    OBVIOUS
  <2>1. CASE \E k \in finalized_l1 : PurgeRemoveHead(k)
    BY <2>1 DEF PurgeRemoveHead, MakerInv, HeadsInv
  <2>2. finalized_l1 \subseteq finalized_l1' \/ \E k \in finalized_l1 : PurgeRemoveHead(k)
    BY DEF MakerNext, Purge, Tick, CollectorSaves, SaveL1, CollectorStores, CommitStore,
       CollectorLists, CommitAck, CollectorOther, NodeAdvances, BeaconAdvances, SyncStatus,
       NothingToCollect, SyncStatusFails, BeaconAnswers, L1HeadFound, L1HeadDelayed,
       L1HeadRetry, L1HeadFails, SaveL1Fails, TaskStep, TaskFails, JoinOk, JoinFails,
       OrphanEnds, CommitFails, PurgeBegin, PurgeRemove, Expire, PurgeUncache,
       PurgeRemoveFails, PurgeExamineHead, PurgeEnd, MakerRestart, Restart, vars
  <2> QED BY <2>1, <2>2
<1> QED BY <1>1, MakerInductive, PTL DEF MakerSpec, OldHeadsOnly, OldOrRenewed

(* A purge takes off the list only what is older than all that stays stored, so
   that the latest metadata never falls back behind a preimage that is there. *)
THEOREM OldestDelisted == MakerSpec => DelistsOldest
<1>1. MakerInv /\ [MakerNext]_makerVars
        => [purger.pc = "preimages" /\ purger'.pc = "l1" =>
              \A m \in listed \ listed', n \in stored : m.claimed < n.claimed]_makerVars
  <2> SUFFICES ASSUME MakerInv, MakerNext, purger.pc = "preimages", purger'.pc = "l1",
                      NEW m \in listed, m \notin listed', NEW n \in stored
               PROVE  m.claimed < n.claimed
    OBVIOUS
  <2>1. PurgeUncache \/ PurgeRemoveFails
    <3>1. purger'.pc # purger.pc
      OBVIOUS
    <3>2. ~Tick /\ ~CollectorSaves /\ ~CollectorStores /\ ~CollectorLists /\ ~CollectorOther
      BY <3>1 DEF Tick, CollectorSaves, CollectorStores, CollectorLists, CollectorOther
    <3>3. ~PurgeBegin /\ ~PurgeEnd /\ ~MakerRestart
      BY DEF PurgeBegin, PurgeEnd, MakerRestart, PurgerAsleep
    <3>4. ASSUME NEW n0, PurgeRemove(n0) \/ PurgeExamineHead(n0) \/ PurgeRemoveHead(n0)
          PROVE  FALSE
      BY <3>1, <3>4 DEF PurgeRemove, PurgeExamineHead, PurgeRemoveHead, MakerInv, MakerTypeOK
    <3> QED BY <3>2, <3>3, <3>4 DEF MakerNext, Purge
  <2>2. PurgeUncache
    BY <2>1 DEF PurgeRemoveFails
  <2>3. m \in purger.removed /\ purger.target = {}
    BY <2>2 DEF PurgeUncache, AllRemoved
  <2> QED BY <2>3 DEF MakerInv, PurgeInv
<1> QED BY <1>1, MakerInductive, PTL DEF MakerSpec, DelistsOldest

(* Seen from its readers, the repository is PreimageStore, whoever calls it when. *)
THEOREM StoreRefinement == MakerSpec => ImplementsStore
<1>1. MakerSpec => Store!Init /\ [][Store!Next]_(Store!storeVars)
  BY InitStore, MakerInductive, NextStore, PTL DEF MakerSpec
<1> QED BY <1>1, PTL DEF ImplementsStore, Store!Spec
=============================================================================
