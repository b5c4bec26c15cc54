---------------------------- MODULE PreimageMaker ----------------------------
(***************************************************************************)
(* The process: the collector and the purger, two tasks that share the two *)
(* repositories, and a clock that ages what is stored.  The collector is   *)
(* Collector, step by step; the preimage repository is at the level of     *)
(* PreimageStore, which FilePreimageRepository implements; the purger is   *)
(* server/src/purger.rs.  The clock is coarse: the file operations of one  *)
(* upsert happen in the same unit of it.                                   *)
(***************************************************************************)
EXTENDS Collector

CONSTANTS
  Ttl,
  MaxClock   \* bound: the last instant of a run

ASSUME TimeAssumption == Ttl \in Nat \ {0} /\ MaxClock \in Nat

VARIABLES
  clock,
  since,     \* since[m]: when the stored preimage m was written
  listed,    \* what list_metadata returns
  saved_at,  \* saved_at[h]: when the data of head h was last written
  purger     \* where run_once is, and the locals of the two purge_expired

makerVars == <<vars, clock, since, listed, saved_at, purger>>

PurgerAsleep == [pc |-> "sleep", now |-> 0, target |-> {}, removed |-> {},
                 heads |-> {}, expired |-> {}]

Metadata ==
  LET last == SafeL2[MaxL1]
  IN  {m \in [agreed : 0..last, claimed : 0..last, l1_head : L1Blocks] :
         m.claimed = m.agreed + Distance}

MakerTypeOK ==
  /\ TypeOK
  /\ clock \in Nat
  /\ since \in [stored -> 0..clock]
  /\ stored \cup listed \subseteq Metadata
  /\ saved_at \in [finalized_l1 -> 0..clock]
  /\ purger \in [pc : {"sleep", "preimages", "l1"}, now : 0..clock,
                 target : SUBSET stored, removed : SUBSET Metadata,
                 heads : SUBSET finalized_l1, expired : SUBSET finalized_l1]

MakerInit ==
  /\ Init
  /\ clock = 0
  /\ since = <<>>
  /\ listed = {}
  /\ saved_at = <<>>
  /\ purger = PurgerAsleep

(* As in FilePreimageRepository, an upsert returns before its file is a TTL old. *)
Tick ==
  /\ clock < MaxClock
  /\ pc = "ack" => clock + 1 < since[Claim(committed + 1)] + Ttl
  /\ clock' = clock + 1
  /\ UNCHANGED <<vars, since, listed, saved_at, purger>>
-----------------------------------------------------------------------------
(* The collector's calls of the repositories; its other steps are its own. *)
CollectorSaves ==
  /\ SaveL1
  /\ saved_at' = [h \in finalized_l1' |-> IF h = l1_head THEN clock ELSE saved_at[h]]
  /\ UNCHANGED <<clock, since, listed, purger>>

CollectorStores ==
  /\ CommitStore
  /\ since' = [m \in stored' |-> IF m \in stored THEN since[m] ELSE clock]
  /\ UNCHANGED <<clock, listed, saved_at, purger>>

CollectorLists ==
  /\ CommitAck
  /\ listed' = listed \cup {Claim(committed + 1)}
  /\ UNCHANGED <<clock, since, saved_at, purger>>

CollectorOther ==
  /\ \/ NodeAdvances \/ BeaconAdvances
     \/ SyncStatus \/ NothingToCollect \/ SyncStatusFails
     \/ BeaconAnswers \/ L1HeadFound \/ L1HeadDelayed \/ L1HeadRetry
     \/ L1HeadFails \/ SaveL1Fails
     \/ \E i \in 1..MaxConcurrency : TaskStep(i) \/ TaskFails(i)
     \/ JoinOk \/ JoinFails \/ OrphanEnds
     \/ CommitFails
  /\ UNCHANGED <<clock, since, listed, saved_at, purger>>
-----------------------------------------------------------------------------
(* run_once: the preimages first, then the L1 data, each with its own `now`. *)
BugExpiredPreimages == {m \in stored : clock > since[m]}  \* Bug: the TTL is not added

ExpiredPreimages == {m \in stored : clock >= since[m] + Ttl}

PurgeBegin ==
  /\ purger.pc = "sleep"
  /\ purger' = [PurgerAsleep EXCEPT !.pc = "preimages", !.now = clock,
                                    !.target = ExpiredPreimages]
  /\ UNCHANGED <<vars, clock, since, listed, saved_at>>

PurgeRemove(m) ==
  /\ m \in purger.target
  /\ Expire(m)
  /\ since' = [n \in stored' |-> since[n]]
  /\ purger' = [purger EXCEPT !.target = @ \ {m}, !.removed = @ \cup {m}]
  /\ UNCHANGED <<clock, listed, saved_at>>

(* Bug: the heads to look at are those of the listed preimages. *)
BugPurgeHeads == [PurgerAsleep EXCEPT !.pc = "l1", !.now = clock,
                                      !.heads = {m.l1_head : m \in listed}]

PurgeHeads == [PurgerAsleep EXCEPT !.pc = "l1", !.now = clock, !.heads = finalized_l1]

BugAllRemoved == TRUE  \* Bug: a file that cannot be removed is skipped

AllRemoved == purger.target = {}

PurgeUncache ==
  /\ purger.pc = "preimages"
  /\ AllRemoved
  /\ listed' = listed \ purger.removed
  /\ purger' = PurgeHeads
  /\ UNCHANGED <<vars, clock, since, saved_at>>

(* The purge of the preimages failed, which is logged, and the L1 data is next. *)
PurgeRemoveFails ==
  /\ purger.pc = "preimages"
  /\ Fault
  /\ purger' = PurgeHeads
  /\ UNCHANGED <<environment, stored, finalized_l1, pc, latest_l2, locals, orphans, clock, since, listed, saved_at>>

BugHeadExpired(h) == purger.now >= saved_at[h]  \* Bug: the TTL is not added

HeadExpired(h) == purger.now >= saved_at[h] + Ttl

PurgeExamineHead(h) ==
  /\ purger.expired = {}
  /\ h \in purger.heads
  /\ purger' = [purger EXCEPT !.heads = @ \ {h},
                              !.expired = IF HeadExpired(h) THEN {h} ELSE {}]
  /\ UNCHANGED <<vars, clock, since, listed, saved_at>>

PurgeRemoveHead(h) ==
  /\ h \in purger.expired
  /\ finalized_l1' = finalized_l1 \ {h}
  /\ saved_at' = [k \in finalized_l1' |-> saved_at[k]]
  /\ purger' = [purger EXCEPT !.expired = {}]
  /\ UNCHANGED <<environment, stored, pc, latest_l2, locals, orphans, faults, clock, since,
                 listed>>

PurgeEnd ==
  /\ purger.pc = "l1"
  /\ \/ purger.heads \cup purger.expired = {} /\ UNCHANGED faults
     \/ Fault
  /\ purger' = PurgerAsleep
  /\ UNCHANGED <<environment, stored, finalized_l1, pc, latest_l2, locals, orphans, clock, since, listed, saved_at>>

Purge ==
  \/ PurgeBegin
  \/ \E m \in stored : PurgeRemove(m)
  \/ PurgeUncache \/ PurgeRemoveFails
  \/ \E h \in finalized_l1 : PurgeExamineHead(h) \/ PurgeRemoveHead(h)
  \/ PurgeEnd

(* The process ends, by a crash or because a task did, and is started again. *)
MakerRestart ==
  /\ Restart
  /\ listed' = stored
  /\ purger' = PurgerAsleep
  /\ UNCHANGED <<clock, since, saved_at>>

MakerNext ==
  \/ Tick
  \/ CollectorSaves \/ CollectorStores \/ CollectorLists \/ CollectorOther
  \/ Purge
  \/ MakerRestart

MakerSpec == MakerInit /\ [][MakerNext]_makerVars
-----------------------------------------------------------------------------
(* The preimages younger than the TTL are an unbroken chain up to the last
   claimed block: whatever fails, is purged in whatever order or restarts, a
   reader that follows `agreed` and `claimed` from a young preimage finds no
   hole before the latest one. *)
FreshChain ==
  \A m \in stored : clock < since[m] + Ttl =>
    \/ m.claimed = Reached
    \/ \E n \in stored : n.agreed = m.claimed /\ clock < since[n] + Ttl

(* The collector stores a metadata only once: what FilePreimageRepository
   assumes of its caller (NewKey), without which its purge could remove a
   preimage that was just written again. *)
StoresNewKeys ==
  pc = "commit" => Claim(committed + 1) \notin stored \cup listed

(* The L1 data of a head is removed only when it had outlived the TTL as the
   purge began, or when it was renewed during that very purge. *)
OldHeadsOnly ==
  [][\A h \in finalized_l1 \ finalized_l1' :
       purger.now >= saved_at[h] + Ttl \/ saved_at[h] >= purger.now]_makerVars

(* The purge takes off the list only what is older than all that stays stored,
   in whatever order it removed the files: latest_metadata does not fall back
   behind a preimage that is there.  Service takes this for granted. *)
DelistsOldest ==
  [][purger.pc = "preimages" /\ purger'.pc = "l1" =>
       \A m \in listed \ listed', n \in stored : m.claimed < n.claimed]_makerVars

Store == INSTANCE PreimageStore
           WITH Keys <- Metadata, now <- clock,
                since <- [m \in Metadata |-> IF m \in stored THEN since[m] ELSE 0]

(* With the collector's calls, the purger's and restarts in whatever order, the
   repository is the PreimageStore that the readers in Service depend on: the
   collector never writes a preimage again, an upsert lists only what is still
   there when it returns, and a purge takes nothing off the list that is stored. *)
ImplementsStore == Store!Spec

(* What tests/e2e.rs expects of every listed metadata: get_finalized_l1 answers
   for its L1 head. *)
ListedHasL1Data == \A m \in listed : m.l1_head \in finalized_l1
=============================================================================
