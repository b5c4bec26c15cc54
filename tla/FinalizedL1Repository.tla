------------------------ MODULE FinalizedL1Repository ------------------------
(***************************************************************************)
(* server/src/data/file_finalized_l1_repository.rs: the light-client data  *)
(* of each finalized L1 head, one file per head and no cache.  The same    *)
(* head is stored again by every batch derived from it, which renews the   *)
(* file.  Steps are those between two suspensions, as in                   *)
(* FilePreimageRepository.                                                 *)
(***************************************************************************)
EXTENDS Integers

CONSTANTS
  Heads,       \* L1 head hashes
  NoHead,
  Ttl,
  MaxClock,    \* bound: the last instant of a run
  MaxFaults    \* bound: failed file operations and restarts in a run

ASSUME HeadsAssumption == NoHead \notin Heads
ASSUME TimeAssumption == Ttl \in Nat \ {0} /\ MaxClock \in Nat /\ MaxFaults \in Nat

VARIABLES
  clock,
  l1_files,   \* l1_files[h]: "<h>.json"
  l1_tmp,     \* l1_tmp[h]: "<h>.json.tmp"
  l1_put,     \* upsert: where it is, and its argument
  l1_purge,   \* purge_expired: where it is, and its locals
  faults

vars == <<clock, l1_files, l1_tmp, l1_put, l1_purge, faults>>

File == [content : {"none", "partial", "whole"}, mtime : Nat]
NoFile == [content |-> "none", mtime |-> 0]

OnDisk == {h \in Heads : l1_files[h].content # "none"}

PutIdle == [pc |-> "idle", h |-> NoHead]
PurgeIdle == [pc |-> "idle", now |-> 0, entries |-> {}, expired |-> NoHead]

TypeOK ==
  /\ clock \in Nat
  /\ l1_files \in [Heads -> File]
  /\ l1_tmp \in [Heads -> File]
  /\ l1_put \in [pc : {"idle", "write", "rename"}, h : Heads \cup {NoHead}]
  /\ l1_put.pc # "idle" => l1_put.h \in Heads
  /\ l1_purge \in [pc : {"idle", "list", "run"}, now : Nat,
                   entries : SUBSET Heads, expired : Heads \cup {NoHead}]
  /\ faults \in 0..MaxFaults

Init ==
  /\ clock = 0
  /\ l1_files = [h \in Heads |-> NoFile]
  /\ l1_tmp = [h \in Heads |-> NoFile]
  /\ l1_put = PutIdle
  /\ l1_purge = PurgeIdle
  /\ faults = 0

Fault == faults < MaxFaults /\ faults' = faults + 1

Tick ==
  /\ clock < MaxClock
  /\ clock' = clock + 1
  /\ UNCHANGED <<l1_files, l1_tmp, l1_put, l1_purge, faults>>

UpsertBegin(h) ==
  /\ l1_put.pc = "idle"
  /\ l1_put' = [pc |-> "write", h |-> h]
  /\ l1_tmp' = [l1_tmp EXCEPT ![h] = [content |-> "partial", mtime |-> clock]]
  /\ UNCHANGED <<clock, l1_files, l1_purge, faults>>

UpsertWritten ==
  /\ l1_put.pc = "write"
  /\ l1_put' = [l1_put EXCEPT !.pc = "rename"]
  /\ l1_tmp' = [l1_tmp EXCEPT ![l1_put.h] = [content |-> "whole", mtime |-> clock]]
  /\ UNCHANGED <<clock, l1_files, l1_purge, faults>>

UpsertRename ==
  /\ l1_put.pc = "rename"
  /\ l1_put' = PutIdle
  /\ l1_files' = [l1_files EXCEPT ![l1_put.h] = l1_tmp[l1_put.h]]
  /\ l1_tmp' = [l1_tmp EXCEPT ![l1_put.h] = NoFile]
  /\ UNCHANGED <<clock, l1_purge, faults>>

(* Bug: the result of fs::write is dropped, so that an incomplete file is renamed. *)
BugUpsertFails ==
  /\ l1_put.pc # "idle"
  /\ Fault
  /\ l1_put' = [l1_put EXCEPT !.pc = "rename"]
  /\ UNCHANGED <<clock, l1_files, l1_tmp, l1_purge>>

(* fs::write or fs::rename failed: the error goes to the caller. *)
UpsertFails ==
  /\ l1_put.pc # "idle"
  /\ Fault
  /\ l1_put' = PutIdle
  /\ UNCHANGED <<clock, l1_files, l1_tmp, l1_purge>>

(* Bug: the TTL is taken from `now` instead of added to the age, below zero. *)
BugPurgeNow == clock - Ttl

PurgeNow == clock

PurgeStart ==
  /\ l1_purge.pc = "idle"
  /\ l1_purge' = [PurgeIdle EXCEPT !.pc = "list", !.now = PurgeNow]
  /\ UNCHANGED <<clock, l1_files, l1_tmp, l1_put, faults>>

PurgeList ==
  /\ l1_purge.pc = "list"
  /\ l1_purge' = [l1_purge EXCEPT !.pc = "run", !.entries = OnDisk]
  /\ UNCHANGED <<clock, l1_files, l1_tmp, l1_put, faults>>

Expired(h) == l1_purge.now >= l1_files[h].mtime + Ttl

(* Bug: `break` at the first young file, as if the directory came sorted by age. *)
BugPurgeExamine(h) ==
  /\ l1_purge.expired = NoHead
  /\ h \in l1_purge.entries
  /\ l1_purge' = IF Expired(h)
                   THEN [l1_purge EXCEPT !.entries = @ \ {h}, !.expired = h]
                   ELSE [l1_purge EXCEPT !.entries = {}]
  /\ UNCHANGED <<clock, l1_files, l1_tmp, l1_put, faults>>

(* One entry at a time: read its age, and remove it before the next one. *)
PurgeExamine(h) ==
  /\ l1_purge.expired = NoHead
  /\ h \in l1_purge.entries
  /\ l1_purge' = [l1_purge EXCEPT !.entries = @ \ {h},
                                  !.expired = IF Expired(h) THEN h ELSE NoHead]
  /\ UNCHANGED <<clock, l1_files, l1_tmp, l1_put, faults>>

PurgeRemove(h) ==
  /\ h = l1_purge.expired
  /\ l1_files' = [l1_files EXCEPT ![h] = NoFile]
  /\ l1_purge' = [l1_purge EXCEPT !.expired = NoHead]
  /\ UNCHANGED <<clock, l1_tmp, l1_put, faults>>

PurgeDone ==
  /\ l1_purge.pc = "run"
  /\ l1_purge.entries = {}
  /\ l1_purge.expired = NoHead
  /\ l1_purge' = PurgeIdle
  /\ UNCHANGED <<clock, l1_files, l1_tmp, l1_put, faults>>

PurgeFails ==
  /\ l1_purge.pc # "idle"
  /\ Fault
  /\ l1_purge' = PurgeIdle
  /\ UNCHANGED <<clock, l1_files, l1_tmp, l1_put>>

Restart ==
  /\ Fault
  /\ l1_put' = PutIdle
  /\ l1_purge' = PurgeIdle
  /\ UNCHANGED <<clock, l1_files, l1_tmp>>

Upsert == UpsertWritten \/ UpsertRename

PurgeExpired ==
  \/ PurgeStart
  \/ PurgeList
  \/ \E h \in Heads : PurgeExamine(h) \/ PurgeRemove(h)
  \/ PurgeDone

Next ==
  \/ Tick
  \/ \E h \in Heads : UpsertBegin(h)
  \/ Upsert \/ UpsertFails
  \/ PurgeExpired \/ PurgeFails
  \/ Restart

Spec == Init /\ [][Next]_vars

(* The purger's loop calls purge_expired again whatever it returned. *)
FairSpec == Spec /\ WF_vars(PurgeExpired)
-----------------------------------------------------------------------------
(* get never reads incomplete JSON, whatever fails or crashes during upsert. *)
NoTornFile == \A h \in Heads : l1_files[h].content # "partial"

(* Data that has outlived the TTL is removed in the end, unless a new upsert of
   the same head renews it. *)
ExpiredIsPurged ==
  \A h \in Heads, t \in 0..MaxClock :
    (h \in OnDisk /\ l1_files[h].mtime = t /\ clock >= t + Ttl)
      ~> (h \notin OnDisk \/ l1_files[h].mtime # t)

(* What test_purge_expired asserts of purge_expired ("h2 should be kept"): data
   younger than the TTL survives a purge.  It does not when upsert renews the
   file between the look at its age and its removal. *)
FreshIsKept ==
  [][\A h \in OnDisk : h \notin OnDisk' => clock >= l1_files[h].mtime + Ttl]_vars
=============================================================================
