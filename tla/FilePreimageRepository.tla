----------------------- MODULE FilePreimageRepository -----------------------
(***************************************************************************)
(* server/src/data/file_preimage_repository.rs: preimages as files of one  *)
(* directory, and in memory the set of the metadata that is served.        *)
(* upsert and purge_expired run in different tasks of the process and      *)
(* suspend at every file operation; each step below is what runs between   *)
(* two suspensions.  A file is abstracted to its modification time and to  *)
(* whether its bytes are complete.                                         *)
(***************************************************************************)
EXTENDS Integers

CONSTANTS
  Metadata,    \* the (agreed, claimed, l1_head) triples: the valid file names
  NoMetadata,
  Strays,      \* file names of the directory that do not parse as metadata
  Ttl,         \* ttl, in the unit of the clock
  MaxClock,    \* bound: the last instant of a run
  MaxFaults    \* bound: failed file operations and restarts in a run

ASSUME NamesAssumption == NoMetadata \notin Metadata /\ Strays \cap Metadata = {}
ASSUME TimeAssumption == Ttl \in Nat \ {0} /\ MaxClock \in Nat /\ MaxFaults \in Nat

VARIABLES
  clock,          \* the system clock, which stamps the files
  files,          \* files[name]: the directory, without the *.tmp
  tmp,            \* tmp[m]: the file "<m>.tmp"
  metadata_list,  \* the cache behind list_metadata and latest_metadata
  put,            \* upsert: where it is, and its argument
  purge,          \* purge_expired: where it is, and its locals
  dangling,       \* history: files removed by a purge that then failed
  faults

vars == <<clock, files, tmp, metadata_list, put, purge, dangling, faults>>

Names == Metadata \cup Strays

File == [content : {"none", "partial", "whole"}, mtime : Nat]
NoFile == [content |-> "none", mtime |-> 0]

OnDisk == {n \in Names : files[n].content # "none"}

PutIdle == [pc |-> "idle", m |-> NoMetadata]
PurgeIdle == [pc |-> "idle", now |-> 0, entries |-> {}, target |-> {},
              target_cached |-> {}]

TypeOK ==
  /\ clock \in Nat
  /\ files \in [Names -> File]
  /\ tmp \in [Metadata -> File]
  /\ metadata_list \subseteq Metadata
  /\ put \in [pc : {"idle", "write", "rename", "insert"},
              m : Metadata \cup {NoMetadata}]
  /\ put.pc # "idle" => put.m \in Metadata
  /\ purge \in [pc : {"idle", "list", "run"}, now : Nat,
                entries : SUBSET Names, target : SUBSET Names,
                target_cached : SUBSET Metadata]
  /\ dangling \subseteq Metadata
  /\ faults \in 0..MaxFaults

(* A directory that no run has written to yet. *)
Init ==
  /\ clock = 0
  /\ files = [n \in Names |-> IF n \in Strays
                                THEN [content |-> "whole", mtime |-> 0]
                                ELSE NoFile]
  /\ tmp = [m \in Metadata |-> NoFile]
  /\ metadata_list = {}
  /\ put = PutIdle
  /\ purge = PurgeIdle
  /\ dangling = {}
  /\ faults = 0

Fault == faults < MaxFaults /\ faults' = faults + 1

(* Assumed of the host: what upsert has written it renames and inserts before
   it is a TTL old (the TTL is in days, the two calls are not). *)
UpsertIsPrompt ==
  /\ put.pc = "rename" => clock + 1 < tmp[put.m].mtime + Ttl
  /\ put.pc = "insert" => clock + 1 < files[put.m].mtime + Ttl

Tick ==
  /\ clock < MaxClock
  /\ UpsertIsPrompt
  /\ clock' = clock + 1
  /\ UNCHANGED <<files, tmp, metadata_list, put, purge, dangling, faults>>

-----------------------------------------------------------------------------
(* upsert: write "<m>.tmp", rename it to its final name, enter m in the cache.
   Its one caller, the collector, awaits each call before the next one. *)
UpsertBegin(m) ==
  /\ put.pc = "idle"
  /\ put' = [pc |-> "write", m |-> m]
  /\ tmp' = [tmp EXCEPT ![m] = [content |-> "partial", mtime |-> clock]]
  /\ UNCHANGED <<clock, files, metadata_list, purge, dangling, faults>>

UpsertWritten ==
  /\ put.pc = "write"
  /\ put' = [put EXCEPT !.pc = "rename"]
  /\ tmp' = [tmp EXCEPT ![put.m] = [content |-> "whole", mtime |-> clock]]
  /\ UNCHANGED <<clock, files, metadata_list, purge, dangling, faults>>

(* Bug: the result of fs::write is dropped instead of returned with `?`. *)
BugUpsertFails ==
  /\ put.pc = "write"
  /\ Fault
  /\ put' = [put EXCEPT !.pc = "rename"]
  /\ UNCHANGED <<clock, files, tmp, metadata_list, purge, dangling>>

(* fs::write or fs::rename failed: what there is of "<m>.tmp" stays. *)
UpsertFails ==
  /\ put.pc \in {"write", "rename"}
  /\ Fault
  /\ put' = PutIdle
  /\ UNCHANGED <<clock, files, tmp, metadata_list, purge, dangling>>

UpsertRename ==
  /\ put.pc = "rename"
  /\ put' = [put EXCEPT !.pc = "insert"]
  /\ files' = [files EXCEPT ![put.m] = tmp[put.m]]
  /\ tmp' = [tmp EXCEPT ![put.m] = NoFile]
  /\ UNCHANGED <<clock, metadata_list, purge, dangling, faults>>

(* Bug: the file is stored but never entered in the cache. *)
BugUpsertInsert ==
  /\ put.pc = "insert"
  /\ put' = PutIdle
  /\ UNCHANGED <<clock, files, tmp, metadata_list, purge, dangling, faults>>

UpsertInsert ==
  /\ put.pc = "insert"
  /\ put' = PutIdle
  /\ metadata_list' = metadata_list \cup {put.m}
  /\ UNCHANGED <<clock, files, tmp, purge, dangling, faults>>

Upsert == UpsertWritten \/ UpsertRename \/ UpsertInsert
-----------------------------------------------------------------------------
(* purge_expired: take the time, list the directory, examine every entry, then
   remove the expired ones one by one, and only then take them off the cache.
   The order of the entries is the directory's, which promises none. *)
PurgeStart ==
  /\ purge.pc = "idle"
  /\ purge' = [PurgeIdle EXCEPT !.pc = "list", !.now = clock]
  /\ UNCHANGED <<clock, files, tmp, metadata_list, put, dangling, faults>>

(* Bug: the candidates are taken from the cache instead of the directory. *)
BugEntries == OnDisk \cap metadata_list

Entries == OnDisk

PurgeList ==
  /\ purge.pc = "list"
  /\ purge' = [purge EXCEPT !.pc = "run", !.entries = Entries]
  /\ UNCHANGED <<clock, files, tmp, metadata_list, put, dangling, faults>>

(* Bug: the age is compared with 0 instead of the TTL. *)
BugExpired(n) == purge.now >= files[n].mtime

Expired(n) == purge.now >= files[n].mtime + Ttl

PurgeExamine(n) ==
  /\ n \in purge.entries
  /\ files[n].content # "none"
  /\ purge' = [purge EXCEPT !.entries = @ \ {n},
                            !.target = IF Expired(n) THEN @ \cup {n} ELSE @]
  /\ UNCHANGED <<clock, files, tmp, metadata_list, put, dangling, faults>>

PurgeRemove(n) ==
  /\ purge.entries = {}
  /\ n \in purge.target
  /\ files[n].content # "none"
  /\ files' = [files EXCEPT ![n] = NoFile]
  /\ purge' = [purge EXCEPT !.target = @ \ {n},
                            !.target_cached = @ \cup ({n} \cap Metadata)]
  /\ UNCHANGED <<clock, tmp, metadata_list, put, dangling, faults>>

AllRemoved == purge.pc = "run" /\ purge.entries = {} /\ purge.target = {}

(* Bug: the removed files stay in the cache. *)
BugPurgeUncache ==
  /\ AllRemoved
  /\ purge' = PurgeIdle
  /\ UNCHANGED <<clock, files, tmp, metadata_list, put, dangling, faults>>

PurgeUncache ==
  /\ AllRemoved
  /\ metadata_list' = metadata_list \ purge.target_cached
  /\ purge' = PurgeIdle
  /\ UNCHANGED <<clock, files, tmp, put, dangling, faults>>

(* read_dir, metadata() or remove_file failed: `?` leaves at once, and what was
   already removed stays in the cache. *)
PurgeFails ==
  /\ purge.pc # "idle"
  /\ Fault
  /\ purge' = PurgeIdle
  /\ dangling' = dangling \cup purge.target_cached
  /\ UNCHANGED <<clock, files, tmp, metadata_list, put>>

PurgeExpired ==
  \/ PurgeStart
  \/ PurgeList
  \/ \E n \in Names : PurgeExamine(n) \/ PurgeRemove(n)
  \/ PurgeUncache
-----------------------------------------------------------------------------
(* Bug: names that do not parse are loaded like the others. *)
BugLoadMetadata == OnDisk

LoadMetadata == OnDisk \cap Metadata

(* The process dies at any point and `new` loads the directory again. *)
Restart ==
  /\ Fault
  /\ metadata_list' = LoadMetadata
  /\ put' = PutIdle
  /\ purge' = PurgeIdle
  /\ dangling' = {}
  /\ UNCHANGED <<clock, files, tmp>>

(* Assumed of the caller, and shown of the collector (StoresNewKeys in
   PreimageMaker): it never stores a metadata that is still stored or listed. *)
NewKey(m) == files[m].content = "none" /\ m \notin metadata_list

Step ==
  Tick \/ Upsert \/ UpsertFails \/ PurgeExpired \/ PurgeFails \/ Restart

Next == (\E m \in Metadata : NewKey(m) /\ UpsertBegin(m)) \/ Step

(* An upsert that started is polled to its end, and the purger's loop calls
   purge_expired again whatever it returned. *)
Fairness == WF_vars(Upsert) /\ WF_vars(PurgeExpired)

Spec == Init /\ [][Next]_vars
FairSpec == Spec /\ Fairness
-----------------------------------------------------------------------------
(* upsert writes aside and renames: whatever crashes, fails or interleaves, no
   file under a final name has incomplete bytes. *)
NoTornFile == \A n \in Names : files[n].content # "partial"

(* What upsert stored and has not yet inserted. *)
Inserting == IF put.pc = "insert" THEN {put.m} ELSE {}

(* The cache and the directory differ exactly by the calls in progress: by the
   file upsert has renamed and not inserted, by those the running purge has
   removed and not uncached, and by those a failed purge left behind. *)
CacheMatchesDisk ==
  metadata_list = ((OnDisk \cap Metadata) \ Inserting)
                    \cup purge.target_cached \cup dangling

Store == INSTANCE PreimageStore
           WITH Keys <- Metadata, now <- clock,
                since <- [m \in Metadata |-> files[m].mtime],
                stored <- OnDisk \cap Metadata, listed <- metadata_list

(* The repository implements the contract of PreimageStore: purge_expired never
   removes a preimage younger than the TTL, however it interleaves with upsert,
   and the cache is only ever extended by stored files and reduced by removed
   ones. *)
ImplementsStore == Store!Spec

(* Every file older than the TTL, parsable or not, is removed in the end, even
   when some purges fail. *)
ExpiredIsPurged ==
  \A n \in Names : (n \in OnDisk /\ clock >= files[n].mtime + Ttl)
                     ~> n \notin OnDisk

(* What tests/e2e.rs relies on: with no call in progress, every listed preimage
   can be fetched.  A purge whose remove_file failed has left the cache with the
   metadata of the files it removed before. *)
NoDirtyMetadata ==
  put.pc = "idle" /\ purge.pc = "idle" => metadata_list \subseteq OnDisk

(* A stored preimage is listed in the end, unless it is purged first. *)
StoredIsListed ==
  \A m \in Metadata : m \in OnDisk ~> (m \in metadata_list \/ m \notin OnDisk)
=============================================================================
