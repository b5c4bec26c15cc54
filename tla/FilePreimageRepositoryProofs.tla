-------------------- MODULE FilePreimageRepositoryProofs --------------------
(***************************************************************************)
(* For every set of metadata, TTL and number of faults: the cache and the  *)
(* directory agree up to the calls in progress, no file is torn, and the   *)
(* repository implements PreimageStore.                                    *)
(*                                                                         *)
(* CacheMatchesDisk is not inductive: that purge_expired cannot remove the *)
(* file upsert has renamed and not inserted rests on the ages of both      *)
(* (PutInv, PurgeInv), and that a removed file is uncached exactly once    *)
(* rests on the three ways out of the directory being disjoint.            *)
(***************************************************************************)
EXTENDS FilePreimageRepository, TLAPS

(* A written preimage is whole and younger than the TTL until it is inserted,
   and its name is new to the directory until it is renamed. *)
PutInv ==
  /\ put.pc \in {"write", "rename"} =>
       files[put.m].content = "none" /\ put.m \notin metadata_list
  /\ put.pc = "rename" =>
       /\ tmp[put.m].content = "whole"
       /\ tmp[put.m].mtime <= clock
       /\ clock < tmp[put.m].mtime + Ttl
  /\ put.pc = "insert" =>
       /\ files[put.m].content = "whole"
       /\ clock < files[put.m].mtime + Ttl

(* What the running purge still means to look at is on disk, what it means to
   remove has expired, what it has removed is gone. *)
PurgeInv ==
  /\ purge.now <= clock
  /\ purge.entries \subseteq OnDisk
  /\ purge.target \subseteq OnDisk
  /\ \A n \in purge.target : Expired(n)
  /\ purge.target_cached \cap OnDisk = {}
  /\ purge.target_cached \cap dangling = {}
  /\ dangling \cap OnDisk = {}
  /\ purge.pc # "run" =>
       purge.entries = {} /\ purge.target = {} /\ purge.target_cached = {}

(* A name that is not on disk has no time either. *)
AbsentInv == \A n \in Names : files[n].content = "none" => files[n] = NoFile

IInv == TypeOK /\ NoTornFile /\ CacheMatchesDisk /\ PutInv /\ PurgeInv /\ AbsentInv

-----------------------------------------------------------------------------
LEMMA InitIInv == Init => IInv
<1> SUFFICES ASSUME Init PROVE IInv
  OBVIOUS
<1>1. TypeOK
  BY TimeAssumption DEF Init, TypeOK, File, NoFile, PutIdle, PurgeIdle
<1>2. NoTornFile /\ AbsentInv
  BY DEF Init, NoTornFile, AbsentInv, NoFile
<1>3. CacheMatchesDisk
  BY NamesAssumption
     DEF Init, CacheMatchesDisk, OnDisk, Names, NoFile, Inserting, PutIdle, PurgeIdle
<1>4. PutInv /\ PurgeInv
  BY DEF Init, PutInv, PurgeInv, PutIdle, PurgeIdle
<1> QED BY <1>1, <1>2, <1>3, <1>4 DEF IInv

LEMMA TickIInv == IInv /\ Tick => IInv'
<1> SUFFICES ASSUME IInv, Tick PROVE IInv'
  OBVIOUS
<1> USE DEF IInv
<1>1. TypeOK'
  BY DEF TypeOK, Tick
<1>2. NoTornFile' /\ AbsentInv' /\ CacheMatchesDisk'
  BY DEF Tick, NoTornFile, AbsentInv, CacheMatchesDisk, OnDisk, Inserting
<1>3. PutInv'
  BY TimeAssumption DEF TypeOK, Tick, UpsertIsPrompt, PutInv, File
<1>4. PurgeInv'
  BY DEF TypeOK, Tick, PurgeInv, OnDisk, Expired
<1> QED BY <1>1, <1>2, <1>3, <1>4

LEMMA UpsertBeginIInv ==
  ASSUME NEW m \in Metadata, IInv, NewKey(m), UpsertBegin(m)
  PROVE  IInv'
<1> USE DEF IInv
<1>1. TypeOK'
  BY DEF TypeOK, UpsertBegin, File
<1>2. NoTornFile' /\ AbsentInv' /\ PurgeInv'
  BY DEF UpsertBegin, NoTornFile, AbsentInv, PurgeInv, OnDisk, Expired
<1>3. CacheMatchesDisk'
  BY DEF UpsertBegin, CacheMatchesDisk, OnDisk, Inserting
<1>4. PutInv'
  BY DEF UpsertBegin, PutInv, NewKey
<1> QED BY <1>1, <1>2, <1>3, <1>4

LEMMA UpsertWrittenIInv == IInv /\ UpsertWritten => IInv'
<1> SUFFICES ASSUME IInv, UpsertWritten PROVE IInv'
  OBVIOUS
<1> USE DEF IInv
<1>1. TypeOK'
  BY DEF TypeOK, UpsertWritten, File
<1>2. NoTornFile' /\ AbsentInv' /\ PurgeInv'
  BY DEF UpsertWritten, NoTornFile, AbsentInv, PurgeInv, OnDisk, Expired
<1>3. CacheMatchesDisk'
  BY DEF TypeOK, UpsertWritten, CacheMatchesDisk, OnDisk, Inserting
<1>4. PutInv'
  BY TimeAssumption DEF TypeOK, UpsertWritten, PutInv
<1> QED BY <1>1, <1>2, <1>3, <1>4

LEMMA UpsertRenameIInv == IInv /\ UpsertRename => IInv'
<1> SUFFICES ASSUME IInv, UpsertRename PROVE IInv'
  OBVIOUS
<1> USE DEF IInv
<1>1. put.m \in Metadata /\ put.m \in Names /\ tmp[put.m] \in File
  BY DEF TypeOK, UpsertRename, Names
<1>2. OnDisk' = OnDisk \cup {put.m} /\ put.m \notin OnDisk
  BY <1>1 DEF UpsertRename, OnDisk, TypeOK, PutInv, File
<1>3. TypeOK'
  BY <1>1 DEF TypeOK, UpsertRename, File, NoFile
<1>4. NoTornFile' /\ AbsentInv'
  BY <1>1 DEF TypeOK, UpsertRename, NoTornFile, AbsentInv, PutInv, File, NoFile
<1>5. CacheMatchesDisk'
  BY <1>1, <1>2 DEF TypeOK, UpsertRename, CacheMatchesDisk, Inserting
<1>6. PutInv'
  BY <1>1 DEF TypeOK, UpsertRename, PutInv
<1>7. put.m \notin purge.target_cached /\ put.m \notin dangling
  BY <1>1 DEF UpsertRename, PutInv, CacheMatchesDisk
<1>8. PurgeInv'
  BY <1>1, <1>2, <1>7 DEF TypeOK, UpsertRename, PurgeInv, Expired
<1> QED BY <1>3, <1>4, <1>5, <1>6, <1>8

LEMMA UpsertInsertIInv == IInv /\ UpsertInsert => IInv'
<1> SUFFICES ASSUME IInv, UpsertInsert PROVE IInv'
  OBVIOUS
<1> USE DEF IInv
<1>1. TypeOK'
  BY DEF TypeOK, UpsertInsert, PutIdle
<1>2. NoTornFile' /\ AbsentInv' /\ PurgeInv' /\ PutInv'
  BY DEF UpsertInsert, NoTornFile, AbsentInv, PurgeInv, OnDisk, Expired, PutInv, PutIdle
<1>3. CacheMatchesDisk'
  <2>1. put.m \in OnDisk \cap Metadata
    BY DEF UpsertInsert, PutInv, TypeOK, OnDisk, Names
  <2> QED BY <2>1 DEF UpsertInsert, CacheMatchesDisk, OnDisk, Inserting, PutIdle
<1> QED BY <1>1, <1>2, <1>3

LEMMA UpsertFailsIInv == IInv /\ UpsertFails => IInv'
<1> SUFFICES ASSUME IInv, UpsertFails PROVE IInv'
  OBVIOUS
<1> USE DEF IInv, UpsertFails, Fault
<1>1. TypeOK'
  BY TimeAssumption DEF TypeOK, PutIdle
<1>2. NoTornFile' /\ AbsentInv' /\ PurgeInv' /\ PutInv'
  BY DEF NoTornFile, AbsentInv, PurgeInv, OnDisk, Expired, PutInv, PutIdle
<1>3. CacheMatchesDisk'
  BY DEF CacheMatchesDisk, OnDisk, Inserting, PutIdle
<1> QED BY <1>1, <1>2, <1>3

LEMMA PurgeStartListIInv == IInv /\ (PurgeStart \/ PurgeList) => IInv'
<1> SUFFICES ASSUME IInv, PurgeStart \/ PurgeList PROVE IInv'
  OBVIOUS
<1> USE DEF IInv, PurgeStart, PurgeList, PurgeIdle, Entries
<1>1. TypeOK'
  BY DEF TypeOK, OnDisk
<1>2. NoTornFile' /\ AbsentInv' /\ PutInv'
  BY DEF NoTornFile, AbsentInv, PutInv
<1>3. PurgeInv'
  <2>1. OnDisk' = OnDisk
    BY DEF OnDisk
  <2>2. CASE PurgeStart
    BY <2>1, <2>2 DEF TypeOK, PurgeInv
  <2>3. CASE PurgeList
    <3>1. purge'.target = {} /\ purge'.target_cached = {}
      BY <2>3 DEF TypeOK, PurgeInv
    <3> QED BY <2>1, <2>3, <3>1 DEF TypeOK, PurgeInv
  <2> QED BY <2>2, <2>3
<1>4. CacheMatchesDisk'
  BY DEF TypeOK, CacheMatchesDisk, OnDisk, Inserting, PurgeInv
<1> QED BY <1>1, <1>2, <1>3, <1>4

LEMMA PurgeExamineIInv ==
  ASSUME NEW n \in Names, IInv, PurgeExamine(n)
  PROVE  IInv'
<1> USE DEF IInv
<1>1. TypeOK'
  BY DEF TypeOK, PurgeExamine
<1>2. NoTornFile' /\ AbsentInv' /\ PutInv'
  BY DEF PurgeExamine, NoTornFile, AbsentInv, PutInv
<1>3. PurgeInv'
  BY DEF TypeOK, PurgeExamine, PurgeInv, OnDisk, Expired
<1>4. CacheMatchesDisk'
  BY DEF TypeOK, PurgeExamine, CacheMatchesDisk, OnDisk, Inserting
<1> QED BY <1>1, <1>2, <1>3, <1>4

LEMMA PurgeRemoveIInv ==
  ASSUME NEW n \in Names, IInv, PurgeRemove(n)
  PROVE  IInv'
<1> USE DEF IInv
<1>1. TypeOK'
  BY DEF TypeOK, PurgeRemove, File, NoFile
<1>2. OnDisk' = OnDisk \ {n} /\ n \in OnDisk
  BY DEF TypeOK, PurgeRemove, OnDisk, NoFile
<1>3. n \notin Inserting
  <2> SUFFICES ASSUME put.pc = "insert", n = put.m PROVE FALSE
    BY DEF Inserting
  <2>1. files[n].mtime \in Nat /\ purge.now \in Nat /\ clock \in Nat
    BY DEF TypeOK, File
  <2> QED BY <2>1, TimeAssumption DEF PutInv, PurgeInv, PurgeRemove, Expired
<1>4. NoTornFile' /\ AbsentInv'
  BY DEF TypeOK, PurgeRemove, NoTornFile, AbsentInv, NoFile
<1>5. PutInv'
  BY <1>3 DEF TypeOK, PurgeRemove, PutInv, Inserting
<1>6. CacheMatchesDisk'
  BY <1>2, <1>3 DEF TypeOK, PurgeRemove, CacheMatchesDisk, Inserting
<1>7. PurgeInv'
  BY <1>2 DEF TypeOK, PurgeRemove, PurgeInv, Expired
<1> QED BY <1>1, <1>4, <1>5, <1>6, <1>7

LEMMA PurgeUncacheIInv == IInv /\ PurgeUncache => IInv'
<1> SUFFICES ASSUME IInv, PurgeUncache PROVE IInv'
  OBVIOUS
<1> USE DEF IInv
<1>1. TypeOK'
  BY DEF TypeOK, PurgeUncache, PurgeIdle
<1>2. NoTornFile' /\ AbsentInv' /\ PutInv'
  BY DEF PurgeUncache, NoTornFile, AbsentInv, PutInv
<1>3. CacheMatchesDisk'
  BY DEF PurgeUncache, CacheMatchesDisk, PurgeInv, PurgeIdle, OnDisk, Inserting
<1>4. PurgeInv'
  BY DEF TypeOK, PurgeUncache, PurgeInv, PurgeIdle, OnDisk
<1> QED BY <1>1, <1>2, <1>3, <1>4

LEMMA PurgeFailsIInv == IInv /\ PurgeFails => IInv'
<1> SUFFICES ASSUME IInv, PurgeFails PROVE IInv'
  OBVIOUS
<1> USE DEF IInv
<1>1. TypeOK'
  BY TimeAssumption DEF TypeOK, PurgeFails, PurgeIdle, Fault
<1>2. NoTornFile' /\ AbsentInv' /\ PutInv'
  BY DEF PurgeFails, NoTornFile, AbsentInv, PutInv
<1>3. CacheMatchesDisk'
  BY DEF PurgeFails, CacheMatchesDisk, PurgeIdle, OnDisk, Inserting
<1>4. PurgeInv'
  BY DEF TypeOK, PurgeFails, PurgeInv, PurgeIdle, OnDisk
<1> QED BY <1>1, <1>2, <1>3, <1>4

LEMMA RestartIInv == IInv /\ Restart => IInv'
<1> SUFFICES ASSUME IInv, Restart PROVE IInv'
  OBVIOUS
<1> USE DEF IInv
<1>1. TypeOK'
  BY TimeAssumption DEF TypeOK, Restart, PurgeIdle, PutIdle, Fault, LoadMetadata
<1>2. NoTornFile' /\ AbsentInv' /\ PutInv'
  BY DEF Restart, NoTornFile, AbsentInv, PutInv, PutIdle
<1>3. CacheMatchesDisk'
  BY DEF Restart, CacheMatchesDisk, PurgeIdle, PutIdle, OnDisk, Inserting, LoadMetadata
<1>4. PurgeInv'
  BY DEF TypeOK, Restart, PurgeInv, PurgeIdle, OnDisk
<1> QED BY <1>1, <1>2, <1>3, <1>4

LEMMA NextIInv == IInv /\ [Next]_vars => IInv'
<1> SUFFICES ASSUME IInv, [Next]_vars PROVE IInv'
  OBVIOUS
<1>1. CASE \E m \in Metadata : NewKey(m) /\ UpsertBegin(m)
  BY <1>1, UpsertBeginIInv
<1>2. CASE Tick
  BY <1>2, TickIInv
<1>3. CASE Upsert
  BY <1>3, UpsertWrittenIInv, UpsertRenameIInv, UpsertInsertIInv DEF Upsert
<1>4. CASE UpsertFails
  BY <1>4, UpsertFailsIInv
<1>5. CASE PurgeExpired
  BY <1>5, PurgeStartListIInv, PurgeExamineIInv, PurgeRemoveIInv, PurgeUncacheIInv
     DEF PurgeExpired
<1>6. CASE PurgeFails
  BY <1>6, PurgeFailsIInv
<1>7. CASE Restart
  BY <1>7, RestartIInv
<1>8. CASE UNCHANGED vars
  BY <1>8 DEF vars, IInv, TypeOK, NoTornFile, CacheMatchesDisk, PutInv, PurgeInv,
              AbsentInv, OnDisk, Inserting, Expired
<1> QED BY <1>1, <1>2, <1>3, <1>4, <1>5, <1>6, <1>7, <1>8 DEF Next, Step

LEMMA Inductive == Spec => []IInv
BY InitIInv, NextIInv, PTL DEF Spec

-----------------------------------------------------------------------------
(* The repository implements PreimageStore.  The invariant supplies what each
   step's abstract guard asks for. *)
LEMMA NextStore == IInv /\ [Next]_vars => [Store!Next]_(Store!storeVars)
<1> DEFINE since == [m \in Metadata |-> files[m].mtime]
           stored == OnDisk \cap Metadata
<1> SUFFICES ASSUME IInv, [Next]_vars
             PROVE  Store!Next \/ UNCHANGED <<clock, since, stored, metadata_list>>
  BY DEF Store!storeVars
<1> USE DEF IInv
<1>1. CASE \E m \in Metadata : NewKey(m) /\ UpsertBegin(m)
  BY <1>1 DEF UpsertBegin, OnDisk
<1>2. CASE Tick
  <2>1. Store!Pass
    BY <1>2 DEF TypeOK, Tick, Store!Pass, OnDisk
  <2> QED BY <2>1 DEF Store!Next
<1>3. CASE UpsertRename
  <2>1. PICK k \in Metadata : k = put.m /\ k \in Names /\ tmp[k] \in File
    BY <1>3 DEF TypeOK, UpsertRename, Names
  <2>2. OnDisk' = OnDisk \cup {k} /\ k \notin OnDisk
    BY <1>3, <2>1 DEF UpsertRename, OnDisk, TypeOK, PutInv, File
  <2>3. since' = [since EXCEPT ![k] = tmp[k].mtime]
    BY <1>3, <2>1 DEF UpsertRename, TypeOK, Names
  <2>4. tmp[k].mtime \in 0..clock
    BY <1>3, <2>1 DEF UpsertRename, TypeOK, PutInv, File
  <2>5. Store!Put(k)
    BY <1>3, <2>1, <2>2, <2>3, <2>4 DEF UpsertRename, Store!Put
  <2> QED BY <2>1, <2>5 DEF Store!Next
<1>4. CASE UpsertInsert
  <2>1. put.m \in Metadata /\ put.m \in OnDisk
    BY <1>4 DEF UpsertInsert, PutInv, TypeOK, OnDisk, Names
  <2>2. Store!Enlist(put.m)
    BY <1>4, <2>1 DEF UpsertInsert, Store!Enlist, OnDisk
  <2> QED BY <2>1, <2>2 DEF Store!Next
<1>5. CASE UpsertWritten \/ UpsertFails \/ PurgeFails
  BY <1>5 DEF UpsertWritten, UpsertFails, PurgeFails, OnDisk
<1>6. CASE PurgeStart \/ PurgeList \/ \E n \in Names : PurgeExamine(n)
  BY <1>6 DEF PurgeStart, PurgeList, PurgeExamine, OnDisk
<1>7. ASSUME NEW n \in Names, PurgeRemove(n)
      PROVE  Store!Next \/ UNCHANGED <<clock, since, stored, metadata_list>>
  <2>1. OnDisk' = OnDisk \ {n} /\ n \in OnDisk
    BY <1>7 DEF TypeOK, PurgeRemove, OnDisk, NoFile
  <2>2. CASE n \in Metadata
    <3>1. since' = [since EXCEPT ![n] = 0]
      BY <1>7, <2>2 DEF TypeOK, PurgeRemove, NoFile, Names
    <3>2. clock >= since[n] + Ttl
      <4>1. files[n].mtime \in Nat /\ purge.now \in Nat /\ clock \in Nat
        BY DEF TypeOK, File
      <4>2. purge.now >= files[n].mtime + Ttl /\ purge.now <= clock
        BY <1>7 DEF PurgeRemove, PurgeInv, Expired
      <4> QED BY <2>2, <4>1, <4>2, TimeAssumption
    <3>3. Store!Drop(n)
      BY <1>7, <2>1, <2>2, <3>1, <3>2 DEF PurgeRemove, Store!Drop, Store!Old
    <3> QED BY <2>2, <3>3 DEF Store!Next
  <2>3. CASE n \notin Metadata
    BY <1>7, <2>1, <2>3 DEF TypeOK, PurgeRemove, Names
  <2> QED BY <2>2, <2>3
<1>8. CASE PurgeUncache
  <2> DEFINE gone == purge.target_cached
  <2>1. gone \in SUBSET Metadata /\ gone \cap (OnDisk \cap Metadata) = {}
    BY DEF TypeOK, PurgeInv
  <2>2. Store!Delist(gone)
    BY <1>8, <2>1 DEF PurgeUncache, Store!Delist, OnDisk
  <2> QED BY <2>1, <2>2 DEF Store!Next
<1>9. CASE Restart
  <2>1. Store!Reopen
    BY <1>9 DEF Restart, Store!Reopen, OnDisk, LoadMetadata
  <2> QED BY <2>1 DEF Store!Next
<1>10. CASE UNCHANGED vars
  BY <1>10 DEF vars, OnDisk
<1> QED BY <1>1, <1>2, <1>3, <1>4, <1>5, <1>6, <1>7, <1>8, <1>9, <1>10
        DEF Next, Step, Upsert, PurgeExpired

LEMMA InitStore == Init => Store!Init
<1> SUFFICES ASSUME Init PROVE Store!Init
  OBVIOUS
<1>1. \A m \in Metadata : files[m] = NoFile
  BY NamesAssumption DEF Init, Names
<1>2. [m \in Metadata |-> files[m].mtime] = [m \in Metadata |-> 0]
  BY <1>1 DEF NoFile
<1>3. OnDisk \cap Metadata = {}
  BY <1>1 DEF OnDisk, NoFile
<1> QED BY <1>2, <1>3 DEF Init, Store!Init

-----------------------------------------------------------------------------
(* The variables keep their types. *)
THEOREM TypeCorrect == Spec => []TypeOK
BY Inductive, PTL DEF IInv

(* No crash, failure or interleaving leaves an incomplete file under the name
   of a preimage. *)
THEOREM NeverTorn == Spec => []NoTornFile
BY Inductive, PTL DEF IInv

(* The cache differs from the directory only by the upsert and the purge in
   progress and by the leftovers of failed purges. *)
THEOREM CacheExact == Spec => []CacheMatchesDisk
BY Inductive, PTL DEF IInv

(* The file repository refines the abstract store: in particular no preimage is
   removed before its TTL and none is listed that was never stored. *)
THEOREM Refinement == Spec => ImplementsStore
<1>1. Spec => Store!Init /\ [][Store!Next]_(Store!storeVars)
  BY InitStore, Inductive, NextStore, PTL DEF Spec
<1> QED BY <1>1, PTL DEF ImplementsStore, Store!Spec
=============================================================================
