--------------------- MODULE FinalizedL1RepositoryProofs ---------------------
(* That a reader of the L1 data never finds half a file, for every set of heads,
   TTL and bound. *)
EXTENDS FinalizedL1Repository, TLAPS

(* The temporary file that is about to be renamed is whole. *)
PutInv == l1_put.pc = "rename" => l1_tmp[l1_put.h].content = "whole"

IInv == TypeOK /\ NoTornFile /\ PutInv
-----------------------------------------------------------------------------
LEMMA IdleType ==
  /\ NoFile \in File
  /\ PutIdle \in [pc : {"idle", "write", "rename"}, h : Heads \cup {NoHead}]
  /\ PurgeIdle \in [pc : {"idle", "list", "run"}, now : Nat,
                    entries : SUBSET Heads, expired : Heads \cup {NoHead}]
  BY DEF NoFile, File, PutIdle, PurgeIdle

LEMMA InitInv == Init => IInv
<1> SUFFICES ASSUME Init PROVE IInv
  OBVIOUS
<1>1. TypeOK
  BY IdleType, TimeAssumption DEF Init, TypeOK, PutIdle
<1>2. NoTornFile /\ PutInv
  BY DEF Init, NoTornFile, PutInv, NoFile, PutIdle
<1> QED BY <1>1, <1>2 DEF IInv

LEMMA WrittenType ==
  ASSUME NEW t \in Nat, NEW c \in {"partial", "whole"}
  PROVE  [content |-> c, mtime |-> t] \in File
  BY DEF File

LEMMA FaultType == TypeOK /\ Fault => faults' \in 0..MaxFaults
  BY TimeAssumption DEF TypeOK, Fault

LEMMA NextType == TypeOK /\ [Next]_vars => TypeOK'
<1> SUFFICES ASSUME TypeOK, [Next]_vars PROVE TypeOK'
  OBVIOUS
<1> USE DEF TypeOK
<1>1. CASE Tick
  BY <1>1 DEF Tick
<1>2. CASE \E h \in Heads : UpsertBegin(h)
  <2> PICK h \in Heads : UpsertBegin(h)
    BY <1>2
  <2>1. [content |-> "partial", mtime |-> clock] \in File
    BY WrittenType
  <2> QED BY <2>1 DEF UpsertBegin
<1>3. CASE UpsertWritten
  BY <1>3, WrittenType DEF UpsertWritten
<1>4. CASE UpsertRename
  BY <1>4, IdleType DEF UpsertRename, PutIdle
<1>5. CASE UpsertFails
  BY <1>5, IdleType, FaultType DEF UpsertFails, PutIdle
<1>6. CASE PurgeStart
  BY <1>6, IdleType DEF PurgeStart, PurgeNow
<1>7. CASE PurgeList
  BY <1>7 DEF PurgeList, OnDisk
<1>8. CASE \E h \in Heads : PurgeExamine(h)
  BY <1>8 DEF PurgeExamine
<1>9. CASE \E h \in Heads : PurgeRemove(h)
  BY <1>9, IdleType DEF PurgeRemove
<1>10. CASE PurgeDone
  BY <1>10, IdleType DEF PurgeDone
<1>11. CASE PurgeFails
  BY <1>11, IdleType, FaultType DEF PurgeFails
<1>12. CASE Restart
  BY <1>12, IdleType, FaultType DEF Restart, PutIdle
<1>13. CASE UNCHANGED vars
  BY <1>13 DEF vars
<1> QED BY <1>1, <1>2, <1>3, <1>4, <1>5, <1>6, <1>7, <1>8, <1>9, <1>10, <1>11, <1>12,
           <1>13 DEF Next, Upsert, PurgeExpired

LEMMA NextWhole == IInv /\ [Next]_vars => NoTornFile' /\ PutInv'
<1> SUFFICES ASSUME IInv, [Next]_vars PROVE NoTornFile' /\ PutInv'
  OBVIOUS
<1> USE DEF IInv, NoTornFile, PutInv, TypeOK
<1>1. CASE \E h \in Heads : UpsertBegin(h)
  BY <1>1 DEF UpsertBegin
<1>2. CASE UpsertWritten
  BY <1>2 DEF UpsertWritten
<1>3. CASE UpsertRename
  BY <1>3 DEF UpsertRename, PutIdle
<1>4. CASE UpsertFails \/ Restart
  BY <1>4 DEF UpsertFails, Restart, PutIdle
<1>5. CASE \E h \in Heads : PurgeRemove(h)
  BY <1>5 DEF PurgeRemove, NoFile
<1>6. CASE Tick \/ PurgeStart \/ PurgeList \/ PurgeDone \/ PurgeFails
           \/ \E h \in Heads : PurgeExamine(h)
  BY <1>6 DEF Tick, PurgeStart, PurgeList, PurgeDone, PurgeFails, PurgeExamine
<1>7. CASE UNCHANGED vars
  BY <1>7 DEF vars
<1> QED BY <1>1, <1>2, <1>3, <1>4, <1>5, <1>6, <1>7 DEF Next, Upsert, PurgeExpired

LEMMA Invariant == Spec => []IInv
<1>1. IInv /\ [Next]_vars => IInv'
  BY NextType, NextWhole DEF IInv
<1> QED BY InitInv, <1>1, PTL DEF Spec

(* The directory and the locals of upsert and purge_expired stay in their types,
   for every constant. *)
THEOREM TypeCorrect == Spec => []TypeOK
<1>1. IInv => TypeOK
  BY DEF IInv
<1> QED BY Invariant, <1>1, PTL

(* get never reads incomplete JSON: fs::write goes to a temporary file, which is
   renamed only after it succeeded; a renewal overwrites a whole file by a whole
   one, and what a failed upsert or a crash leaves is overwritten, not renamed. *)
THEOREM NeverTorn == Spec => []NoTornFile
<1>1. IInv => NoTornFile
  BY DEF IInv
<1> QED BY Invariant, <1>1, PTL
=============================================================================
