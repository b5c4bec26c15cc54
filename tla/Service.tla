------------------------------- MODULE Service -------------------------------
(***************************************************************************)
(* The process and its readers: the start-up of server/src/main.rs and the *)
(* select! that ends the process with the first task that ends, the        *)
(* handlers of server/src/web.rs, and a reader that asks them in the order *)
(* of server/tests/e2e.rs, again and again, for what it does not have yet. *)
(*                                                                         *)
(* The preimage repository is PreimageStore; the collector is what Collector*)
(* promises, one upsert after the other; the purger removes what it may in *)
(* any order, and L1 data at any time.                                     *)
(***************************************************************************)
EXTENDS Integers, SequencesExt

CONSTANTS
  Distance, InitialClaimed, L1Blocks, SafeL2,  \* as in ClaimChain
  MaxL2,      \* bound: the last L2 block of a run
  Devnet,     \* the chain is not in the registry of rollup configurations
  Ttl,
  UpsertTime, \* an upsert returns this long after its file is written, or before
  MaxClock,   \* bound: the last instant of a run
  MaxFaults   \* bound: start-ups and tasks that fail in a run

ASSUME OptionsAssumption ==
  /\ Distance \in Nat \ {0} /\ Ttl \in Nat \ {0} /\ Devnet \in BOOLEAN
  /\ UpsertTime \in 0..(Ttl - 1)
  /\ InitialClaimed \in Nat \ {0}  \* list_metadata refuses a gt_claimed of 0
ASSUME ChainAssumption ==
  MaxL2 \in Nat /\ InitialClaimed <= MaxL2 /\ SafeL2 \in [L1Blocks -> 0..MaxL2]
ASSUME BoundsAssumption == MaxClock \in Nat /\ MaxFaults \in Nat

VARIABLES
  clock,
  since, stored, listed,  \* the preimage repository, as in PreimageStore
  finalized_l1,  \* the heads whose light-client data is stored
  phase,    \* where main is, or "down"
  tasks,    \* its three tasks: spawned, at work, or ended
  reached,  \* the last block the collector claimed
  writing,  \* the metadata whose upsert is between its rename and its return
  reader,   \* [pc, have, asof, began, latest, todo]
  faults

store == <<since, stored, listed>>
process == <<phase, tasks>>
collector == <<reached, writing>>
vars == <<clock, store, finalized_l1, process, collector, reader, faults>>

Tasks == {"http", "collector", "purger"}
StartUp == {"chain_id", "rollup_config", "repositories"}

Claim(a, h) == [agreed |-> a, claimed |-> a + Distance, l1_head |-> h]
Keys == {Claim(a, h) : a \in InitialClaimed..(MaxL2 - Distance), h \in L1Blocks}

Store == INSTANCE PreimageStore WITH now <- clock

TypeOK ==
  /\ clock \in Nat /\ faults \in Nat
  /\ since \in [Keys -> 0..clock]
  /\ stored \subseteq Keys /\ listed \subseteq Keys
  /\ finalized_l1 \subseteq L1Blocks
  /\ phase \in StartUp \cup {"running", "down"}
  /\ tasks \in [Tasks -> {"new", "up", "ended"}]
  /\ reached \in InitialClaimed..MaxL2
  /\ writing \subseteq Keys
  /\ reader \in [pc : {"idle", "list", "finalized_l1", "preimage"},
                 have : InitialClaimed..MaxL2, latest : InitialClaimed..MaxL2,
                 asof : 0..clock, began : 0..clock, todo : Seq(Keys)]

Init ==
  /\ clock = 0
  /\ since = [m \in Keys |-> 0] /\ stored = {} /\ listed = {}
  /\ finalized_l1 = {}
  /\ phase = "chain_id"
  /\ tasks = [t \in Tasks |-> "ended"]
  /\ reached = InitialClaimed /\ writing = {}
  /\ reader = [pc |-> "idle", have |-> InitialClaimed, asof |-> 0, began |-> 0,
               latest |-> InitialClaimed, todo |-> <<>>]
  /\ faults = 0

Fault == faults < MaxFaults /\ faults' = faults + 1

(* The process is gone with its tasks and their locals. *)
Down ==
  /\ phase' = "down"
  /\ tasks' = [t \in Tasks |-> "ended"]
  /\ reached' = InitialClaimed /\ writing' = {}

(* As in PreimageMaker, an upsert returns before its file is a TTL old. *)
Tick ==
  /\ clock < MaxClock
  /\ \A m \in writing : clock < since[m] + UpsertTime
  /\ clock' = clock + 1
  /\ UNCHANGED <<store, finalized_l1, process, collector, reader, faults>>
-----------------------------------------------------------------------------
(* main *)
ChainId ==
  /\ phase = "chain_id"
  /\ phase' = IF Devnet THEN "rollup_config" ELSE "repositories"
  /\ UNCHANGED <<clock, store, finalized_l1, tasks, collector, reader, faults>>

RollupConfig ==
  /\ phase = "rollup_config"
  /\ phase' = "repositories"
  /\ UNCHANGED <<clock, store, finalized_l1, tasks, collector, reader, faults>>

(* A node does not answer, or a directory cannot be read. *)
StartUpFails ==
  /\ phase \in StartUp
  /\ Fault
  /\ Down
  /\ UNCHANGED <<clock, store, finalized_l1, reader>>

(* The cache is loaded from the directory, and the tasks are spawned. *)
Spawn ==
  /\ phase = "repositories"
  /\ Store!Reopen
  /\ phase' = "running"
  /\ tasks' = [t \in Tasks |-> IF t = "purger" THEN "up" ELSE "new"]
  /\ UNCHANGED <<clock, finalized_l1, collector, reader, faults>>

(* The HTTP server cannot bind its address or stops, or a task panics; so does
   one that meets the lock of the cache poisoned. *)
TaskEnds(t) ==
  /\ phase = "running"
  /\ tasks[t] # "ended"
  /\ Fault
  /\ tasks' = [tasks EXCEPT ![t] = "ended"]
  /\ UNCHANGED <<clock, store, finalized_l1, phase, collector, reader>>

(* Bug: main awaits the HTTP server only. *)
BugSelected == tasks["http"] = "ended"

Selected == \E t \in Tasks : tasks[t] = "ended"

Exit ==
  /\ phase = "running"
  /\ Selected
  /\ Down
  /\ UNCHANGED <<clock, store, finalized_l1, reader, faults>>

(* Whoever supervises the process starts it again. *)
Respawn ==
  /\ phase = "down"
  /\ phase' = "chain_id"
  /\ UNCHANGED <<clock, store, finalized_l1, tasks, collector, reader, faults>>

Up(t) == phase = "running" /\ tasks[t] = "up"
-----------------------------------------------------------------------------
(* The collector's task.  The purger may run before its first step. *)
Latest == {m \in listed : \A n \in listed : n.claimed <= m.claimed}

BugFirstReached == IF Latest = {} THEN {0} ELSE {m.claimed : m \in Latest}
FirstReached ==
  IF Latest = {} THEN {InitialClaimed} ELSE {m.claimed : m \in Latest}

CollectorStarts ==
  /\ phase = "running" /\ tasks["collector"] = "new"
  /\ tasks' = [tasks EXCEPT !["collector"] = "up"]
  /\ reached' \in FirstReached
  /\ UNCHANGED <<clock, store, finalized_l1, phase, writing, reader, faults>>

CollectorSavesL1(h) ==
  /\ Up("collector") /\ writing = {}
  /\ finalized_l1' = finalized_l1 \cup {h}
  /\ UNCHANGED <<clock, store, process, collector, reader, faults>>

(* Bug: the tasks store their preimages themselves, each when it is done. *)
BugMayStore == TRUE

MayStore == writing = {}

CollectorStores(h) ==
  /\ Up("collector")
  /\ MayStore
  /\ reached + Distance <= SafeL2[h]
  /\ LET m == Claim(reached, h) IN
       /\ Store!Put(m) /\ clock <= since'[m] + UpsertTime
       /\ writing' = writing \cup {m}
       /\ reached' = m.claimed
  /\ UNCHANGED <<finalized_l1, process, reader, faults>>

CollectorLists(m) ==
  /\ Up("collector")
  /\ m \in writing
  /\ Store!Enlist(m)
  /\ writing' = writing \ {m}
  /\ UNCHANGED <<finalized_l1, process, reached, reader, faults>>

PurgerDrops(m) ==
  /\ Up("purger")
  /\ Store!Drop(m)
  /\ UNCHANGED <<finalized_l1, process, collector, reader, faults>>

(* A purge gets to the cache when all that had expired is removed, and what was
   stored before an expired preimage has expired too. *)
PurgerDelists(gone) ==
  /\ Up("purger")
  /\ \A m \in stored, n \in gone : n.claimed < m.claimed
  /\ Store!Delist(gone)
  /\ UNCHANGED <<finalized_l1, process, collector, reader, faults>>

PurgerDropsL1(h) ==
  /\ Up("purger")
  /\ finalized_l1' = finalized_l1 \ {h}
  /\ UNCHANGED <<clock, store, process, collector, reader, faults>>
-----------------------------------------------------------------------------
(* The handlers.  Each one reads one repository. *)
BadRange(gt, lt) == gt = 0 \/ lt = 0 \/ lt <= gt

ListMetadata(gt, lt) ==
  CHOOSE s \in SetToSeqs({m \in listed : gt < m.claimed /\ m.claimed < lt}) :
    \A i, j \in DOMAIN s : i < j => s[i].claimed <= s[j].claimed

BadMetadata(m) == m.claimed = 0 \/ m.agreed >= m.claimed

GetPreimage(m) == ~BadMetadata(m) /\ m \in stored
GetFinalizedL1(h) == h \in finalized_l1
-----------------------------------------------------------------------------
(* The reader.  What it cannot get it leaves out.  It is up to date as of the
   time it asked for the latest metadata once it has fetched that preimage; a
   latest metadata it has already proves nothing, as the cache may be dirty. *)
Idle(r) == [r EXCEPT !.pc = "idle", !.todo = <<>>, !.began = 0, !.latest = InitialClaimed]

Proceed(r, todo) ==
  IF todo = <<>> THEN Idle(r) ELSE [r EXCEPT !.pc = "finalized_l1", !.todo = todo]

others == <<clock, store, finalized_l1, process, collector, faults>>

AskLatest ==
  /\ Up("http") /\ reader.pc = "idle"
  /\ \/ Latest = {} /\ UNCHANGED reader
     \/ \E m \in Latest :
          reader' = [reader EXCEPT !.pc = "list", !.latest = m.claimed, !.began = clock]
  /\ UNCHANGED others

AskList ==
  /\ Up("http") /\ reader.pc = "list"
  /\ reader' = IF BadRange(reader.have, reader.latest + 1)
                 THEN Idle(reader)
                 ELSE Proceed(reader, ListMetadata(reader.have, reader.latest + 1))
  /\ UNCHANGED others

AskFinalizedL1 ==
  /\ Up("http") /\ reader.pc = "finalized_l1"
  /\ reader' = IF GetFinalizedL1(Head(reader.todo).l1_head)
                 THEN [reader EXCEPT !.pc = "preimage"]
                 ELSE Proceed(reader, Tail(reader.todo))
  /\ UNCHANGED others

AskPreimage ==
  LET m == Head(reader.todo) IN
  /\ Up("http") /\ reader.pc = "preimage"
  /\ GetPreimage(m)
  /\ reader' = Proceed([reader EXCEPT
                   !.have = m.claimed,
                   !.asof = IF m.claimed = reader.latest THEN reader.began ELSE @],
                 Tail(reader.todo))
  /\ UNCHANGED others

MissPreimage ==
  /\ Up("http") /\ reader.pc = "preimage"
  /\ ~GetPreimage(Head(reader.todo))
  /\ reader' = Proceed(reader, Tail(reader.todo))
  /\ UNCHANGED others

(* No server answers, and the reader will begin again. *)
Disconnect ==
  /\ ~Up("http") /\ reader.pc # "idle"
  /\ reader' = Idle(reader)
  /\ UNCHANGED others

Bind ==
  /\ phase = "running" /\ tasks["http"] = "new"
  /\ tasks' = [tasks EXCEPT !["http"] = "up"]
  /\ UNCHANGED <<clock, store, finalized_l1, phase, collector, reader, faults>>

Main == ChainId \/ RollupConfig \/ Spawn \/ CollectorStarts \/ Bind \/ Exit
Reader ==
  AskLatest \/ AskList \/ AskFinalizedL1 \/ AskPreimage \/ MissPreimage \/ Disconnect

Next ==
  \/ Tick
  \/ Main \/ StartUpFails \/ Respawn \/ \E t \in Tasks : TaskEnds(t)
  \/ \E h \in L1Blocks : CollectorSavesL1(h) \/ CollectorStores(h) \/ PurgerDropsL1(h)
  \/ \E m \in Keys : CollectorLists(m) \/ PurgerDrops(m)
  \/ \E gone \in SUBSET (listed \ stored) : PurgerDelists(gone)
  \/ Reader

(* The runtime polls main and the tasks, the process is supervised, and the
   reader comes back. *)
Fairness ==
  /\ WF_vars(Main) /\ WF_vars(Respawn)
  /\ WF_vars(\E m \in Keys : CollectorLists(m))
  /\ WF_vars(Reader)

Spec == Init /\ [][Next]_vars
FairSpec == Spec /\ Fairness
-----------------------------------------------------------------------------
(* The oldest preimage the reader does not know of may have been written, but not
   listed, that long before it asked. *)
InTime == clock + UpsertTime < reader.asof + Ttl

(* A reader that comes back within a TTL, less the time of an upsert, finds what
   it is offered to be the unbroken continuation of what it has: no upsert in
   progress, purge or restart between its requests leaves a hole or an overlap. *)
NothingMissed ==
  [][AskList /\ InTime =>
       \A i \in DOMAIN reader'.todo :
         reader'.todo[i].agreed =
           IF i = 1 THEN reader.have ELSE reader'.todo[i - 1].claimed]_vars

(* ... and every preimage that it was offered is there when it asks for it. *)
GoneOnlyIfOld == [][MissPreimage => ~InTime]_vars

(* Whatever task or start-up fails, a stored preimage gets to the reader,
   unless it or its L1 data is purged first. *)
ReaderCatchesUp ==
  \A m \in Keys :
    m \in stored ~> \/ reader.have >= m.claimed
                    \/ m \notin stored \/ m.l1_head \notin finalized_l1
=============================================================================
