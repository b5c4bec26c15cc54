---------------------------- MODULE ServiceProofs ----------------------------
(***************************************************************************)
(* For every distance, TTL, chain and number of faults: a reader that      *)
(* comes back within a TTL, less the time of an upsert, is offered the     *)
(* unbroken continuation of what it has, and finds every preimage that it  *)
(* was offered.                                                            *)
(*                                                                         *)
(* Both rest on Continues(b, t): what is stored behind block b was stored  *)
(* at t or later, or at most an upsert before it, and, until the first of  *)
(* it may expire, follows on b without a hole.  Every step of the          *)
(* service keeps it for any b and t, so that it holds of what the reader   *)
(* has and the time it knows it as of; it is established for the latest    *)
(* metadata, when the reader asks for it.                                  *)
(***************************************************************************)
EXTENDS Service, FiniteSetTheorems, FunctionTheorems, TLAPS

(* The blocks the service claims. *)
Grid == {InitialClaimed + k * Distance : k \in Nat}

Rows == stored \cup listed
Collecting == phase = "running" /\ tasks["collector"] = "up"

Aligned == reached \in Grid /\ \A m \in Rows : m.agreed \in Grid

UniqueClaims == \A m, n \in Rows : m.claimed = n.claimed => m = n

(* Only an upsert in progress is stored and not listed; it is the last claim of
   the collector and, unless it is the only one stored, follows a listed one. *)
WritingInv ==
  /\ phase # "running" \/ tasks["collector"] = "new" => writing = {}
  /\ phase = "running" => stored \ listed \subseteq writing
  /\ \A w \in writing :
       /\ w \in stored /\ since[w] + UpsertTime >= clock /\ w.claimed = reached
       /\ \A m \in Rows : m.claimed <= w.claimed
       /\ stored # {w} => \E n \in listed : n.claimed = w.agreed

(* The collector goes on from the latest of what is stored and listed. *)
CollectorInv ==
  Collecting =>
    /\ \A m \in Rows : m.claimed <= reached
    /\ stored # {} => \E n \in listed \cup writing : n.claimed = reached

Continues(b, t) ==
  /\ \A m \in stored : m.claimed > b => since[m] + UpsertTime >= t
  /\ clock + UpsertTime < t + Ttl =>
       /\ \A m \in listed \ stored : m.claimed <= b
       /\ \A m \in stored : m.claimed > b =>
            m.agreed = b \/ \E p \in stored : p.claimed = m.agreed
       /\ Collecting /\ reached > b => \E p \in stored : p.claimed = reached

(* The latest metadata proves nothing unless its preimage is there. *)
ReaderOk(r) ==
  /\ r.have \in Grid /\ r.latest \in Grid
  /\ Continues(r.have, r.asof)
  /\ r.pc # "idle" /\ (\E m \in stored : m.claimed = r.latest)
       => Continues(r.latest, r.began)

Offered(r, m) ==
  /\ m.agreed \in Grid
  /\ r.have < m.claimed /\ m.claimed <= r.latest
  /\ m \in stored \/ clock + UpsertTime >= r.asof + Ttl

Ascending(s) == \A i, j \in DOMAIN s : i < j => s[i].claimed < s[j].claimed

TodoOk(r) ==
  /\ r.pc \in {"finalized_l1", "preimage"} <=> r.todo # <<>>
  /\ Ascending(r.todo)
  /\ \A i \in DOMAIN r.todo : Offered(r, r.todo[i])

StoreInv == Aligned /\ UniqueClaims /\ WritingInv /\ CollectorInv

IInv == TypeOK /\ StoreInv /\ ReaderOk(reader) /\ TodoOk(reader)
-----------------------------------------------------------------------------
(* Two claimed blocks are a distance apart or more. *)
LEMMA GridFacts ==
  /\ Grid \subseteq Nat /\ InitialClaimed \in Grid
  /\ \A b \in Grid : InitialClaimed <= b /\ b + Distance \in Grid
  /\ \A a, b \in Grid : a < b => a + Distance <= b
<1>1. Distance \in Nat /\ Distance > 0 /\ InitialClaimed \in Nat
  BY OptionsAssumption
<1>2. \A k \in Nat : k * Distance \in Nat /\ (k + 1) * Distance = k * Distance + Distance
  BY <1>1
<1>3. \A b \in Grid : b \in Nat /\ InitialClaimed <= b
  BY <1>1, <1>2 DEF Grid
<1>4. InitialClaimed \in Grid
  <2>1. InitialClaimed = InitialClaimed + 0 * Distance
    BY <1>1
  <2> QED BY <2>1 DEF Grid
<1>5. ASSUME NEW b \in Grid
      PROVE  b + Distance \in Grid
  <2>1. PICK k \in Nat : b = InitialClaimed + k * Distance
    BY DEF Grid
  <2>2. b + Distance = InitialClaimed + (k + 1) * Distance
    BY <1>1, <1>2, <2>1
  <2> QED BY <2>2 DEF Grid
<1>6. ASSUME NEW a \in Grid, NEW b \in Grid, a < b
      PROVE  a + Distance <= b
  <2>1. PICK k \in Nat : a = InitialClaimed + k * Distance
    BY DEF Grid
  <2>2. PICK l \in Nat : b = InitialClaimed + l * Distance
    BY DEF Grid
  <2>3. k * Distance < l * Distance
    BY <1>1, <1>2, <1>6, <2>1, <2>2
  <2>4. k + 1 <= l
    <3> SUFFICES ASSUME l <= k PROVE FALSE
      OBVIOUS
    <3>1. l * Distance <= k * Distance
      BY <1>1
    <3> QED BY <1>2, <2>3, <3>1
  <2>5. (k + 1) * Distance <= l * Distance
    BY <1>1, <2>4
  <2> QED BY <1>1, <1>2, <2>1, <2>2, <2>5
<1> QED BY <1>3, <1>4, <1>5, <1>6

LEMMA KeyFacts ==
  ASSUME NEW m \in Keys
  PROVE  /\ m.agreed \in Nat /\ m.claimed \in InitialClaimed..MaxL2
         /\ m.claimed = m.agreed + Distance /\ m.l1_head \in L1Blocks
         /\ m.agreed \in Grid => m.claimed \in Grid
         /\ \A b \in Grid : m.agreed \in Grid /\ m.claimed > b => b <= m.agreed
<1>1. PICK a \in InitialClaimed..(MaxL2 - Distance), h \in L1Blocks : m = Claim(a, h)
  BY DEF Keys
<1>2. /\ m.agreed = a /\ m.claimed = a + Distance /\ m.l1_head = h
      /\ a \in Nat /\ a + Distance \in InitialClaimed..MaxL2
  BY <1>1, OptionsAssumption, ChainAssumption DEF Claim
<1> QED BY <1>2, GridFacts, OptionsAssumption
-----------------------------------------------------------------------------
(* What list_metadata returns: the listed metadata of the range, each once and
   in ascending order. *)
LEMMA FiniteRows ==
  ASSUME TypeOK, UniqueClaims, NEW S \in SUBSET listed
  PROVE  IsFiniteSet(S)
<1> DEFINE f == [m \in S |-> m.claimed]
<1>1. f \in [S -> InitialClaimed..MaxL2]
  BY KeyFacts DEF TypeOK
<1>2. f \in Injection(S, InitialClaimed..MaxL2)
  BY <1>1, Fun_IsInj DEF UniqueClaims, Rows
<1>3. IsFiniteSet(InitialClaimed..MaxL2)
  BY FS_Interval, OptionsAssumption, ChainAssumption
<1> QED BY <1>2, <1>3, FS_Injection

LEMMA SortedExists ==
  ASSUME NEW S, IsFiniteSet(S), \A m \in S : m.claimed \in Int,
         \A m, n \in S : m.claimed = n.claimed => m = n
  PROVE  \E s \in SetToSeqs(S) : \A i, j \in DOMAIN s : i < j => s[i].claimed <= s[j].claimed
<1> DEFINE below(m) == {n \in S : n.claimed <= m.claimed}
           rank == [m \in S |-> Cardinality(below(m))]
           N == Cardinality(S)
<1>1. N \in Nat /\ IsFiniteSet(1..N) /\ Cardinality(1..N) = N
  BY FS_CardinalityType, FS_Interval
<1>2. ASSUME NEW m \in S
      PROVE  IsFiniteSet(below(m)) /\ rank[m] \in 1..N
  <2>1. IsFiniteSet(below(m)) /\ Cardinality(below(m)) <= N
    BY FS_Subset
  <2>2. Cardinality(below(m)) \in Nat /\ Cardinality(below(m)) # 0
    BY <2>1, FS_CardinalityType, FS_EmptySet
  <2> QED BY <1>1, <2>1, <2>2
<1>3. ASSUME NEW m \in S, NEW n \in S, m.claimed < n.claimed
      PROVE  rank[m] < rank[n]
  <2>1. below(m) \in SUBSET below(n) /\ n \in below(n) \ below(m)
    BY <1>3
  <2>2. Cardinality(below(m)) <= Cardinality(below(n)) /\ Cardinality(below(m)) # Cardinality(below(n))
    BY <1>2, <2>1, FS_Subset
  <2> QED BY <1>1, <1>2, <2>2
<1> HIDE DEF rank, N
<1>4. rank \in [S -> 1..N]
  BY <1>2 DEF rank
<1>5. rank \in Injection(S, 1..N)
  BY <1>1, <1>3, <1>4, Fun_IsInj
<1>6. rank \in Surjection(S, 1..N)
  BY <1>1, <1>5, FS_Injection DEF N
<1> DEFINE s == [i \in 1..N |-> CHOOSE m \in S : rank[m] = i]
<1>7. \A i \in 1..N : s[i] \in S /\ rank[s[i]] = i
  BY <1>6 DEF Surjection
<1> HIDE DEF s
<1>8. s \in [1..N -> S]
  BY <1>7 DEF s
<1>9. s \in SetToSeqs(S)
  BY <1>7, <1>8 DEF SetToSeqs, N
<1>10. ASSUME NEW i \in 1..N, NEW j \in 1..N, i < j
       PROVE  s[i].claimed <= s[j].claimed
  <2>1. s[i] \in S /\ s[j] \in S /\ rank[s[i]] = i /\ rank[s[j]] = j
    BY <1>7
  <2>2. ~(s[j].claimed < s[i].claimed)
    BY <1>1, <1>3, <1>10, <2>1
  <2> QED BY <2>1, <2>2
<1> QED BY <1>8, <1>9, <1>10

LEMMA Listing ==
  ASSUME TypeOK, UniqueClaims, NEW gt \in Nat, NEW lt \in Nat
  PROVE  LET s == ListMetadata(gt, lt)
             S == {m \in listed : gt < m.claimed /\ m.claimed < lt}
         IN  /\ s \in Seq(S) /\ Ascending(s)
             /\ \A m \in S : \E i \in DOMAIN s : s[i] = m
<1> DEFINE s == ListMetadata(gt, lt)
           S == {m \in listed : gt < m.claimed /\ m.claimed < lt}
<1>1. IsFiniteSet(S) /\ Cardinality(S) \in Nat
  BY FiniteRows, FS_CardinalityType
<1>2. \A m \in S : m.claimed \in Int
  BY KeyFacts DEF TypeOK
<1>3. \A m, n \in S : m.claimed = n.claimed => m = n
  BY DEF UniqueClaims, Rows
<1>4. s \in SetToSeqs(S) /\ \A i, j \in DOMAIN s : i < j => s[i].claimed <= s[j].claimed
  <2> HIDE DEF S
  <2>1. \E r \in SetToSeqs(S) : \A i, j \in DOMAIN r : i < j => r[i].claimed <= r[j].claimed
    BY <1>1, <1>2, <1>3, SortedExists
  <2> QED BY <2>1 DEF ListMetadata, S
<1> HIDE DEF s, S
<1>5. s \in [1..Cardinality(S) -> S] /\ \A i, j \in DOMAIN s : i # j => s[i] # s[j]
  BY <1>4 DEF SetToSeqs
<1>6. s \in Seq(S)
  BY <1>1, <1>5
<1>7. Ascending(s)
  BY <1>2, <1>3, <1>4, <1>5 DEF Ascending
<1>8. s \in Surjection(1..Cardinality(S), S)
  <2>1. s \in Injection(1..Cardinality(S), S)
    BY <1>5, Fun_IsInj
  <2>2. IsFiniteSet(1..Cardinality(S)) /\ Cardinality(1..Cardinality(S)) = Cardinality(S)
    BY <1>1, FS_Interval
  <2> QED BY <1>1, <2>1, <2>2, FS_Injection
<1>9. \A m \in S : \E i \in DOMAIN s : s[i] = m
  BY <1>5, <1>8 DEF Surjection
<1> QED BY <1>6, <1>7, <1>9 DEF s, S
LEMMA LatestExists ==
  ASSUME TypeOK, UniqueClaims, listed # {}
  PROVE  Latest # {}
<1> DEFINE S == {m \in listed : 0 < m.claimed /\ m.claimed < MaxL2 + 1}
<1>1. MaxL2 + 1 \in Nat
  BY ChainAssumption
<1> DEFINE s == ListMetadata(0, MaxL2 + 1)
<1>2. s \in Seq(S) /\ Ascending(s) /\ \A m \in S : \E i \in DOMAIN s : s[i] = m
  BY <1>1, Listing
<1>3. listed = S
  BY KeyFacts, OptionsAssumption, ChainAssumption DEF TypeOK
<1> HIDE DEF S, s
<1>4. Len(s) \in DOMAIN s /\ DOMAIN s = 1..Len(s) /\ Len(s) \in Nat
  <2>1. \E i \in DOMAIN s : TRUE
    BY <1>2, <1>3
  <2> QED BY <1>2, <2>1
<1>5. \A m \in listed : m.claimed \in Int
  BY KeyFacts DEF TypeOK
<1>6. ASSUME NEW m \in listed
      PROVE  m.claimed <= s[Len(s)].claimed
  <2>1. PICK i \in DOMAIN s : s[i] = m
    BY <1>2, <1>3
  <2>2. s[Len(s)] \in listed /\ s[i] \in listed
    BY <1>2, <1>3, <1>4
  <2>3. i = Len(s) \/ s[i].claimed < s[Len(s)].claimed
    BY <1>2, <1>4 DEF Ascending
  <2> QED BY <1>5, <2>1, <2>2, <2>3
<1>7. s[Len(s)] \in listed
  BY <1>2, <1>3, <1>4
<1> QED BY <1>6, <1>7 DEF Latest
-----------------------------------------------------------------------------
(* The steps that the repository and the collector do not notice. *)
Quiet ==
  /\ UNCHANGED <<clock, store, collector>>
  /\ phase' = "running" <=> phase = "running"
  /\ phase = "running" => tasks'["collector"] \in {"ended", tasks["collector"]}

Stops == Down /\ UNCHANGED <<clock, store>>

LEMMA NextCases ==
  ASSUME TypeOK, [Next]_vars
  PROVE  \/ Quiet \/ Stops \/ Tick \/ Spawn \/ CollectorStarts
         \/ \E h \in L1Blocks : CollectorStores(h)
         \/ \E m \in Keys : CollectorLists(m) \/ PurgerDrops(m)
         \/ \E gone \in SUBSET (listed \ stored) : PurgerDelists(gone)
<1>1. Exit \/ StartUpFails => Stops
  BY DEF Exit, StartUpFails, Stops
<1>2. ChainId \/ RollupConfig \/ Respawn => Quiet
  BY DEF ChainId, RollupConfig, Respawn, StartUp, Quiet
<1>3. Bind \/ (\E t \in Tasks : TaskEnds(t)) => Quiet
  BY DEF Bind, TaskEnds, Quiet, TypeOK, Tasks
<1>4. (\E h \in L1Blocks : CollectorSavesL1(h) \/ PurgerDropsL1(h)) => Quiet
  BY DEF CollectorSavesL1, PurgerDropsL1, Quiet, process
<1>5. Reader \/ UNCHANGED vars => Quiet
  BY DEF Reader, AskLatest, AskList, AskFinalizedL1, AskPreimage, MissPreimage, Disconnect,
         others, vars, Quiet, process
<1> QED BY <1>1, <1>2, <1>3, <1>4, <1>5 DEF Next, Main

LEMMA ReaderCases ==
  ASSUME [Next]_vars
  PROVE  UNCHANGED reader \/ (Reader /\ UNCHANGED others)
<1>1. Reader => UNCHANGED others
  BY DEF Reader, AskLatest, AskList, AskFinalizedL1, AskPreimage, MissPreimage, Disconnect
<1>2. Main \/ StartUpFails \/ Respawn \/ (\E t \in Tasks : TaskEnds(t)) => UNCHANGED reader
  BY DEF Main, ChainId, RollupConfig, Spawn, CollectorStarts, Bind, Exit, StartUpFails, Respawn,
         TaskEnds
<1>3. (\E h \in L1Blocks : CollectorSavesL1(h) \/ CollectorStores(h) \/ PurgerDropsL1(h))
        => UNCHANGED reader
  BY DEF CollectorSavesL1, CollectorStores, PurgerDropsL1
<1>4. (\E m \in Keys : CollectorLists(m) \/ PurgerDrops(m)) => UNCHANGED reader
  BY DEF CollectorLists, PurgerDrops
<1>5. Tick \/ (\E gone \in SUBSET (listed \ stored) : PurgerDelists(gone)) \/ UNCHANGED vars
        => UNCHANGED reader
  BY DEF Tick, PurgerDelists, vars
<1> QED BY <1>1, <1>2, <1>3, <1>4, <1>5 DEF Next

(* A new claim follows on the last one. *)
LEMMA NewClaim ==
  ASSUME TypeOK, Aligned, NEW h \in L1Blocks, CollectorStores(h)
  PROVE  LET m == Claim(reached, h) IN
           /\ m \in Keys /\ m \notin stored
           /\ m.agreed = reached /\ m.claimed = reached + Distance
           /\ stored' = stored \cup {m} /\ listed' = listed /\ clock' = clock
           /\ \E t \in 0..clock :
                since' = [since EXCEPT ![m] = t] /\ clock <= t + UpsertTime
           /\ writing = {} /\ writing' = {m} /\ reached' = m.claimed
           /\ Collecting /\ Collecting' /\ UNCHANGED process
<1> DEFINE m == Claim(reached, h)
<1>1. reached \in InitialClaimed..(MaxL2 - Distance)
  BY OptionsAssumption, ChainAssumption DEF CollectorStores, TypeOK
<1>2. m \in Keys /\ m.agreed = reached /\ m.claimed = reached + Distance
  BY <1>1 DEF Keys, Claim
<1>3. /\ Store!Put(m) /\ clock <= since'[m] + UpsertTime /\ writing' = writing \cup {m}
      /\ reached' = m.claimed /\ writing = {} /\ UNCHANGED process
      /\ phase = "running" /\ tasks["collector"] = "up"
  BY DEF CollectorStores, MayStore, Up
<1> HIDE DEF m
<1>4. PICK t \in 0..clock : since' = [since EXCEPT ![m] = t]
  BY <1>3 DEF Store!Put
<1>5. clock <= t + UpsertTime
  BY <1>2, <1>3, <1>4 DEF TypeOK
<1> QED BY <1>2, <1>3, <1>4, <1>5 DEF Store!Put, Collecting, process, m
-----------------------------------------------------------------------------
(* What the other steps of the process do to the repository. *)
LEMMA Spawned ==
  ASSUME StoreInv, Spawn
  PROVE  /\ UNCHANGED <<clock, since, stored, collector>> /\ listed' = stored
         /\ writing = {} /\ phase' = "running" /\ tasks'["collector"] = "new"
BY DEF StoreInv, WritingInv, Spawn, Store!Reopen, Tasks

LEMMA Started ==
  ASSUME TypeOK, StoreInv, CollectorStarts
  PROVE  /\ UNCHANGED <<clock, store, writing, phase>> /\ phase = "running"
         /\ writing = {} /\ stored \subseteq listed
         /\ tasks'["collector"] = "up"
         /\ \/ listed = {} /\ reached' = InitialClaimed
            \/ \E l \in listed : reached' = l.claimed /\ \A n \in listed : n.claimed <= l.claimed
<1>1. /\ UNCHANGED <<clock, store, writing, phase>> /\ phase = "running"
      /\ tasks'["collector"] = "up" /\ tasks["collector"] = "new" /\ reached' \in FirstReached
  BY DEF CollectorStarts, TypeOK, Tasks
<1>2. writing = {} /\ stored \subseteq listed
  BY <1>1 DEF StoreInv, WritingInv
<1>3. \/ listed = {} /\ reached' = InitialClaimed
      \/ \E l \in listed : reached' = l.claimed /\ \A n \in listed : n.claimed <= l.claimed
  <2>1. CASE Latest = {}
    BY <1>1, <2>1, LatestExists DEF FirstReached, StoreInv
  <2>2. CASE Latest # {}
    BY <1>1, <2>2 DEF FirstReached, Latest
  <2> QED BY <2>1, <2>2
<1> QED BY <1>1, <1>2, <1>3

LEMMA Dropped ==
  ASSUME IInv, NEW m \in Keys, PurgerDrops(m)
  PROVE  /\ UNCHANGED <<clock, listed, process, collector>>
         /\ m \in stored /\ stored' = stored \ {m} /\ m \notin writing
         /\ since' = [since EXCEPT ![m] = 0] /\ clock >= since[m] + Ttl
<1>1. /\ UNCHANGED <<clock, listed, process, collector>>
      /\ m \in stored /\ stored' = stored \ {m}
      /\ since' = [since EXCEPT ![m] = 0] /\ clock >= since[m] + Ttl
  BY DEF PurgerDrops, Store!Drop, Store!Old
<1>2. m \notin writing
  BY <1>1, OptionsAssumption DEF IInv, TypeOK, StoreInv, WritingInv
<1> QED BY <1>1, <1>2
-----------------------------------------------------------------------------
ReaderType ==
  [pc : {"idle", "list", "finalized_l1", "preimage"},
   have : InitialClaimed..MaxL2, latest : InitialClaimed..MaxL2,
   asof : 0..clock, began : 0..clock, todo : Seq(Keys)]

LEMMA ProceedType ==
  ASSUME clock \in Nat, NEW r \in ReaderType, NEW s \in Seq(Keys)
  PROVE  Proceed(r, s) \in ReaderType /\ Idle(r) \in ReaderType
<1>1. InitialClaimed \in InitialClaimed..MaxL2 /\ 0 \in 0..clock /\ <<>> \in Seq(Keys)
  BY OptionsAssumption, ChainAssumption
<1> QED BY <1>1 DEF Proceed, Idle, ReaderType

LEMMA TailFacts ==
  ASSUME NEW s \in Seq(Keys), s # <<>>
  PROVE  /\ Head(s) \in Keys /\ Head(s) = s[1] /\ 1 \in DOMAIN s
         /\ Tail(s) \in Seq(Keys)
         /\ \A i \in DOMAIN Tail(s) : i + 1 \in DOMAIN s /\ Tail(s)[i] = s[i + 1] /\ i \in Nat \ {0}
OBVIOUS

LEMMA ListingType ==
  ASSUME TypeOK, UniqueClaims
  PROVE  ListMetadata(reader.have, reader.latest + 1) \in Seq(Keys)
<1> DEFINE S == {m \in listed : reader.have < m.claimed /\ m.claimed < reader.latest + 1}
<1>1. reader.have \in Nat /\ reader.latest + 1 \in Nat
  BY OptionsAssumption, ChainAssumption DEF TypeOK
<1>2. ListMetadata(reader.have, reader.latest + 1) \in Seq(S)
  BY <1>1, Listing
<1>3. S \subseteq Keys
  BY DEF TypeOK
<1> HIDE DEF S
<1> QED BY <1>2, <1>3

LEMMA ReaderTypeNext ==
  ASSUME IInv, Reader, UNCHANGED others
  PROVE  reader' \in ReaderType
<1> USE DEF IInv
<1>1. reader \in ReaderType /\ clock \in Nat /\ reader.todo \in Seq(Keys)
  BY DEF TypeOK, ReaderType
<1>2. Idle(reader) \in ReaderType
  BY <1>1, ProceedType
<1>3. reader.pc \in {"finalized_l1", "preimage"} =>
        /\ Head(reader.todo) \in Keys
        /\ Proceed(reader, Tail(reader.todo)) \in ReaderType
  BY <1>1, ProceedType, TailFacts DEF TodoOk
<1>4. CASE AskLatest
  <2>1. ASSUME NEW m \in Latest
        PROVE  [reader EXCEPT !.pc = "list", !.latest = m.claimed, !.began = clock] \in ReaderType
    <3>1. m.claimed \in InitialClaimed..MaxL2 /\ clock \in 0..clock
      BY <1>1, KeyFacts DEF Latest, TypeOK
    <3> QED BY <1>1, <3>1 DEF ReaderType
  <2> QED BY <1>1, <1>4, <2>1 DEF AskLatest
<1>5. CASE AskList
  BY <1>1, <1>2, <1>5, ListingType, ProceedType DEF AskList, StoreInv
<1>6. CASE AskFinalizedL1
  BY <1>1, <1>3, <1>6 DEF AskFinalizedL1, ReaderType
<1>7. CASE AskPreimage
  <2> DEFINE m == Head(reader.todo)
             r == [reader EXCEPT !.have = m.claimed,
                     !.asof = IF m.claimed = reader.latest THEN reader.began ELSE @]
  <2>1. reader' = Proceed(r, Tail(reader.todo)) /\ reader.todo # <<>>
    BY <1>7 DEF AskPreimage, TodoOk
  <2>2. m \in Keys /\ m.claimed \in InitialClaimed..MaxL2
    BY <1>1, <2>1, TailFacts, KeyFacts
  <2>3. r \in ReaderType
    BY <1>1, <2>2 DEF ReaderType
  <2> QED BY <1>1, <2>1, <2>3, ProceedType, TailFacts
<1>8. CASE MissPreimage \/ Disconnect
  BY <1>1, <1>2, <1>3, <1>8 DEF MissPreimage, Disconnect
<1> QED BY <1>4, <1>5, <1>6, <1>7, <1>8 DEF Reader

LEMMA ProcessTypeNext ==
  ASSUME TypeOK, [Next]_vars
  PROVE  /\ finalized_l1' \subseteq L1Blocks /\ phase' \in StartUp \cup {"running", "down"}
         /\ tasks' \in [Tasks -> {"new", "up", "ended"}] /\ faults' \in Nat
<1> USE DEF TypeOK, Fault, Down
<1>1. CASE Main
  <2>1. CASE ChainId \/ RollupConfig
    BY <2>1 DEF ChainId, RollupConfig, StartUp
  <2>2. CASE Spawn
    BY <2>2 DEF Spawn
  <2>3. CASE CollectorStarts \/ Bind \/ Exit
    BY <2>3 DEF CollectorStarts, Bind, Exit
  <2> QED BY <1>1, <2>1, <2>2, <2>3 DEF Main
<1>2. CASE StartUpFails \/ Respawn \/ \E t \in Tasks : TaskEnds(t)
  <2>1. CASE StartUpFails \/ Respawn
    BY <2>1 DEF StartUpFails, Respawn, StartUp
  <2>2. CASE \E t \in Tasks : TaskEnds(t)
    <3>1. PICK t \in Tasks : /\ phase' = phase /\ finalized_l1' = finalized_l1
                             /\ faults' = faults + 1 /\ tasks' = [tasks EXCEPT ![t] = "ended"]
      BY <2>2 DEF TaskEnds
    <3>2. tasks' \in [Tasks -> {"new", "up", "ended"}]
      BY <3>1
    <3> QED BY <3>1, <3>2
  <2> QED BY <1>2, <2>1, <2>2
<1>3. CASE \E h \in L1Blocks : CollectorSavesL1(h) \/ CollectorStores(h) \/ PurgerDropsL1(h)
  BY <1>3 DEF CollectorSavesL1, CollectorStores, PurgerDropsL1, process
<1>4. CASE \E m \in Keys : CollectorLists(m) \/ PurgerDrops(m)
  BY <1>4 DEF CollectorLists, PurgerDrops, process
<1>5. CASE Tick \/ (\E gone \in SUBSET (listed \ stored) : PurgerDelists(gone)) \/ UNCHANGED vars
  BY <1>5 DEF Tick, PurgerDelists, process, vars
<1>6. CASE Reader
  BY <1>6 DEF Reader, AskLatest, AskList, AskFinalizedL1, AskPreimage, MissPreimage, Disconnect,
              others, process
<1> QED BY <1>1, <1>2, <1>3, <1>4, <1>5, <1>6 DEF Next

RepositoryType ==
  /\ since \in [Keys -> 0..clock] /\ stored \subseteq Keys /\ listed \subseteq Keys
  /\ reached \in InitialClaimed..MaxL2 /\ writing \subseteq Keys

LEMMA TypeNext ==
  ASSUME IInv, [Next]_vars
  PROVE  TypeOK'
<1> USE DEF IInv
<1>1. UNCHANGED clock \/ clock' = clock + 1
  BY NextCases, Spawned, Started, NewClaim, Dropped
     DEF Quiet, Stops, Tick, store, CollectorLists, Store!Enlist, PurgerDelists, Store!Delist,
         StoreInv
<1>2. clock' \in Nat /\ 0..clock \subseteq 0..clock'
  BY <1>1 DEF TypeOK
<1>3. reader' \in [pc : {"idle", "list", "finalized_l1", "preimage"},
                   have : InitialClaimed..MaxL2, latest : InitialClaimed..MaxL2,
                   asof : 0..clock', began : 0..clock', todo : Seq(Keys)]
  <2>1. CASE UNCHANGED reader
    BY <1>2, <2>1 DEF TypeOK
  <2>2. CASE Reader /\ UNCHANGED others
    BY <2>2, ReaderTypeNext DEF ReaderType, others
  <2> QED BY <2>1, <2>2, ReaderCases
<1>4. RepositoryType'
  <2> USE DEF RepositoryType
  <2>1. InitialClaimed \in InitialClaimed..MaxL2
    BY OptionsAssumption, ChainAssumption
  <2>2. CASE Quiet \/ Stops \/ Tick
    BY <1>2, <2>1, <2>2 DEF TypeOK, Quiet, Stops, Down, Tick, store, collector
  <2>3. CASE Spawn
    BY <2>3, Spawned DEF TypeOK, collector
  <2>4. CASE CollectorStarts
    BY <2>1, <2>4, Started, KeyFacts DEF TypeOK, store
  <2>5. ASSUME NEW h \in L1Blocks, CollectorStores(h)
        PROVE  RepositoryType'
    <3>1. PICK m \in Keys, t \in 0..clock :
            /\ stored' = stored \cup {m} /\ listed' = listed /\ clock' = clock
            /\ since' = [since EXCEPT ![m] = t]
            /\ writing' = {m} /\ reached' = m.claimed
      BY <2>5, NewClaim DEF StoreInv
    <3> QED BY <1>2, <3>1, KeyFacts DEF TypeOK
  <2>6. ASSUME NEW m \in Keys, CollectorLists(m) \/ PurgerDrops(m)
        PROVE  RepositoryType'
    <3>1. CASE CollectorLists(m)
      BY <3>1 DEF TypeOK, CollectorLists, Store!Enlist
    <3>2. CASE PurgerDrops(m)
      BY <3>2, Dropped DEF TypeOK, collector
    <3> QED BY <2>6, <3>1, <3>2
  <2>7. ASSUME NEW gone \in SUBSET (listed \ stored), PurgerDelists(gone)
        PROVE  RepositoryType'
    BY <2>7 DEF TypeOK, PurgerDelists, Store!Delist, collector
  <2> QED BY <2>2, <2>3, <2>4, <2>5, <2>6, <2>7, NextCases
<1>5. /\ finalized_l1' \subseteq L1Blocks /\ phase' \in StartUp \cup {"running", "down"}
      /\ tasks' \in [Tasks -> {"new", "up", "ended"}] /\ faults' \in Nat
  BY ProcessTypeNext
<1> QED BY <1>2, <1>3, <1>4, <1>5 DEF TypeOK, RepositoryType
-----------------------------------------------------------------------------
LEMMA StoreNext ==
  ASSUME IInv, [Next]_vars
  PROVE  StoreInv'
<1> USE DEF IInv, StoreInv, Rows, Collecting
<1>1. \A m \in Rows : m \in Keys /\ m.claimed = m.agreed + Distance /\ m.claimed \in Nat
  BY KeyFacts, OptionsAssumption DEF TypeOK
<1>2. CASE Quiet
  BY <1>2 DEF Quiet, store, collector, Aligned, UniqueClaims, WritingInv, CollectorInv, TypeOK
<1>3. CASE Stops
  BY <1>3, GridFacts
     DEF Stops, Down, store, Aligned, UniqueClaims, WritingInv, CollectorInv
<1>4. CASE Tick
  <2>1. /\ UNCHANGED <<since, stored, listed, process, collector>>
        /\ clock' = clock + 1 /\ \A w \in writing : clock < since[w] + UpsertTime
    BY <1>4 DEF Tick, store
  <2>2. \A w \in writing : since'[w] + UpsertTime >= clock'
    BY <2>1, OptionsAssumption DEF TypeOK
  <2>3. Aligned' /\ UniqueClaims' /\ CollectorInv'
    BY <2>1 DEF process, collector, Aligned, UniqueClaims, CollectorInv
  <2>4. WritingInv'
    BY <2>1, <2>2 DEF process, collector, WritingInv
  <2> QED BY <2>3, <2>4
<1>5. CASE Spawn
  <2>1. UNCHANGED <<stored, reached, writing>> /\ listed' = stored /\ writing = {}
        /\ tasks'["collector"] = "new"
    BY <1>5, Spawned DEF collector
  <2> QED BY <2>1 DEF Aligned, UniqueClaims, WritingInv, CollectorInv
<1>6. CASE CollectorStarts
  <2>1. /\ UNCHANGED <<clock, stored, listed, since, writing>> /\ writing = {}
        /\ stored \subseteq listed /\ tasks'["collector"] = "up"
        /\ \/ listed = {} /\ reached' = InitialClaimed
           \/ \E l \in listed : reached' = l.claimed /\ \A n \in listed : n.claimed <= l.claimed
    BY <1>6, Started DEF store
  <2>2. reached' \in Grid
    BY <2>1, KeyFacts, GridFacts DEF Aligned, TypeOK
  <2>3. Aligned' /\ UniqueClaims' /\ WritingInv'
    BY <2>1, <2>2 DEF Aligned, UniqueClaims, WritingInv
  <2>4. CollectorInv'
    BY <2>1 DEF CollectorInv
  <2> QED BY <2>3, <2>4
<1>7. ASSUME NEW h \in L1Blocks, CollectorStores(h)
      PROVE  StoreInv'
  <2>1. PICK w : w = Claim(reached, h)
    OBVIOUS
  <2>2. /\ w \in Keys /\ w \notin stored /\ w.agreed = reached /\ w.claimed = reached + Distance
        /\ stored' = stored \cup {w} /\ listed' = listed /\ clock' = clock
        /\ \E t \in 0..clock :
             since' = [since EXCEPT ![w] = t] /\ clock <= t + UpsertTime
        /\ writing = {} /\ writing' = {w} /\ reached' = w.claimed
        /\ phase = "running" /\ tasks["collector"] = "up" /\ UNCHANGED <<phase, tasks>>
    BY <1>7, <2>1, NewClaim DEF process
  <2>3. reached \in Nat /\ w.claimed > reached
    BY <2>2, OptionsAssumption DEF TypeOK
  <2>4. ASSUME NEW m \in Rows
        PROVE  m.claimed < w.claimed /\ m.claimed <= w.claimed
    <3>1. m.claimed <= reached /\ m.claimed \in Nat /\ w.claimed \in Nat
      BY <1>1, <2>2, KeyFacts, OptionsAssumption DEF CollectorInv
    <3> QED BY <2>3, <3>1
  <2>5. Aligned'
    BY <2>2, GridFacts DEF Aligned
  <2>6. UniqueClaims'
    BY <1>1, <2>2, <2>4 DEF UniqueClaims
  <2>7. stored \subseteq listed /\ (stored # {} => \E n \in listed : n.claimed = w.agreed)
    BY <2>2 DEF WritingInv, CollectorInv
  <2>8. since'[w] + UpsertTime >= clock'
    BY <2>2, OptionsAssumption DEF TypeOK
  <2>9. \A m \in Rows' : m.claimed <= w.claimed
    <3>1. w.claimed <= w.claimed
      BY <2>2, KeyFacts
    <3> QED BY <2>2, <2>4, <3>1
  <2>10. WritingInv'
    BY <2>2, <2>7, <2>8, <2>9 DEF WritingInv
  <2>11. CollectorInv'
    BY <2>2, <2>9 DEF CollectorInv
  <2> QED BY <2>5, <2>6, <2>10, <2>11
<1>8. ASSUME NEW m \in Keys, CollectorLists(m)
      PROVE  StoreInv'
  <2>1. /\ m \in writing /\ m \in stored /\ listed' = listed \cup {m} /\ writing' = writing \ {m}
        /\ UNCHANGED <<clock, since, stored, phase, tasks, reached>>
    BY <1>8 DEF CollectorLists, Store!Enlist, process
  <2>2. Rows' = Rows
    BY <2>1
  <2>3. Aligned' /\ UniqueClaims' /\ CollectorInv'
    BY <2>1 DEF Aligned, UniqueClaims, CollectorInv
  <2>4. WritingInv'
    BY <2>1 DEF WritingInv
  <2> QED BY <2>3, <2>4
<1>9. ASSUME NEW m \in Keys, PurgerDrops(m)
      PROVE  StoreInv'
  <2>1. /\ UNCHANGED <<clock, listed, phase, tasks, reached, writing>>
        /\ stored' = stored \ {m} /\ m \notin writing /\ since' = [since EXCEPT ![m] = 0]
    BY <1>9, Dropped DEF process, collector
  <2>2. Aligned' /\ UniqueClaims' /\ CollectorInv'
    BY <2>1 DEF Aligned, UniqueClaims, CollectorInv
  <2>3. WritingInv'
    BY <2>1 DEF WritingInv, TypeOK
  <2> QED BY <2>2, <2>3
<1>10. ASSUME NEW gone \in SUBSET (listed \ stored), PurgerDelists(gone)
       PROVE  StoreInv'
  <2>1. /\ UNCHANGED <<clock, since, stored, phase, tasks, reached, writing>>
        /\ listed' = listed \ gone /\ \A m \in stored, n \in gone : n.claimed < m.claimed
    BY <1>10 DEF PurgerDelists, Store!Delist, process, collector
  <2>2. Aligned' /\ UniqueClaims'
    BY <2>1 DEF Aligned, UniqueClaims
  <2>3. CollectorInv'
    (* The list still has the metadata the collector goes on from. *)
    <3> SUFFICES ASSUME phase = "running", tasks["collector"] = "up", NEW m \in stored,
                        NEW n \in listed, n.claimed = reached
                 PROVE  n \in listed'
      BY <2>1 DEF CollectorInv
    <3> QED BY <1>1, <2>1 DEF CollectorInv
  <2>4. WritingInv'
    <3>1. ASSUME NEW w \in writing, stored # {w}
          PROVE  \E n \in listed' : n.claimed = w.agreed
      <4>1. PICK n \in listed : n.claimed = w.agreed
        BY <3>1 DEF WritingInv
      <4>2. PICK m \in stored : m # w
        BY <3>1 DEF WritingInv
      <4>3. m.claimed < w.claimed /\ w \in Rows
        BY <1>1, <4>2 DEF WritingInv, UniqueClaims
      <4>4. m.claimed <= w.agreed
        BY <1>1, <4>3, KeyFacts, GridFacts DEF Aligned
      <4> QED BY <1>1, <2>1, <4>1, <4>2, <4>4
    <3> QED BY <2>1, <3>1 DEF WritingInv
  <2> QED BY <2>2, <2>3, <2>4
<1> QED BY <1>2, <1>3, <1>4, <1>5, <1>6, <1>7, <1>8, <1>9, <1>10, NextCases
-----------------------------------------------------------------------------
(* A preimage behind b is dropped a TTL, less the time of an upsert, after t. *)
LEMMA DroppedOld ==
  ASSUME IInv, [Next]_vars, NEW b, NEW t \in Int, Continues(b, t),
         NEW m \in stored, m \notin stored', m.claimed > b
  PROVE  clock + UpsertTime >= t + Ttl /\ clock' = clock
<1> USE DEF IInv
<1>1. \E n \in Keys : PurgerDrops(n)
  BY NextCases, Spawned, Started, NewClaim
     DEF Quiet, Stops, Tick, store, CollectorLists, Store!Enlist, PurgerDelists, Store!Delist,
         StoreInv
<1>2. PICK n \in Keys : clock' = clock /\ stored' = stored \ {n} /\ clock >= since[n] + Ttl
  BY <1>1, Dropped
<1>3. since[m] + UpsertTime >= t /\ since[m] \in Int /\ clock \in Int
  BY DEF Continues, TypeOK
<1> QED BY <1>2, <1>3, OptionsAssumption

(* No step breaks the continuation of a block: claims follow on the last one,
   the purger starts with the oldest, and a restart goes on from what is there. *)
LEMMA ContinuesNext ==
  ASSUME IInv, [Next]_vars, NEW b \in Grid, NEW t \in Int, t <= clock, Continues(b, t)
  PROVE  Continues(b, t)'
<1> USE DEF IInv, Collecting, Rows, Continues
<1>0. /\ \A m \in Rows : m \in Keys /\ m.claimed = m.agreed + Distance /\ m.claimed \in Nat
      /\ b \in Nat /\ InitialClaimed <= b
      /\ clock \in Nat /\ Ttl \in Nat /\ UpsertTime \in Nat
  <2>1. b \in Nat /\ InitialClaimed <= b
    BY GridFacts
  <2>2. clock \in Nat /\ Ttl \in Nat /\ UpsertTime \in Nat
    BY OptionsAssumption DEF TypeOK
  <2>3. \A m \in Rows : m \in Keys
    BY DEF TypeOK
  <2>4. \A m \in Keys : m.claimed = m.agreed + Distance /\ m.claimed \in Nat
    BY KeyFacts, OptionsAssumption
  <2> QED BY <2>1, <2>2, <2>3, <2>4
<1>1. CASE Quiet \/ Stops
  BY <1>1 DEF Quiet, Stops, Down, store, collector, TypeOK
<1>2. CASE Tick
  BY <1>0, <1>2 DEF Tick, store, process, collector
<1>3. CASE Spawn
  BY <1>3, Spawned DEF StoreInv
<1>4. CASE CollectorStarts
  <2>1. /\ UNCHANGED <<clock, since, stored, listed>>
        /\ \/ listed = {} /\ reached' = InitialClaimed
           \/ \E l \in listed : reached' = l.claimed
    BY <1>4, Started DEF store
  <2>2. ASSUME clock + UpsertTime < t + Ttl, reached' > b
        PROVE  \E p \in stored' : p.claimed = reached'
    <3>1. PICK l \in listed : reached' = l.claimed
      BY <1>0, <2>1, <2>2, OptionsAssumption
    <3>2. l \in stored
      <4>1. l.claimed \in Nat /\ ~(l.claimed <= b)
        BY <1>0, <2>2, <3>1
      <4> QED BY <2>2, <4>1
    <3> QED BY <2>1, <3>1, <3>2
  <2> QED BY <2>1, <2>2
<1>5. ASSUME NEW h \in L1Blocks, CollectorStores(h)
      PROVE  Continues(b, t)'
  <2>1. PICK w : w = Claim(reached, h)
    OBVIOUS
  <2>2. /\ w \in Keys /\ w \notin stored /\ w.agreed = reached /\ w.claimed = reached + Distance
        /\ stored' = stored \cup {w} /\ listed' = listed /\ clock' = clock
        /\ \E s \in 0..clock :
             since' = [since EXCEPT ![w] = s] /\ clock <= s + UpsertTime
        /\ reached' = w.claimed
        /\ phase = "running" /\ tasks["collector"] = "up"
    BY <1>5, <2>1, NewClaim DEF process, StoreInv
  <2>3. \A m \in stored' : m.claimed > b => since'[m] + UpsertTime >= t
    BY <1>0, <2>2 DEF TypeOK
  <2>4. w.claimed > b => w.agreed = b \/ w.agreed > b
    BY <1>0, <2>2, KeyFacts, GridFacts DEF StoreInv, Aligned
  <2> QED BY <2>2, <2>3, <2>4
<1>6. ASSUME NEW m \in Keys, CollectorLists(m)
      PROVE  Continues(b, t)'
  BY <1>6 DEF CollectorLists, Store!Enlist, process, StoreInv, WritingInv
<1>7. ASSUME NEW m \in Keys, PurgerDrops(m)
      PROVE  Continues(b, t)'
  <2>1. /\ UNCHANGED <<clock, listed, phase, tasks, reached>>
        /\ m \in stored /\ stored' = stored \ {m} /\ since' = [since EXCEPT ![m] = 0]
        /\ clock >= since[m] + Ttl
    BY <1>7, Dropped DEF process, collector
  <2>2. m.claimed > b => clock + UpsertTime >= t + Ttl
    BY <1>0, <2>1 DEF TypeOK
  <2>3. \A n \in stored' : n.claimed > b => since'[n] + UpsertTime >= t
    BY <2>1 DEF TypeOK
  <2>4. ASSUME clock + UpsertTime < t + Ttl, NEW n \in stored', n.claimed > b
        PROVE  n.agreed = b \/ \E p \in stored' : p.claimed = n.agreed
    <3>1. b <= n.agreed /\ n.agreed \in Nat
      BY <2>1, <2>4, KeyFacts DEF StoreInv, Aligned, TypeOK
    <3>2. n.agreed = b \/ \E p \in stored : p.claimed = n.agreed
      BY <2>1, <2>4
    <3> QED BY <1>0, <2>1, <2>2, <2>4, <3>1, <3>2
  <2> QED BY <1>0, <2>1, <2>2, <2>3, <2>4
<1>8. ASSUME NEW gone \in SUBSET (listed \ stored), PurgerDelists(gone)
      PROVE  Continues(b, t)'
  BY <1>8 DEF PurgerDelists, Store!Delist, process, collector
<1> QED BY <1>1, <1>2, <1>3, <1>4, <1>5, <1>6, <1>7, <1>8, NextCases

(* What there is behind a block that the collector has not passed. *)
LEMMA ContinuesReached ==
  ASSUME IInv, NEW h \in L1Blocks, CollectorStores(h), NEW b \in Grid, NEW t \in Int,
         NEW m \in stored', m \notin stored, m.claimed = b
  PROVE  Continues(b, t)'
<1> USE DEF IInv
<1>1. /\ m.claimed = reached' /\ Collecting' /\ b \in Nat
  BY NewClaim, GridFacts DEF StoreInv
<1>2. \A n \in Rows' : n.claimed <= b /\ n.claimed \in Nat
  <2>1. [Next]_vars
    BY DEF Next
  <2>2. StoreInv' /\ TypeOK'
    BY <2>1, StoreNext, TypeNext
  <2>3. \A n \in Rows' : n.claimed <= reached' /\ n \in Keys
    BY <1>1, <2>2 DEF StoreInv, CollectorInv, TypeOK, Rows
  <2> QED BY <1>1, <2>3, KeyFacts, OptionsAssumption
<1> QED BY <1>1, <1>2 DEF Continues, Rows
-----------------------------------------------------------------------------
(* The steps of the process, which leave the reader alone. *)
LEMMA ReaderKept ==
  ASSUME IInv, [Next]_vars, UNCHANGED reader
  PROVE  ReaderOk(reader)' /\ TodoOk(reader)'
<1> USE DEF IInv
<1>1. /\ reader.have \in Grid /\ reader.latest \in Grid
      /\ reader.asof \in Int /\ reader.began \in Int
      /\ reader.asof <= clock /\ reader.began <= clock
  BY DEF ReaderOk, TypeOK
<1>2. PICK b, t, l, a : b = reader.have /\ t = reader.asof /\ l = reader.latest /\ a = reader.began
  OBVIOUS
<1>3. Continues(b, t) /\ Continues(b, t)'
  <2>1. Continues(b, t)
    BY <1>2 DEF ReaderOk
  <2> QED BY <1>1, <1>2, <2>1, ContinuesNext
<1>4. ASSUME reader.pc # "idle", NEW m \in stored', m.claimed = l
      PROVE  Continues(l, a)'
  <2>1. CASE m \in stored
    <3>1. Continues(l, a)
      BY <1>2, <1>4, <2>1 DEF ReaderOk
    <3> QED BY <1>1, <1>2, <3>1, ContinuesNext
  <2>2. CASE m \notin stored
    <3>1. \E h \in L1Blocks : CollectorStores(h)
      BY <1>4, <2>2, NextCases, Spawned, Started
         DEF Quiet, Stops, Tick, store, CollectorLists, Store!Enlist, PurgerDrops, Store!Drop,
             PurgerDelists, Store!Delist, StoreInv
    <3> QED BY <1>1, <1>2, <1>4, <2>2, <3>1, ContinuesReached
  <2> QED BY <2>1, <2>2
<1>5. ReaderOk(reader)'
  BY <1>1, <1>2, <1>3, <1>4 DEF ReaderOk, Continues, Collecting
<1>6. ASSUME NEW i \in DOMAIN reader.todo
      PROVE  Offered(reader, reader.todo[i])'
  <2>1. PICK m : m = reader.todo[i]
    OBVIOUS
  <2>2. /\ m.agreed \in Grid /\ reader.have < m.claimed /\ m.claimed <= reader.latest
        /\ m \in stored \/ clock + UpsertTime >= reader.asof + Ttl
    BY <2>1 DEF TodoOk, Offered
  <2>3. clock' >= clock /\ clock \in Nat /\ clock' \in Nat
    <3>1. clock \in Nat /\ clock' \in Nat
      BY TypeNext DEF TypeOK
    <3>2. clock' = clock \/ clock' = clock + 1
      BY NextCases, Spawned, Started, NewClaim, Dropped
         DEF Quiet, Stops, Tick, store, CollectorLists, Store!Enlist, PurgerDelists,
             Store!Delist, StoreInv
    <3> QED BY <3>1, <3>2
  <2>4. m \in stored' \/ clock' + UpsertTime >= reader.asof + Ttl
    <3>1. CASE clock + UpsertTime >= reader.asof + Ttl
      BY <1>1, <2>3, <3>1, OptionsAssumption
    <3>2. CASE m \in stored /\ m \notin stored'
      <4>1. m.claimed > b
        BY <1>2, <2>2
      <4> QED BY <1>1, <1>2, <1>3, <3>2, <4>1, DroppedOld
    <3> QED BY <2>2, <3>1, <3>2
  <2> QED BY <2>1, <2>2, <2>4 DEF Offered
<1>7. TodoOk(reader)'
  BY <1>6 DEF TodoOk, Ascending
<1> QED BY <1>5, <1>7
-----------------------------------------------------------------------------
(* The steps of the reader, which leave the rest alone. *)
LEMMA ProceedOk ==
  ASSUME NEW r \in ReaderType, ReaderOk(r), r.pc # "idle", InitialClaimed \in Grid,
         NEW s \in Seq(Keys), Ascending(s), \A i \in DOMAIN s : Offered(r, s[i])
  PROVE  ReaderOk(Proceed(r, s)) /\ TodoOk(Proceed(r, s))
<1>1. CASE s = <<>>
  BY <1>1 DEF Proceed, Idle, ReaderType, ReaderOk, TodoOk, Ascending
<1>2. CASE s # <<>>
  <2>1. PICK q : q = Proceed(r, s)
    OBVIOUS
  <2>2. /\ q.pc = "finalized_l1" /\ q.todo = s /\ q.have = r.have /\ q.asof = r.asof
        /\ q.latest = r.latest /\ q.began = r.began
    BY <1>2, <2>1 DEF Proceed, ReaderType
  <2>3. ReaderOk(q)
    BY <2>2 DEF ReaderOk
  <2>4. TodoOk(q)
    BY <1>2, <2>2 DEF TodoOk, Offered
  <2> QED BY <2>1, <2>3, <2>4
<1> QED BY <1>1, <1>2

(* Of an ascending sequence of offers, what is left after the first. *)
LEMMA TailOk ==
  ASSUME NEW r, NEW s \in Seq(Keys), s # <<>>, Ascending(s),
         \A i \in DOMAIN s : Offered(r, s[i])
  PROVE  /\ Head(s) \in Keys /\ Offered(r, Head(s))
         /\ Tail(s) \in Seq(Keys) /\ Ascending(Tail(s))
         /\ \A i \in DOMAIN Tail(s) :
              Offered(r, Tail(s)[i]) /\ Head(s).claimed < Tail(s)[i].claimed
<1>1. \A i, j \in DOMAIN Tail(s) : i < j => i + 1 < j + 1
  BY TailFacts
<1>2. \A i \in DOMAIN Tail(s) : 1 < i + 1
  BY TailFacts
<1> QED BY <1>1, <1>2, TailFacts DEF Ascending

(* The latest metadata is listed; what is stored behind it is the upsert in
   progress, which is as young as can be. *)
LEMMA LatestContinues ==
  ASSUME TypeOK, StoreInv, phase = "running", NEW l \in Latest,
         NEW m \in stored, m.claimed = l.claimed
  PROVE  Continues(l.claimed, clock)
<1> USE DEF StoreInv, Rows
<1>1. l \in listed /\ \A n \in listed : n.claimed <= l.claimed
  BY DEF Latest
<1>2. /\ \A n \in Rows : n \in Keys /\ n.claimed \in Nat /\ n.agreed \in Nat
      /\ l.claimed \in Grid /\ clock \in Nat /\ l.claimed \in Nat
  BY <1>1, KeyFacts, OptionsAssumption DEF TypeOK, Aligned
<1>3. ASSUME NEW n \in stored, n.claimed > l.claimed
      PROVE  n \in writing /\ since[n] + UpsertTime >= clock
  BY <1>1, <1>2, <1>3 DEF WritingInv
<1>4. ASSUME NEW n \in stored, n.claimed > l.claimed
      PROVE  n.agreed = l.claimed
  <2>1. n # m
    BY <1>2, <1>4
  <2>2. PICK k \in listed : k.claimed = n.agreed
    BY <1>3, <1>4, <2>1 DEF WritingInv
  <2>3. l.claimed <= n.agreed
    BY <1>2, <1>4, KeyFacts DEF Aligned
  <2> QED BY <1>1, <1>2, <2>2, <2>3
<1>5. ASSUME Collecting, reached > l.claimed
      PROVE  \E p \in stored : p.claimed = reached
  <2>1. PICK k \in listed \cup writing : k.claimed = reached
    BY <1>5 DEF CollectorInv
  <2>2. k \notin listed
    BY <1>1, <1>2, <1>5, <2>1
  <2> QED BY <2>1, <2>2 DEF WritingInv
<1> QED BY <1>1, <1>2, <1>3, <1>4, <1>5 DEF Continues

LEMMA ReaderNumbers ==
  ASSUME TypeOK
  PROVE  /\ reader.have \in Nat /\ reader.latest \in Nat /\ reader.latest + 1 \in Nat
         /\ reader.asof \in Nat /\ reader.began \in Nat /\ clock \in Nat
<1>1. InitialClaimed..MaxL2 \subseteq Nat /\ 0..clock \subseteq Nat
  BY OptionsAssumption
<1>2. /\ reader.have \in InitialClaimed..MaxL2 /\ reader.latest \in InitialClaimed..MaxL2
      /\ reader.asof \in 0..clock /\ reader.began \in 0..clock /\ clock \in Nat
  BY DEF TypeOK
<1> QED BY <1>1, <1>2

(* What list_metadata answers to a reader, in and out of the time it has. *)
LEMMA ListingOk ==
  ASSUME IInv, phase = "running"
  PROVE  LET s == ListMetadata(reader.have, reader.latest + 1) IN
           /\ s \in Seq(Keys) /\ Ascending(s)
           /\ \A i \in DOMAIN s : Offered(reader, s[i])
           /\ InTime => \A i \in DOMAIN s :
                s[i].agreed = IF i = 1 THEN reader.have ELSE s[i - 1].claimed
<1> DEFINE s == ListMetadata(reader.have, reader.latest + 1)
           S == {m \in listed : reader.have < m.claimed /\ m.claimed < reader.latest + 1}
<1> USE DEF IInv
<1>1. /\ reader.have \in Nat /\ reader.latest + 1 \in Nat /\ reader.latest \in Nat
      /\ reader.have \in Grid /\ clock \in Nat /\ reader.asof \in Nat
      /\ Ttl \in Nat /\ UpsertTime \in Nat
  BY ReaderNumbers, OptionsAssumption DEF ReaderOk
<1>2. /\ s \in Seq(S) /\ Ascending(s) /\ \A m \in S : \E i \in DOMAIN s : s[i] = m
  BY <1>1, Listing DEF StoreInv
<1>3. ASSUME NEW m \in S
      PROVE  /\ m \in Keys /\ m.claimed \in Nat /\ m.agreed \in Grid /\ m.agreed \in Nat
             /\ m.claimed = m.agreed + Distance
             /\ reader.have < m.claimed /\ m.claimed <= reader.latest
             /\ reader.have <= m.agreed
             /\ \A b \in Grid : m.claimed > b => b <= m.agreed
             /\ m.claimed \in Grid
  <2>1. /\ m \in Keys /\ m.agreed \in Grid /\ reader.have < m.claimed
        /\ m.claimed < reader.latest + 1
    BY DEF TypeOK, StoreInv, Aligned, Rows
  <2>2. m.claimed \in Nat /\ m.agreed \in Nat
    BY <2>1, KeyFacts, OptionsAssumption
  <2> QED BY <1>1, <2>1, <2>2, KeyFacts
<1>4. ASSUME NEW m \in S, InTime
      PROVE  m \in stored
  BY <1>1, <1>3, <1>4 DEF ReaderOk, Continues, InTime
<1>5. ASSUME NEW m \in S
      PROVE  Offered(reader, m)
  BY <1>1, <1>3, <1>4 DEF Offered, InTime
<1>6. ASSUME NEW m \in S, InTime, m.agreed # reader.have
      PROVE  \E p \in S : p.claimed = m.agreed
  <2>1. PICK p \in stored : p.claimed = m.agreed
    BY <1>1, <1>3, <1>4, <1>6 DEF ReaderOk, Continues, InTime
  <2>2. p.claimed > reader.have /\ p.claimed < m.claimed
    BY <1>1, <1>3, <1>6, <2>1, OptionsAssumption
  <2>3. p \in listed
    BY <1>3, <2>1, <2>2 DEF StoreInv, WritingInv, Rows
  <2> QED BY <1>1, <1>3, <2>1, <2>2, <2>3
<1> HIDE DEF s, S
<1>7. S \subseteq Keys
  BY <1>3
<1>8. s \in Seq(Keys) /\ \A i \in DOMAIN s : Offered(reader, s[i])
  BY <1>2, <1>5, <1>7
<1>9. ASSUME InTime, NEW i \in DOMAIN s
      PROVE  s[i].agreed = IF i = 1 THEN reader.have ELSE s[i - 1].claimed
  <2>1. i \in 1..Len(s) /\ s[i] \in S /\ DOMAIN s = 1..Len(s)
    BY <1>2
  <2>2. ASSUME s[i].agreed # reader.have
        PROVE  i > 1 /\ s[i].agreed <= s[i - 1].claimed
    <3>1. PICK p \in S : p.claimed = s[i].agreed
      BY <1>6, <1>9, <2>1, <2>2
    <3>2. PICK j \in DOMAIN s : s[j] = p
      BY <1>2, <3>1
    <3>3. ~(i <= j)
      BY <1>2, <1>3, <2>1, <3>1, <3>2, OptionsAssumption DEF Ascending
    <3>4. i > 1 /\ i - 1 \in DOMAIN s /\ (j = i - 1 \/ j < i - 1)
      BY <2>1, <3>3
    <3>5. s[j].claimed <= s[i - 1].claimed
      BY <1>2, <1>3, <2>1, <3>2, <3>4 DEF Ascending
    <3> QED BY <3>1, <3>2, <3>4, <3>5
  <2>3. CASE i = 1
    BY <2>2, <2>3
  <2>4. CASE i # 1
    <3>1. i - 1 \in DOMAIN s /\ i - 1 < i
      BY <2>1, <2>4
    <3>2. s[i - 1] \in S /\ s[i - 1].claimed < s[i].claimed
      BY <1>2, <2>1, <3>1 DEF Ascending
    <3>3. s[i - 1].claimed <= s[i].agreed /\ reader.have < s[i - 1].claimed
      BY <1>3, <2>1, <3>2
    <3>4. /\ s[i].agreed # reader.have
          /\ s[i].agreed \in Nat /\ s[i - 1].claimed \in Nat
      BY <1>1, <1>3, <2>1, <3>2, <3>3
    <3> QED BY <2>2, <2>4, <3>3, <3>4
  <2> QED BY <2>3, <2>4
<1> QED BY <1>2, <1>8, <1>9 DEF s

LEMMA ReaderSteps ==
  ASSUME IInv, Reader
  PROVE  ReaderOk(reader') /\ TodoOk(reader')
<1> USE DEF IInv
<1>1. /\ reader \in ReaderType /\ InitialClaimed \in Grid
      /\ ReaderOk(reader) /\ TodoOk(reader) /\ reader.todo \in Seq(Keys)
  BY GridFacts DEF TypeOK, ReaderType
<1>2. ReaderOk(Idle(reader)) /\ TodoOk(Idle(reader))
  BY <1>1 DEF Idle, ReaderType, ReaderOk, TodoOk, Ascending
<1>3. ASSUME reader.pc \in {"finalized_l1", "preimage"}
      PROVE  /\ reader.todo # <<>> /\ Head(reader.todo) \in Keys
             /\ Offered(reader, Head(reader.todo))
             /\ Tail(reader.todo) \in Seq(Keys) /\ Ascending(Tail(reader.todo))
             /\ \A i \in DOMAIN Tail(reader.todo) :
                  /\ Offered(reader, Tail(reader.todo)[i])
                  /\ Head(reader.todo).claimed < Tail(reader.todo)[i].claimed
  <2>1. /\ reader.todo # <<>> /\ Ascending(reader.todo)
        /\ \A i \in DOMAIN reader.todo : Offered(reader, reader.todo[i])
    BY <1>1, <1>3 DEF TodoOk
  <2> QED BY <1>1, <2>1, TailOk
<1>4. ASSUME reader.pc \in {"finalized_l1", "preimage"}
      PROVE  /\ ReaderOk(Proceed(reader, Tail(reader.todo)))
             /\ TodoOk(Proceed(reader, Tail(reader.todo)))
  BY <1>1, <1>3, <1>4, ProceedOk
<1>5. CASE AskLatest
  <2>1. CASE UNCHANGED reader
    BY <1>1, <2>1
  <2>2. ASSUME NEW l \in Latest,
               reader' = [reader EXCEPT !.pc = "list", !.latest = l.claimed, !.began = clock]
        PROVE  ReaderOk(reader') /\ TodoOk(reader')
    <3>1. PICK q : q = reader'
      OBVIOUS
    <3>2. /\ q.pc = "list" /\ q.todo = reader.todo /\ q.have = reader.have
          /\ q.asof = reader.asof /\ q.latest = l.claimed /\ q.began = clock
      BY <1>1, <2>2, <3>1 DEF ReaderType
    <3>3. phase = "running" /\ reader.pc = "idle"
      BY <1>5 DEF AskLatest, Up
    <3>4. l.claimed \in Grid
      BY KeyFacts DEF Latest, TypeOK, StoreInv, Aligned, Rows
    <3>5. (\E m \in stored : m.claimed = l.claimed) => Continues(l.claimed, clock)
      BY <3>3, LatestContinues
    <3>6. ReaderOk(q)
      BY <1>1, <3>2, <3>4, <3>5 DEF ReaderOk
    <3>7. TodoOk(q)
      BY <1>1, <3>2, <3>3 DEF TodoOk, Ascending
    <3> QED BY <3>1, <3>6, <3>7
  <2> QED BY <1>5, <2>1, <2>2 DEF AskLatest
<1>6. CASE AskList
  <2>1. phase = "running" /\ reader.pc = "list"
    BY <1>6 DEF AskList, Up
  <2>2. LET s == ListMetadata(reader.have, reader.latest + 1) IN
          s \in Seq(Keys) /\ Ascending(s) /\ \A i \in DOMAIN s : Offered(reader, s[i])
    BY <2>1, ListingOk
  <2>3. LET s == ListMetadata(reader.have, reader.latest + 1) IN
          ReaderOk(Proceed(reader, s)) /\ TodoOk(Proceed(reader, s))
    BY <1>1, <2>1, <2>2, ProceedOk
  <2> QED BY <1>2, <1>6, <2>3 DEF AskList
<1>7. CASE AskFinalizedL1
  <2>1. PICK q : q = [reader EXCEPT !.pc = "preimage"]
    OBVIOUS
  <2>2. /\ q.pc = "preimage" /\ q.todo = reader.todo /\ q.have = reader.have
        /\ q.asof = reader.asof /\ q.latest = reader.latest /\ q.began = reader.began
    BY <1>1, <2>1 DEF ReaderType
  <2>3. reader.pc = "finalized_l1"
    BY <1>7 DEF AskFinalizedL1
  <2>4. ReaderOk(q) /\ TodoOk(q)
    BY <1>1, <1>3, <2>2, <2>3 DEF ReaderOk, TodoOk, Offered
  <2> QED BY <1>4, <1>7, <2>1, <2>3, <2>4 DEF AskFinalizedL1
<1>8. CASE AskPreimage
  <2> DEFINE m == Head(reader.todo)
             r == [reader EXCEPT !.have = m.claimed,
                     !.asof = IF m.claimed = reader.latest THEN reader.began ELSE @]
  <2>1. reader' = Proceed(r, Tail(reader.todo)) /\ reader.pc = "preimage" /\ m \in stored
    BY <1>8 DEF AskPreimage, GetPreimage
  <2>2. /\ m \in Keys /\ m.claimed \in InitialClaimed..MaxL2 /\ m.claimed \in Grid
        /\ reader.have < m.claimed /\ m.claimed <= reader.latest
        /\ reader.have \in Nat /\ m.claimed \in Nat /\ reader.have \in Grid
        /\ reader.asof \in Nat /\ clock \in Nat
    <3>1. m \in Keys /\ Offered(reader, m)
      BY <1>3, <2>1
    <3> HIDE DEF m
    <3>2. m.claimed \in InitialClaimed..MaxL2 /\ m.claimed \in Nat
      BY <3>1, KeyFacts, OptionsAssumption
    <3>3. /\ m.claimed \in Grid /\ reader.have < m.claimed /\ m.claimed <= reader.latest
      BY <3>1, KeyFacts DEF Offered
    <3> QED BY <1>1, <3>1, <3>2, <3>3, ReaderNumbers DEF ReaderOk
  <2>3. r \in ReaderType
    BY <1>1, <2>2 DEF ReaderType
  <2>4. /\ r.pc = "preimage" /\ r.have = m.claimed /\ r.latest = reader.latest
        /\ r.began = reader.began
        /\ r.asof = IF m.claimed = reader.latest THEN reader.began ELSE reader.asof
    BY <1>1, <2>1 DEF ReaderType
  <2>5. /\ Continues(reader.have, reader.asof)
        /\ m.claimed = reader.latest => Continues(reader.latest, reader.began)
    BY <1>1, <2>1 DEF ReaderOk
  <2>6. Continues(m.claimed, r.asof)
    <3>1. CASE m.claimed = reader.latest
      BY <2>4, <2>5, <3>1
    <3>2. CASE m.claimed # reader.latest
      (* Behind a block that is further on there is less. *)
      <4>1. Continues(reader.have, reader.asof)
        BY <2>5
      <4>2. ASSUME NEW n \in Rows
            PROVE  /\ n.claimed \in Nat /\ n.agreed \in Nat
                   /\ n.claimed > m.claimed => m.claimed <= n.agreed
        <5>1. n \in Keys /\ n.agreed \in Grid
          BY DEF TypeOK, StoreInv, Aligned, Rows
        <5> HIDE DEF m
        <5> QED BY <2>2, <5>1, KeyFacts, OptionsAssumption
      <4>3. reached \in Nat
        BY GridFacts DEF StoreInv, Aligned
      <4> QED BY <2>2, <2>4, <3>2, <4>1, <4>2, <4>3 DEF Continues, Rows
    <3> QED BY <3>1, <3>2
  <2> HIDE DEF r, m
  <2>7. ReaderOk(r)
    BY <1>1, <2>1, <2>2, <2>4, <2>6 DEF ReaderOk
  <2>8. ASSUME NEW i \in DOMAIN Tail(reader.todo)
        PROVE  Offered(r, Tail(reader.todo)[i])
    <3>1. /\ Offered(reader, Tail(reader.todo)[i])
          /\ m.claimed < Tail(reader.todo)[i].claimed
          /\ Tail(reader.todo)[i] \in Keys
      BY <1>3, <2>1 DEF m
    <3>2. Tail(reader.todo)[i].claimed \in Nat /\ reader.latest \in Nat
      BY <3>1, KeyFacts, ReaderNumbers, OptionsAssumption
    <3>3. r.asof = reader.asof
      BY <2>2, <2>4, <3>1, <3>2 DEF Offered
    <3> QED BY <2>4, <3>1, <3>3 DEF Offered
  <2> QED BY <1>1, <1>3, <2>1, <2>3, <2>4, <2>7, <2>8, ProceedOk
<1>9. CASE MissPreimage \/ Disconnect
  BY <1>2, <1>4, <1>9 DEF MissPreimage, Disconnect
<1> QED BY <1>5, <1>6, <1>7, <1>8, <1>9 DEF Reader
-----------------------------------------------------------------------------
LEMMA InitIInv == Init => IInv
<1> SUFFICES ASSUME Init PROVE IInv
  OBVIOUS
<1>1. TypeOK
  <2>1. InitialClaimed \in InitialClaimed..MaxL2 /\ 0 \in 0..0 /\ <<>> \in Seq(Keys)
    BY OptionsAssumption, ChainAssumption
  <2>2. /\ since \in [Keys -> 0..clock] /\ reached \in InitialClaimed..MaxL2
        /\ reader \in [pc : {"idle", "list", "finalized_l1", "preimage"},
                       have : InitialClaimed..MaxL2, latest : InitialClaimed..MaxL2,
                       asof : 0..clock, began : 0..clock, todo : Seq(Keys)]
    BY <2>1 DEF Init
  <2> QED BY <2>2 DEF Init, TypeOK, StartUp, Tasks
<1>2. StoreInv
  BY GridFacts DEF Init, StoreInv, Aligned, UniqueClaims, WritingInv, CollectorInv, Rows,
                   Collecting
<1>3. ReaderOk(reader) /\ TodoOk(reader)
  BY GridFacts DEF Init, ReaderOk, TodoOk, Ascending, Continues, Collecting
<1> QED BY <1>1, <1>2, <1>3 DEF IInv

LEMMA NextIInv == IInv /\ [Next]_vars => IInv'
<1> SUFFICES ASSUME IInv, [Next]_vars PROVE IInv'
  OBVIOUS
<1>1. TypeOK' /\ StoreInv'
  BY TypeNext, StoreNext
<1>2. CASE UNCHANGED reader
  BY <1>1, <1>2, ReaderKept DEF IInv
<1>3. CASE Reader /\ UNCHANGED others
  <2>1. ReaderOk(reader') /\ TodoOk(reader')
    BY <1>3, ReaderSteps
  <2>2. ReaderOk(reader)' /\ TodoOk(reader)'
    BY <1>3, <2>1
       DEF others, store, process, collector, ReaderOk, TodoOk, Offered, Continues, Collecting
  <2> QED BY <1>1, <2>2 DEF IInv
<1> QED BY <1>2, <1>3, ReaderCases

LEMMA Inductive == Spec => []IInv
BY InitIInv, NextIInv, PTL DEF Spec
-----------------------------------------------------------------------------
(* The variables of the process, the repositories and the reader keep their
   types: no range beyond the chain is claimed or offered. *)
THEOREM TypeCorrect == Spec => []TypeOK
BY Inductive, PTL DEF IInv

(* A reader that comes back within a TTL, less the time of an upsert, is offered
   the unbroken continuation of what it has, whatever upsert, purge, failure or restart came in between. *)
THEOREM ReaderMissesNothing == Spec => NothingMissed
<1>1. IInv /\ [Next]_vars
        => [AskList /\ InTime =>
              \A i \in DOMAIN reader'.todo :
                reader'.todo[i].agreed =
                  IF i = 1 THEN reader.have ELSE reader'.todo[i - 1].claimed]_vars
  <2> SUFFICES ASSUME IInv, AskList, InTime, NEW i \in DOMAIN reader'.todo
               PROVE  reader'.todo[i].agreed =
                        IF i = 1 THEN reader.have ELSE reader'.todo[i - 1].claimed
    OBVIOUS
  <2> DEFINE s == ListMetadata(reader.have, reader.latest + 1)
  <2>1. phase = "running" /\ reader' \in {Idle(reader), Proceed(reader, s)}
    BY DEF AskList, Up
  <2>2. \A j \in DOMAIN s : s[j].agreed = IF j = 1 THEN reader.have ELSE s[j - 1].claimed
    BY <2>1, ListingOk
  <2> HIDE DEF s
  <2>3. reader'.todo = <<>> \/ reader'.todo = s
    BY <2>1 DEF Idle, Proceed, IInv, TypeOK
  <2> QED BY <2>2, <2>3
<1> QED BY <1>1, Inductive, PTL DEF Spec, NothingMissed

(* Within that time no preimage it was offered is purged before it asks for it. *)
THEOREM OffersAreKept == Spec => GoneOnlyIfOld
<1>1. IInv /\ [Next]_vars => [MissPreimage => ~InTime]_vars
  <2> SUFFICES ASSUME IInv, MissPreimage PROVE ~InTime
    OBVIOUS
  <2> DEFINE m == Head(reader.todo)
  <2>1. reader.todo # <<>> /\ reader.todo \in Seq(Keys) /\ Offered(reader, m) /\ m \in Keys
    <3>1. reader.todo # <<>> /\ reader.todo \in Seq(Keys)
      BY DEF MissPreimage, IInv, TodoOk, TypeOK
    <3> QED BY <3>1, TailFacts DEF IInv, TodoOk
  <2>2. ~BadMetadata(m)
    BY <2>1, KeyFacts, OptionsAssumption DEF BadMetadata
  <2>3. clock + UpsertTime >= reader.asof + Ttl
    BY <2>1, <2>2 DEF MissPreimage, GetPreimage, Offered
  <2> QED BY <2>3, ReaderNumbers, OptionsAssumption DEF InTime, IInv
<1> QED BY <1>1, Inductive, PTL DEF Spec, GoneOnlyIfOld
=============================================================================
