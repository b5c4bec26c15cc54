-------------------------- MODULE DerivationProofs --------------------------
(* What a light client replays, for every set of ranges, heads and data, on a
   devnet or not. *)
EXTENDS Derivation, TLAPS

(* The request follows from the metadata as far as the task has got. *)
RequestInv ==
  /\ request.l1_head = metadata.l1_head
  /\ request.l2_block_number = metadata.range[2]
  /\ pc \in {"claimed", "start", "derive", "take"} =>
       request.agreed_l2_output_root = Root(metadata.range[1])
  /\ pc \in {"start", "derive", "take"} =>
       request.l2_output_root = Root(metadata.range[2])

(* What the client has read was local, or set during this derivation. *)
Found(entry) ==
  \/ entry[1] \in BootKeys /\ entry[2] = Local[entry[1]]
  \/ entry[1] \in mem /\ entry[2] = <<"data", entry[1]>>

ReadInv ==
  /\ pc \in {"agreed", "claimed", "start"} => read = {}
  /\ pc \in {"derive", "take"} => mem = used /\ \A entry \in read : Found(entry)

IInv == TypeOK /\ RequestInv /\ ReadInv /\ Replayable
-----------------------------------------------------------------------------
LEMMA BlocksType == \A r \in Ranges : r[1] \in Blocks /\ r[2] \in Blocks
  BY DEF Blocks

LEMMA RootsType == None \in Roots /\ \A b \in Blocks : Root(b) \in Roots
  BY DEF Roots

LEMMA InitInv == Init => IInv
<1> SUFFICES ASSUME Init PROVE IInv
  OBVIOUS
<1> USE DEF Init
<1>1. TypeOK
  BY BlocksType, RootsType DEF TypeOK, NoRequest
<1>2. RequestInv
  BY DEF RequestInv, NoRequest
<1>3. ReadInv /\ Replayable
  BY DEF ReadInv, Replayable
<1> QED BY <1>1, <1>2, <1>3 DEF IInv

LEMMA NextType == TypeOK /\ [Next]_vars => TypeOK'
<1> SUFFICES ASSUME TypeOK, [Next]_vars PROVE TypeOK'
  OBVIOUS
<1> USE BlocksType, RootsType DEF TypeOK
<1>1. CASE Begin
  BY <1>1 DEF Begin, NoRequest
<1>2. CASE AgreedRoot
  BY <1>2 DEF AgreedRoot
<1>3. CASE ClaimedRoot
  BY <1>3 DEF ClaimedRoot
<1>4. CASE RequestFails \/ TimesOut
  BY <1>4 DEF RequestFails, TimesOut
<1>5. CASE Start
  BY <1>5 DEF Start, FreshStore
<1>6. CASE ClientBoots
  BY <1>6 DEF ClientBoots
<1>7. CASE \E k \in Data : ClientReads(k)
  BY <1>7 DEF ClientReads
<1>8. CASE ClientEnds
  BY <1>8 DEF ClientEnds
<1>9. CASE Take
  BY <1>9 DEF Take, Encoded, Taken
<1>10. CASE ServerFetches
  BY <1>10 DEF ServerFetches
<1>11. CASE DerivationFails
  BY <1>11 DEF DerivationFails
<1>12. CASE UNCHANGED vars
  BY <1>12 DEF vars
<1> QED BY <1>1, <1>2, <1>3, <1>4, <1>5, <1>6, <1>7, <1>8, <1>9, <1>10, <1>11, <1>12
        DEF Next, Derive

LEMMA NextRequest == TypeOK /\ RequestInv /\ [Next]_vars => RequestInv'
<1> SUFFICES ASSUME TypeOK, RequestInv, [Next]_vars PROVE RequestInv'
  OBVIOUS
<1> USE DEF TypeOK, RequestInv
<1>1. CASE Begin
  BY <1>1 DEF Begin, NoRequest
<1>2. CASE AgreedRoot
  BY <1>2 DEF AgreedRoot
<1>3. CASE ClaimedRoot
  BY <1>3 DEF ClaimedRoot
<1>4. CASE RequestFails \/ TimesOut \/ DerivationFails
  BY <1>4 DEF RequestFails, TimesOut, DerivationFails
<1>5. CASE Derive \/ ServerFetches
  BY <1>5 DEF Derive, Start, ClientBoots, ClientReads, ClientEnds, Take, ServerFetches
<1>6. CASE UNCHANGED vars
  BY <1>6 DEF vars
<1> QED BY <1>1, <1>2, <1>3, <1>4, <1>5, <1>6 DEF Next

(* A local key is not data, and what the local store says of it depends on the
   request alone. *)
LEMMA GetLocal == \A k \in BootKeys : Get(k) = Local[k]
  BY KeysAssumption DEF BootKeys, ProvidedConfigs, Get

LEMMA GetData == \A k \in Data : Get(k) # None => k \in mem /\ Get(k) = <<"data", k>>
  BY DEF Get

LEMMA NextRead == TypeOK /\ ReadInv /\ [Next]_vars => ReadInv'
<1> SUFFICES ASSUME TypeOK, ReadInv, [Next]_vars PROVE ReadInv'
  OBVIOUS
<1> USE DEF ReadInv
<1>1. CASE Begin
  BY <1>1 DEF Begin
<1>2. CASE AgreedRoot \/ ClaimedRoot
  BY <1>2 DEF AgreedRoot, ClaimedRoot
<1>3. CASE RequestFails \/ TimesOut \/ DerivationFails
  BY <1>3 DEF RequestFails, TimesOut, DerivationFails
<1>4. CASE Start
  BY <1>4 DEF Start, FreshStore
<1>5. CASE ClientBoots
  <2>1. \A entry \in read' : entry[1] \in BootKeys /\ entry[2] = Local[entry[1]]
    BY <1>5, GetLocal DEF ClientBoots
  <2>2. Local' = Local
    BY <1>5 DEF ClientBoots, Local
  <2> QED BY <1>5, <2>1, <2>2 DEF ClientBoots, Found
<1>6. CASE \E k \in Data : ClientReads(k)
  <2> PICK k \in Data : ClientReads(k)
    BY <1>6
  <2>1. Local' = Local
    BY DEF ClientReads, Local
  <2>2. k \in mem /\ Get(k) = <<"data", k>>
    BY GetData DEF ClientReads
  <2> QED BY <2>1, <2>2 DEF ClientReads, Found
<1>7. CASE ClientEnds
  <2>1. Local' = Local
    BY <1>7 DEF ClientEnds, Local
  <2> QED BY <1>7, <2>1 DEF ClientEnds, Found
<1>8. CASE ServerFetches
  <2>1. Local' = Local
    BY <1>8 DEF ServerFetches, Local
  <2>2. PICK set \in SUBSET Data : mem' = mem \cup set /\ used' = used \cup set
    BY <1>8 DEF ServerFetches
  <2>3. \A entry \in read : Found(entry) => Found(entry)'
    BY <2>1, <2>2 DEF Found
  <2> QED BY <1>8, <2>2, <2>3 DEF ServerFetches
<1>9. CASE Take
  BY <1>9 DEF Take
<1>10. CASE UNCHANGED vars
  <2>1. Local' = Local
    BY <1>10 DEF vars, Local
  <2> QED BY <1>10, <2>1 DEF vars, Found
<1> QED BY <1>1, <1>2, <1>3, <1>4, <1>5, <1>6, <1>7, <1>8, <1>9, <1>10 DEF Next, Derive

(* What the local store answered at boot, the light client has of its own. *)
LEMMA SameBoot ==
  ASSUME TypeOK, RequestInv, pc = "take", Take, NEW k \in BootKeys
  PROVE  LightClient(k)' = Local[k]
<1>1. request.l1_head = metadata.l1_head
      /\ request.l2_block_number = metadata.range[2]
      /\ request.agreed_l2_output_root = Root(metadata.range[1])
      /\ request.l2_output_root = Root(metadata.range[2])
  BY DEF RequestInv
<1>2. metadata' = metadata /\ preimages' = used \cup ProvidedConfigs
  BY DEF Take, Encoded
<1>3. CASE k \in LocalKeys
  <2>1. LightClient(k)' = LightClientLocal'[k]
    BY <1>3 DEF LightClient
  <2>2. LightClientLocal'[k] = Local[k]
    BY <1>1, <1>2, <1>3 DEF LocalKeys, LightClientLocal, Local
  <2> QED BY <2>1, <2>2
<1>4. CASE k \in ProvidedConfigs
  BY <1>2, <1>4 DEF ProvidedConfigs, ConfigKeys, LocalKeys, LightClient, Local
<1> QED BY <1>3, <1>4 DEF BootKeys

LEMMA SameData ==
  ASSUME TypeOK, ReadInv, pc = "take", Take, NEW k \in mem
  PROVE  LightClient(k)' = <<"data", k>>
<1>1. k \in preimages'
  BY DEF ReadInv, Take, Encoded
<1>2. k \in Data /\ k \notin LocalKeys \cup ConfigKeys
  BY KeysAssumption DEF TypeOK
<1> QED BY <1>1, <1>2 DEF LightClient

LEMMA NextReplayable == IInv /\ [Next]_vars => Replayable'
<1> SUFFICES ASSUME IInv, [Next]_vars, pc' = "done"
             PROVE  \A entry \in read' : LightClient(entry[1])' = entry[2]
  BY DEF Replayable
<1> USE DEF IInv
<1>1. CASE Take
  <2> SUFFICES ASSUME NEW entry \in read PROVE LightClient(entry[1])' = entry[2]
    BY <1>1 DEF Take
  <2>1. pc = "take" /\ Found(entry)
    BY <1>1 DEF Take, ReadInv
  <2>2. CASE entry[1] \in BootKeys /\ entry[2] = Local[entry[1]]
    BY <1>1, <2>1, <2>2, SameBoot
  <2>3. CASE entry[1] \in mem /\ entry[2] = <<"data", entry[1]>>
    BY <1>1, <2>1, <2>3, SameData
  <2> QED BY <2>1, <2>2, <2>3 DEF Found
<1>2. CASE UNCHANGED vars
  BY <1>2 DEF vars, Replayable, LightClient, LightClientLocal
<1>3. CASE Next /\ ~Take
  BY <1>3 DEF Next, Derive, Begin, AgreedRoot, ClaimedRoot, RequestFails, TimesOut,
     Start, ClientBoots, ClientReads, ClientEnds, ServerFetches, DerivationFails
<1> QED BY <1>1, <1>2, <1>3

LEMMA Invariant == Spec => []IInv
<1>1. IInv /\ [Next]_vars => IInv'
  BY NextType, NextRequest, NextRead, NextReplayable DEF IInv
<1> QED BY InitInv, <1>1, PTL DEF Spec

(* The store, the recorded keys and the request stay in their types, for every
   constant; what was recorded does not outlive its task. *)
THEOREM TypeCorrect == Spec => []TypeOK
<1>1. IInv => TypeOK
  BY DEF IInv
<1> QED BY Invariant, <1>1, PTL

(* A light client replays every derivation from what TracingKeyValueStore::set
   has recorded, whatever the server fetched, failed or left behind before. *)
THEOREM Replays == Spec => []Replayable
<1>1. IInv => Replayable
  BY DEF IInv
<1> QED BY Invariant, <1>1, PTL
=============================================================================
