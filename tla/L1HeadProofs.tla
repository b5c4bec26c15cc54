---------------------------- MODULE L1HeadProofs ----------------------------
(***************************************************************************)
(* For every preset, committee, delay and number of faults: the data saved *)
(* with a head fit together, and the loop implements HeadPicker.  The      *)
(* invariant says what each state of an attempt knows of the two answers   *)
(* it holds, which the beacon node's next steps cannot take back.  The     *)
(* second part proves that retries wait out one boundary of periods.       *)
(***************************************************************************)
EXTENDS L1Head, TLAPS

Attempt ==
  /\ pc \in {"idle", "finality"} => finality_update = NoFinality
  /\ pc = "idle" => sync_l1 = 0
  /\ pc \in {"number", "found"} =>
       /\ light_client_update <= finality_update.finalized
       /\ SamePeriod
  /\ pc = "found" => sync_l1 <= finality_update.finalized

IInv == TypeOK /\ Attempt

LEMMA PeriodOfSlot == \A slot \in Slots : ComputePeriod(slot) \in Periods
  BY DEF Periods

LEMMA NoFinalityType == NoFinality \in FinalityUpdate
<1>1. 0 \in Slots /\ 0 \in 0..Validators
  BY BoundsAssumption, CommitteeAssumption DEF Slots
<1> QED BY <1>1 DEF NoFinality, FinalityUpdate

LEMMA FaultType ==
  ASSUME TypeOK, Fault \/ UNCHANGED faults
  PROVE  faults' \in 0..MaxFaults
  BY BoundsAssumption DEF Fault, TypeOK

LEMMA InitIInv == Init => IInv
<1> SUFFICES ASSUME Init PROVE IInv
  OBVIOUS
<1>1. 0 \in Slots /\ 1 \in Slots /\ Validators \in 0..Validators
  BY BoundsAssumption, CommitteeAssumption DEF Slots
<1>2. finality \in FinalityUpdate
  BY <1>1 DEF Init, FinalityUpdate
<1>3. finality_update \in FinalityUpdate
  BY NoFinalityType DEF Init
<1>4. ComputePeriod(0) = 0
  <2>1. ComputeEpoch(0) = 0
    BY PresetAssumption DEF ComputeEpoch
  <2> QED BY <2>1, PresetAssumption DEF ComputePeriod
<1>5. began \in Periods
  BY <1>1, <1>4, PeriodOfSlot DEF Init
<1>6. best \in [Periods -> Slots \cup {NoUpdate}]
  BY <1>1 DEF Init
<1>7. TypeOK
  BY <1>1, <1>2, <1>3, <1>5, <1>6, BoundsAssumption DEF Init, TypeOK
<1>8. Attempt
  BY DEF Init, Attempt
<1> QED BY <1>7, <1>8 DEF IInv

(* The step of the beacon node. *)
LEMMA NodeStep ==
  ASSUME IInv, BeaconAdvances
  PROVE  IInv' /\ finality'.finalized \in Nat /\ finality.finalized <= finality'.finalized
<1>1. PICK f \in {finality.finalized, finality.finalized + SlotsPerEpoch},
           s \in 1..SlotsPerEpoch, n \in Participations :
        /\ f < finality.signature + s /\ finality.signature + s <= MaxSlot
        /\ finality' = [finalized |-> f, signature |-> finality.signature + s,
                        participants |-> n]
        /\ best' \in {best, [best EXCEPT ![ComputePeriod(finality.signature + s)] = f]}
        /\ Fault \/ UNCHANGED faults
  BY DEF BeaconAdvances
<1>2. finality.finalized \in Nat /\ finality.signature \in Nat
  BY DEF IInv, TypeOK, FinalityUpdate, Slots
<1>3. f \in Slots /\ finality.signature + s \in Slots /\ finality.finalized <= f
  BY <1>1, <1>2, PresetAssumption, BoundsAssumption DEF Slots
<1>4. finality' \in FinalityUpdate
  BY <1>1, <1>3, CommitteeAssumption DEF FinalityUpdate
<1>5. best' \in [Periods -> Slots \cup {NoUpdate}]
  BY <1>1, <1>3, PeriodOfSlot DEF IInv, TypeOK
<1>6. faults' \in 0..MaxFaults
  BY <1>1, FaultType DEF IInv
<1>7. TypeOK'
  BY <1>4, <1>5, <1>6 DEF IInv, TypeOK, BeaconAdvances, answers
<1>8. Attempt'
  BY DEF IInv, Attempt, SamePeriod, FinalizedPeriod, BeaconAdvances, answers
<1>9. finality'.finalized = f
  BY <1>1
<1> QED BY <1>3, <1>7, <1>8, <1>9 DEF IInv, Slots

LEMMA SearchStep ==
  ASSUME IInv, Search
  PROVE  IInv'
<1>1. finality.finalized \in Nat /\ finality.signature \in Slots
  BY DEF IInv, TypeOK, FinalityUpdate, Slots
<1>2. sync_l1' \in Nat
  BY <1>1, PresetAssumption DEF Search
<1>3. began' \in Periods
  BY <1>1, PeriodOfSlot DEF Search
<1>4. TypeOK'
  BY <1>2, <1>3 DEF IInv, TypeOK, Search, node, answers
<1>5. Attempt'
  BY DEF IInv, Attempt, Search, answers
<1> QED BY <1>4, <1>5 DEF IInv

LEMMA AnswerStep ==
  ASSUME IInv, GetFinalityUpdate \/ GetLightClientUpdate
  PROVE  IInv'
<1>1. CASE GetFinalityUpdate
  <2>1. TypeOK'
    BY <1>1 DEF GetFinalityUpdate, IInv, TypeOK, node
  <2>2. Attempt'
    BY <1>1 DEF GetFinalityUpdate, Attempt
  <2> QED BY <2>1, <2>2 DEF IInv
<1>2. CASE GetLightClientUpdate
  <2>1. finality_update.finalized \in Slots
    BY DEF IInv, TypeOK, FinalityUpdate
  <2>2. FinalizedPeriod \in Periods
    BY <2>1, PeriodOfSlot DEF FinalizedPeriod
  <2>3. Update \in Slots
    BY <1>2, <2>2 DEF GetLightClientUpdate, HasUpdate, Update, IInv, TypeOK
  <2>4. TypeOK'
    BY <1>2, <2>3 DEF GetLightClientUpdate, IInv, TypeOK, node
  <2>5. Attempt'
    BY <1>2 DEF GetLightClientUpdate, Attempt, SlotsInOrder, SamePeriod, FinalizedPeriod
  <2> QED BY <2>4, <2>5 DEF IInv
<1> QED BY <1>1, <1>2

(* The ends of an attempt: another one, or the end of the search. *)
LEMMA EndStep ==
  ASSUME IInv, Fault \/ UNCHANGED faults, AskAgain \/ Return
  PROVE  IInv'
<1>1. faults' \in 0..MaxFaults
  BY FaultType DEF IInv
<1>2. 0 \in Slots
  BY BoundsAssumption DEF Slots
<1>3. CASE AskAgain
  <2>1. rounds' \in 0..2
    BY <1>3 DEF AskAgain, IInv, TypeOK
  <2>2. TypeOK'
    BY <1>1, <1>2, <1>3, <2>1, NoFinalityType DEF AskAgain, Forget, IInv, TypeOK, node
  <2>3. Attempt'
    BY <1>3 DEF AskAgain, Forget, Attempt
  <2> QED BY <2>2, <2>3 DEF IInv
<1>4. CASE Return
  <2>1. TypeOK'
    BY <1>1, <1>2, <1>4, NoFinalityType DEF Return, Forget, IInv, TypeOK, node
  <2>2. Attempt'
    BY <1>4 DEF Return, Forget, Attempt
  <2> QED BY <2>1, <2>2 DEF IInv
<1> QED BY <1>3, <1>4

LEMMA FoundStep ==
  ASSUME IInv, Found
  PROVE  IInv'
<1>1. TypeOK'
  BY DEF IInv, TypeOK, Found, node, answers
<1>2. Attempt'
  <2>1. finality_update.finalized \in Nat /\ sync_l1 \in Nat
    BY DEF IInv, TypeOK, FinalityUpdate, Slots
  <2> QED BY <2>1 DEF IInv, Attempt, Found, Recent, SamePeriod, FinalizedPeriod, answers
<1> QED BY <1>1, <1>2 DEF IInv

(* The attempts that end without a head, by what they do. *)
LEMMA Endings ==
  ASSUME Mismatch \/ BeaconFails \/ Delayed \/ L1Fails \/ Used
  PROVE  (Fault \/ UNCHANGED faults) /\ (AskAgain \/ Return)
  BY DEF Mismatch, BeaconFails, FinalityUpdateFails, LightClientUpdateFails, Delayed,
     L1Fails, Used

LEMMA NextIInv == IInv /\ [Next]_vars => IInv'
<1> SUFFICES ASSUME IInv, [Next]_vars PROVE IInv'
  OBVIOUS
<1>1. CASE BeaconAdvances
  BY <1>1, NodeStep
<1>2. CASE Search
  BY <1>2, SearchStep
<1>3. CASE GetFinalityUpdate \/ GetLightClientUpdate
  BY <1>3, AnswerStep
<1>4. CASE Found
  BY <1>4, FoundStep
<1>5. CASE Mismatch \/ BeaconFails \/ Delayed \/ L1Fails \/ Used
  BY <1>5, Endings, EndStep
<1>6. CASE UNCHANGED vars
  BY <1>6 DEF IInv, TypeOK, Attempt, SamePeriod, FinalizedPeriod, vars, node, answers
<1> QED BY <1>1, <1>2, <1>3, <1>4, <1>5, <1>6 DEF Next

(* TypeOK is an invariant of the loop, the answer of the beacon node for a period
   without an update included. *)
THEOREM TypeCorrect == Spec => []TypeOK
<1>1. IInv => TypeOK
  BY DEF IInv
<1> QED BY <1>1, InitIInv, NextIInv, PTL DEF Spec

(* SavedPairFits: the finality update and the light client update that are saved
   with a head fit together, whatever the beacon node did between the calls. *)
THEOREM SavedPair == Spec => []SavedPairFits
<1>1. IInv => SavedPairFits
  BY DEF IInv, Attempt, SavedPairFits, SamePeriod, FinalizedPeriod
<1> QED BY <1>1, InitIInv, NextIInv, PTL DEF Spec
-----------------------------------------------------------------------------
LEMMA PickerInit == Init => Picker!Init
<1> SUFFICES ASSUME Init PROVE Picker!Init
  OBVIOUS
<1>1. finality.finalized = 0 /\ finality_update.finalized = 0
  BY DEF Init, NoFinality
<1> QED BY <1>1 DEF Init, Picker!Init, PickerPc

LEMMA PickerNext == IInv /\ [Next]_vars => [Picker!Next]_(Picker!pickerVars)
<1> SUFFICES ASSUME IInv, [Next]_vars PROVE [Picker!Next]_(Picker!pickerVars)
  OBVIOUS
<1>0. /\ NoFinality.finalized = 0
      /\ pc \in {"idle", "finality", "update", "number", "found"}
  BY DEF NoFinality, IInv, TypeOK
<1>1. CASE BeaconAdvances
  <2>1. /\ finality.finalized \in Nat /\ finality'.finalized \in Nat
        /\ finality.finalized <= finality'.finalized
    BY <1>1, NodeStep DEF IInv, TypeOK, FinalityUpdate, Slots
  <2>2. UNCHANGED <<pc, sync_l1, finality_update>>
    BY <1>1 DEF BeaconAdvances, answers
  <2>3. CASE finality.finalized = finality'.finalized
    BY <2>2, <2>3 DEF Picker!pickerVars, PickerPc
  <2>4. CASE finality'.finalized > finality.finalized
    BY <2>2, <2>4 DEF Picker!Next, Picker!BeaconAdvances, PickerPc
  <2> QED BY <2>1, <2>3, <2>4
<1>2. CASE Search
  <2>1. sync_l1' \in Nat
    BY <1>2, SearchStep DEF IInv, TypeOK
  <2> QED BY <1>2, <2>1 DEF Search, Picker!Next, Picker!SyncStatus, node, answers, PickerPc
<1>3. CASE GetFinalityUpdate
  BY <1>3 DEF GetFinalityUpdate, Picker!Next, Picker!BeaconAnswers, node, PickerPc
<1>4. CASE GetLightClientUpdate
  BY <1>4 DEF GetLightClientUpdate, Picker!pickerVars, node, PickerPc
<1>5. CASE Found
  BY <1>5 DEF Found, Recent, Picker!Next, Picker!L1HeadFound, node, answers, PickerPc
<1>6. CASE AskAgain /\ pc \in {"update", "number"}
  BY <1>0, <1>6 DEF AskAgain, Forget, Picker!Next, Picker!AskAgain, node, PickerPc
<1>7. CASE Return /\ pc # "idle"
  BY <1>0, <1>7 DEF Return, Forget, Picker!Next, Picker!Return, node, PickerPc
<1>8. CASE Mismatch \/ Delayed \/ L1Fails
  BY <1>6, <1>8 DEF Mismatch, Delayed, L1Fails
<1>9. CASE BeaconFails \/ Used
  BY <1>7, <1>9 DEF BeaconFails, FinalityUpdateFails, LightClientUpdateFails, Used
<1>10. CASE UNCHANGED vars
  BY <1>10 DEF vars, node, answers, Picker!pickerVars, PickerPc
<1> QED BY <1>1, <1>2, <1>3, <1>4, <1>5, <1>8, <1>9, <1>10 DEF Next

(* ImplementsPicker: the loop is what Collector takes it for. *)
THEOREM Refinement == Spec => ImplementsPicker
<1> QED BY PickerInit, PickerNext, InitIInv, NextIInv, PTL
      DEF Spec, ImplementsPicker, Picker!Spec
-----------------------------------------------------------------------------
(* The first slot of a period. *)
Boundary(p) == SlotsPerEpoch * (EpochsPerPeriod * p)

LEMMA MulMono == \A a, b, c \in Nat : a <= b => c * a <= c * b
  OBVIOUS

LEMMA DivBounds ==
  \A n \in Nat, d \in Nat \ {0} :
    n \div d \in Nat /\ d * (n \div d) <= n /\ n < d * (n \div d + 1)
  OBVIOUS

LEMMA BoundaryType == \A p \in Nat : Boundary(p) \in Nat
  BY PresetAssumption DEF Boundary

LEMMA BoundaryMono == \A p, q \in Nat : p <= q => Boundary(p) <= Boundary(q)
<1> SUFFICES ASSUME NEW p \in Nat, NEW q \in Nat, p <= q
             PROVE  Boundary(p) <= Boundary(q)
  OBVIOUS
<1>1. EpochsPerPeriod * p \in Nat /\ EpochsPerPeriod * q \in Nat
  BY PresetAssumption
<1>2. EpochsPerPeriod * p <= EpochsPerPeriod * q
  BY PresetAssumption, MulMono
<1> QED BY <1>1, <1>2, PresetAssumption, MulMono DEF Boundary

(* A slot lies between the boundary of its period and the next one. *)
LEMMA PeriodBounds ==
  ASSUME NEW slot \in Nat
  PROVE  /\ ComputePeriod(slot) \in Nat
         /\ Boundary(ComputePeriod(slot)) <= slot
         /\ slot < Boundary(ComputePeriod(slot) + 1)
<1> DEFINE e == ComputeEpoch(slot)
           p == ComputePeriod(slot)
<1>1. e \in Nat /\ SlotsPerEpoch * e <= slot /\ slot < SlotsPerEpoch * (e + 1)
  BY DivBounds, PresetAssumption DEF ComputeEpoch
<1>2. p \in Nat /\ EpochsPerPeriod * p <= e /\ e < EpochsPerPeriod * (p + 1)
  BY <1>1, DivBounds, PresetAssumption DEF ComputePeriod
<1>3. EpochsPerPeriod * p \in Nat /\ EpochsPerPeriod * (p + 1) \in Nat
  BY <1>2, PresetAssumption
<1> HIDE DEF e, p
<1>4. SlotsPerEpoch * (EpochsPerPeriod * p) <= SlotsPerEpoch * e
  BY <1>1, <1>2, <1>3, MulMono, PresetAssumption
<1>5. SlotsPerEpoch * (e + 1) <= SlotsPerEpoch * (EpochsPerPeriod * (p + 1))
  <2>1. e + 1 \in Nat /\ e + 1 <= EpochsPerPeriod * (p + 1)
    BY <1>1, <1>2, <1>3
  <2> QED BY <2>1, <1>3, MulMono, PresetAssumption
<1>6. /\ SlotsPerEpoch * e \in Nat /\ SlotsPerEpoch * (e + 1) \in Nat
      /\ Boundary(p) \in Nat /\ Boundary(p + 1) \in Nat
  BY <1>1, <1>2, BoundaryType, PresetAssumption
<1>7. Boundary(p) <= slot /\ slot < Boundary(p + 1)
  BY <1>1, <1>4, <1>5, <1>6 DEF Boundary
<1> QED BY <1>2, <1>7 DEF p

LEMMA PeriodBetween ==
  ASSUME NEW slot \in Nat, NEW p \in Nat, Boundary(p) <= slot, slot < Boundary(p + 1)
  PROVE  ComputePeriod(slot) = p
<1> DEFINE q == ComputePeriod(slot)
<1>1. q \in Nat /\ Boundary(q) <= slot /\ slot < Boundary(q + 1)
  BY PeriodBounds
<1> HIDE DEF q
<1>2. /\ Boundary(p) \in Nat /\ Boundary(q) \in Nat
      /\ Boundary(p + 1) \in Nat /\ Boundary(q + 1) \in Nat
  BY <1>1, BoundaryType
<1>3. ~(p + 1 <= q)
  BY <1>1, <1>2, BoundaryMono
<1>4. ~(q + 1 <= p)
  BY <1>1, <1>2, BoundaryMono
<1> QED BY <1>1, <1>3, <1>4 DEF q

(* Finalized slots are multiples of an epoch, as boundaries are. *)
LEMMA EpochFits ==
  ASSUME NEW e \in Nat, NEW p \in Nat, SlotsPerEpoch * e < Boundary(p)
  PROVE  SlotsPerEpoch * (e + 1) <= Boundary(p)
<1>1. EpochsPerPeriod * p \in Nat
  BY PresetAssumption
<1>2. ~(EpochsPerPeriod * p <= e)
  <2>1. SUFFICES ASSUME EpochsPerPeriod * p <= e PROVE FALSE
    OBVIOUS
  <2>2. SlotsPerEpoch * (EpochsPerPeriod * p) <= SlotsPerEpoch * e
    BY <1>1, <2>1, MulMono, PresetAssumption
  <2>3. SlotsPerEpoch * e \in Nat /\ Boundary(p) \in Nat
    BY BoundaryType, PresetAssumption
  <2> QED BY <2>2, <2>3 DEF Boundary
<1>3. e + 1 <= EpochsPerPeriod * p
  BY <1>1, <1>2
<1> QED BY <1>1, <1>3, MulMono, PresetAssumption DEF Boundary
-----------------------------------------------------------------------------
(* The chain finalizes a block less than a period after its signature slot. *)
DelayBounded == MaxDelay >= 1 /\ MaxDelay < SlotsPerEpoch * EpochsPerPeriod

LEMMA DelayFits ==
  ASSUME DelayBounded, NEW p \in Nat
  PROVE  Boundary(p) + MaxDelay < Boundary(p + 1)
<1>1. EpochsPerPeriod * (p + 1) = EpochsPerPeriod * p + EpochsPerPeriod
      /\ EpochsPerPeriod * p \in Nat
  BY PresetAssumption
<1>2. Boundary(p + 1) = Boundary(p) + SlotsPerEpoch * EpochsPerPeriod
  BY <1>1, PresetAssumption DEF Boundary
<1>3. Boundary(p) \in Nat /\ SlotsPerEpoch * EpochsPerPeriod \in Nat
  BY BoundaryType, PresetAssumption
<1> QED BY <1>2, <1>3, BoundsAssumption DEF DelayBounded

Searching == pc \in {"finality", "update", "number"}

(* What the beacon node holds while the committee signs. *)
Healthy ==
  /\ \E e \in Nat : finality.finalized = SlotsPerEpoch * e
  /\ finality.finalized <= finality.signature
  /\ finality.signature <= finality.finalized + MaxDelay
  /\ ~InsufficientParticipation(finality.participants)
  /\ \A p \in Periods : best[p] <= finality.finalized

(* The next boundary after the beginning of a search is as far as it gets: with
   that slot final, no attempt made on the present chain fails. *)
AtBoundary ==
  /\ Searching =>
       /\ finality.finalized <= Boundary(began + 1)
       /\ sync_l1 <= Boundary(began + 1)
       /\ finality.finalized = Boundary(began + 1) => rounds < 2
  /\ pc \in {"update", "number"} /\ rounds > 0 => finality_update = finality

OneInv == IInv /\ (faults = 0 => Healthy /\ AtBoundary)

LEMMA Numbers ==
  ASSUME TypeOK
  PROVE  /\ finality.finalized \in Nat /\ finality.signature \in Nat
         /\ finality.participants \in Nat /\ Validators \in Nat
         /\ sync_l1 \in Nat /\ began \in Nat /\ faults \in Nat /\ rounds \in 0..2
         /\ \A p \in Periods : best[p] \in Int
         /\ SlotsPerEpoch \in Nat \ {0} /\ MaxDelay \in Nat
<1>1. \A p \in Periods : p \in Nat
  BY PeriodBounds DEF Periods, Slots
<1>2. faults \in Nat
  BY BoundsAssumption DEF TypeOK
<1> QED BY <1>1, <1>2, CommitteeAssumption, PresetAssumption, BoundsAssumption
        DEF TypeOK, FinalityUpdate, Slots, NoUpdate

LEMMA InitOne ==
  ASSUME DelayBounded, Init
  PROVE  OneInv
<1>1. \E e \in Nat : finality.finalized = SlotsPerEpoch * e
  <2>1. finality.finalized = SlotsPerEpoch * 0
    BY PresetAssumption DEF Init
  <2> QED BY <2>1
<1>2. finality.finalized <= finality.signature
      /\ finality.signature <= finality.finalized + MaxDelay
  BY BoundsAssumption DEF Init, DelayBounded
<1>3. ~InsufficientParticipation(finality.participants)
  BY CommitteeAssumption DEF Init, InsufficientParticipation
<1>4. \A p \in Periods : best[p] <= finality.finalized
  BY DEF Init, NoUpdate
<1>5. AtBoundary
  BY DEF Init, AtBoundary, Searching
<1> QED BY <1>1, <1>2, <1>3, <1>4, <1>5, InitIInv DEF OneInv, Healthy

(* The chain goes on: it does not while a search stands at the boundary. *)
LEMMA NodeOne ==
  ASSUME OneInv, BeaconAdvances, faults' = 0
  PROVE  Healthy' /\ AtBoundary'
<1>1. PICK f \in {finality.finalized, finality.finalized + SlotsPerEpoch},
           s \in 1..SlotsPerEpoch, n \in Participations :
        /\ f < finality.signature + s /\ finality.signature + s <= f + MaxDelay
        /\ finality' = [finalized |-> f, signature |-> finality.signature + s,
                        participants |-> n]
        /\ best' \in {best, [best EXCEPT ![ComputePeriod(finality.signature + s)] = f]}
        /\ IF InsufficientParticipation(n) THEN Fault ELSE UNCHANGED faults
  BY DEF BeaconAdvances
<1>2. TypeOK
  BY DEF OneInv, IInv
<1>3. ~InsufficientParticipation(n) /\ faults = 0
  BY <1>1, <1>2, Numbers DEF Fault
<1>4. Healthy /\ AtBoundary
  BY <1>3 DEF OneInv
<1>5. PICK e \in Nat : finality.finalized = SlotsPerEpoch * e
  BY <1>4 DEF Healthy
<1>6. /\ finality'.finalized = f /\ finality'.signature = finality.signature + s
      /\ finality'.participants = n
  BY <1>1
<1>7. finality.finalized + SlotsPerEpoch = SlotsPerEpoch * (e + 1)
  BY <1>2, <1>5, Numbers
<1>8. finality.finalized <= f /\ f \in Nat
  BY <1>2, Numbers
<1>9. Healthy'
  <2>1. \E d \in Nat : f = SlotsPerEpoch * d
    BY <1>5, <1>7
  <2>2. \A p \in Periods : best'[p] <= f
    <3> SUFFICES ASSUME NEW p \in Periods PROVE best'[p] <= f
      OBVIOUS
    <3>1. best[p] <= f /\ f <= f
      BY <1>2, <1>4, <1>8, Numbers DEF Healthy
    <3> QED BY <1>1, <1>2, <3>1 DEF TypeOK
  <2>3. f <= finality.signature + s
    BY <1>1, <1>2, <1>8, Numbers
  <2> QED BY <1>1, <1>3, <1>6, <2>1, <2>2, <2>3 DEF Healthy, InsufficientParticipation
<1>10. AtBoundary'
  <2>1. UNCHANGED <<pc, sync_l1, began>> /\ rounds' = 0
    BY DEF BeaconAdvances
  <2>2. CASE ~Searching
    BY <2>1, <2>2 DEF AtBoundary, Searching
  <2>3. CASE Searching
    <3>1. finality.finalized <= Boundary(began + 1) /\ sync_l1 <= Boundary(began + 1)
          /\ finality.finalized # Boundary(began + 1)
      BY <1>4, <2>3 DEF AtBoundary, Searching, BeaconAdvances
    <3>2. began + 1 \in Nat /\ Boundary(began + 1) \in Nat
      BY <1>2, Numbers, BoundaryType
    <3>3. finality.finalized < Boundary(began + 1)
      BY <1>2, <3>1, <3>2, Numbers
    <3>4. SlotsPerEpoch * (e + 1) <= Boundary(began + 1)
      BY <1>5, <3>2, <3>3, EpochFits
    <3>5. f <= Boundary(began + 1)
      BY <1>7, <3>1, <3>4
    <3> QED BY <1>6, <2>1, <3>1, <3>5 DEF AtBoundary, Searching
  <2> QED BY <2>2, <2>3
<1> QED BY <1>9, <1>10

LEMMA SearchOne ==
  ASSUME OneInv, Search, faults' = 0
  PROVE  Healthy' /\ AtBoundary'
<1>1. TypeOK /\ faults = 0
  BY DEF OneInv, IInv, Search
<1>2. Healthy'
  BY <1>1 DEF OneInv, Healthy, Search, node
<1>3. PICK e \in Nat : finality.finalized = SlotsPerEpoch * e
  BY <1>1 DEF OneInv, Healthy
<1> DEFINE b == ComputePeriod(finality.signature)
<1>4. b \in Nat /\ finality.signature < Boundary(b + 1)
  BY <1>1, Numbers, PeriodBounds
<1>5. began' = b
  BY DEF Search
<1> HIDE DEF b
<1>6. b + 1 \in Nat /\ Boundary(b + 1) \in Nat
  BY <1>4, BoundaryType
<1>7. finality.finalized < Boundary(b + 1)
  BY <1>1, <1>4, <1>6, Numbers DEF OneInv, Healthy
<1>8. finality.finalized + SlotsPerEpoch <= Boundary(b + 1)
  <2>1. SlotsPerEpoch * (e + 1) <= Boundary(b + 1)
    BY <1>3, <1>6, <1>7, EpochFits
  <2>2. SlotsPerEpoch * (e + 1) = finality.finalized + SlotsPerEpoch
    BY <1>1, <1>3, Numbers
  <2> QED BY <2>1, <2>2
<1>9. sync_l1' <= Boundary(b + 1)
  BY <1>1, <1>6, <1>7, <1>8, Numbers DEF Search
<1>10. finality' = finality /\ pc' = "finality"
  BY DEF Search, node
<1>11. finality.finalized # Boundary(b + 1) /\ finality.finalized <= Boundary(b + 1)
  BY <1>1, <1>6, <1>7, Numbers
<1> QED BY <1>2, <1>5, <1>9, <1>10, <1>11 DEF AtBoundary, Searching

(* An attempt on the present chain, with the boundary just final, succeeds. *)
LEMMA NoEndAtBoundary ==
  ASSUME DelayBounded, OneInv, faults = 0, rounds > 0, Mismatch \/ Delayed
  PROVE  finality.finalized # Boundary(began + 1)
<1> SUFFICES ASSUME finality.finalized = Boundary(began + 1) PROVE FALSE
  OBVIOUS
<1>1. TypeOK /\ Healthy /\ AtBoundary /\ pc \in {"update", "number"}
  BY DEF OneInv, IInv, Mismatch, Delayed
<1>2. finality_update = finality /\ sync_l1 <= finality.finalized
  BY <1>1 DEF AtBoundary, Searching
<1>3. began + 1 \in Nat /\ Boundary(began + 1) \in Nat
      /\ Boundary((began + 1) + 1) \in Nat
  BY <1>1, Numbers, BoundaryType
<1>4. CASE Mismatch
  <2>1. finality.signature < Boundary((began + 1) + 1)
    BY <1>1, <1>3, Numbers, DelayFits DEF Healthy
  <2>2. ComputePeriod(finality.signature) = began + 1
    BY <1>1, <1>3, <2>1, Numbers, PeriodBetween DEF Healthy
  <2>3. finality.finalized < Boundary((began + 1) + 1)
    BY <1>1, <1>3, <2>1, Numbers DEF Healthy
  <2>4. ComputePeriod(finality.finalized) = began + 1
    BY <1>1, <1>3, <2>3, Numbers, PeriodBetween
  <2>5. SamePeriod
    BY <1>2, <2>2, <2>4 DEF SamePeriod, FinalizedPeriod
  <2>6. ComputePeriod(finality.finalized) \in Periods
    BY <1>1, PeriodOfSlot DEF TypeOK, FinalityUpdate
  <2>7. SlotsInOrder
    BY <1>1, <1>2, <2>6 DEF Healthy, SlotsInOrder, Update, FinalizedPeriod
  <2> QED BY <1>4, <2>5, <2>7 DEF Mismatch
<1>5. CASE Delayed
  BY <1>1, <1>2, <1>5, Numbers DEF Delayed, Recent, Signed, Healthy
<1> QED BY <1>4, <1>5

LEMMA EndOne ==
  ASSUME DelayBounded, OneInv, faults' = 0, Mismatch \/ Delayed \/ L1Fails
  PROVE  Healthy' /\ AtBoundary'
<1>1. TypeOK
  BY DEF OneInv, IInv
<1>2. faults = 0 /\ (Mismatch \/ Delayed)
  BY <1>1, Numbers DEF Mismatch, Delayed, L1Fails, Fault
<1>3. Healthy /\ AtBoundary /\ Searching
  BY <1>2 DEF OneInv, Mismatch, Delayed, Searching
<1>4. AskAgain
  BY <1>2 DEF Mismatch, Delayed
<1>5. Healthy'
  BY <1>3, <1>4 DEF Healthy, AskAgain, node
<1>6. finality.finalized = Boundary(began + 1) => rounds' < 2
  BY <1>1, <1>2, <1>4, NoEndAtBoundary, Numbers DEF AskAgain
<1>7. AtBoundary'
  BY <1>3, <1>4, <1>6 DEF AtBoundary, Searching, AskAgain, node
<1> QED BY <1>5, <1>7

LEMMA NextOne == DelayBounded /\ OneInv /\ [Next]_vars => OneInv'
<1> SUFFICES ASSUME DelayBounded, OneInv, [Next]_vars, faults' = 0
             PROVE  Healthy' /\ AtBoundary'
  BY NextIInv DEF OneInv
<1>1. CASE BeaconAdvances
  BY <1>1, NodeOne
<1>2. CASE Search
  BY <1>2, SearchOne
<1>3. CASE Mismatch \/ Delayed \/ L1Fails
  BY <1>3, EndOne
<1>4. TypeOK
  BY DEF OneInv, IInv
<1>5. CASE GetFinalityUpdate
  BY <1>5 DEF OneInv, Healthy, AtBoundary, Searching, GetFinalityUpdate, node
<1>6. CASE GetLightClientUpdate \/ Found
  BY <1>6 DEF OneInv, Healthy, AtBoundary, Searching, GetLightClientUpdate, Found, node,
     answers
<1>7. CASE BeaconFails \/ Used
  BY <1>4, <1>7, Numbers DEF OneInv, Healthy, AtBoundary, Searching, BeaconFails, FinalityUpdateFails,
     LightClientUpdateFails, Used, Return, Fault, node
<1>8. CASE UNCHANGED vars
  BY <1>8 DEF OneInv, Healthy, AtBoundary, Searching, vars, node, answers
<1> QED BY <1>1, <1>2, <1>3, <1>5, <1>6, <1>7, <1>8 DEF Next

(* OneBoundary: the retries of the loop wait out one boundary of sync committee
   periods and no more, if the chain finalizes within a period and the loop makes
   an attempt between two of its steps. *)
THEOREM WaitsOneBoundary ==
  ASSUME DelayBounded
  PROVE  Spec => []OneBoundary
<1>1. OneInv => OneBoundary
  <2> SUFFICES ASSUME OneInv, faults = 0, Searching
               PROVE  ComputePeriod(finality.finalized) <= began + 1
    BY DEF OneBoundary, Searching
  <2> DEFINE p == ComputePeriod(finality.finalized)
  <2>1. TypeOK /\ finality.finalized <= Boundary(began + 1)
    BY DEF OneInv, IInv, AtBoundary
  <2>2. p \in Nat /\ Boundary(p) <= finality.finalized
    BY <2>1, Numbers, PeriodBounds
  <2> HIDE DEF p
  <2>3. began + 1 \in Nat /\ Boundary(began + 1) \in Nat
    BY <2>1, Numbers, BoundaryType
  <2>4. p <= began + 1
    <3>1. SUFFICES ASSUME (began + 1) + 1 <= p PROVE FALSE
      BY <2>2, <2>3
    <3>2. Boundary((began + 1) + 1) <= Boundary(p)
      BY <2>2, <2>3, <3>1, BoundaryMono
    <3>3. Boundary(began + 1) + MaxDelay < Boundary((began + 1) + 1)
      BY <2>3, DelayFits
    <3> QED BY <2>1, <2>2, <2>3, <3>2, <3>3, Numbers, BoundaryType
  <2> QED BY <2>4 DEF p
<1>2. Init => OneInv
  BY InitOne
<1>3. OneInv /\ [Next]_vars => OneInv'
  BY NextOne
<1> QED BY <1>1, <1>2, <1>3, PTL DEF Spec
=============================================================================
