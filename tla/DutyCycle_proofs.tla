-------------------------- MODULE DutyCycle_proofs --------------------------
(***************************************************************************)
(* The duty-cycle counters never grant more than a band's share of an      *)
(* hour, whatever the devices, channels, sizes and radio settings.         *)
(***************************************************************************)
EXTENDS DutyCycle, TLAPS

(* A frame takes air: the time computed for the sizes of a downlink is a   *)
(* number of milliseconds, none of its terms negative.                     *)
LEMMA SymbolsNat == ASSUME NEW n \in 4..252 PROVE numSymbols(n) \in Nat
<1>1. 4 * (Sf - 2 * lowRate) \in 1..40 /\ 8 * n - 4 * Sf + 28 + 16 \in Nat
  BY RadioAssumption DEF lowRate
<1>2. \A a \in Nat, b \in 1..40 : ceilDiv(a, b) \in Nat
  BY DEF ceilDiv
<1>3. ceilDiv(8 * n - 4 * Sf + 28 + 16, 4 * (Sf - 2 * lowRate)) \in Nat
  BY <1>1, <1>2
<1>4. \A c \in Nat, r \in 5..8 : 8 + c * r \in Nat
  OBVIOUS
<1> QED BY <1>3, <1>4, RadioAssumption DEF numSymbols

(* The air time of a packet is a number of milliseconds.                   *)
LEMMA AirTimeNat == ASSUME NEW n \in 4..252 PROVE airTime(n) \in Nat
<1>1. numSymbols(n) \in Nat
  BY SymbolsNat
<1>2. symbolChips(Sf) \in Nat
  BY DEF symbolChips
<1>3. \A a, b \in Nat : a * b \in Nat
  OBVIOUS
<1>4. (49 + 4 * numSymbols(n)) * symbolChips(Sf) \in Nat
  BY <1>1, <1>2, <1>3
<1>5. \A a \in Nat, b \in {125, 250, 500} : a \div (4 * b) \in Nat
  OBVIOUS
<1> QED BY <1>4, <1>5, RadioAssumption DEF airTime

(* The full counters are numbers.                                          *)
LEMMA FullNat == Full \in [Band -> Nat]
BY SMT DEF Full, Band

(* Every frequency is in a band.                                           *)
LEMMA BandOfBand == ASSUME NEW f \in Nat PROVE bandOf(f) \in Band
BY SMT DEF bandOf, Band

(* The counters start full: the invariant holds.                           *)
LEMMA InitIInv == DutyInit => IInv
<1> SUFFICES ASSUME DutyInit PROVE IInv
  OBVIOUS
<1>1. onAir \in [Band -> Int]
  BY FullNat DEF DutyInit
<1>3. out \in Downlink
  BY DEF DutyInit, Downlink, NoDownlink
<1>5. msgs \in 0..MaxMsg /\ refills \in 0..MaxRefill
  BY BoundAssumption DEF DutyInit
<1>6. /\ sub \in [Band -> {"todo", "loaded", "done"}] /\ held \in [Band -> Int]
      /\ charged \in [Band -> Nat] /\ used \in [Band -> Nat]
  BY DEF DutyInit, NoSub
<1>7. /\ freq \in [Device -> Frequency \cup {Absent}] /\ dev \in Device
      /\ pc \in {"idle", "set", "reduce", "subtract"} /\ messageTime \in Nat
      /\ refill \in SUBSET Band /\ flush \in BOOLEAN
  BY DEF DutyInit
<1>4. DutyTypeOK
  BY <1>1, <1>3, <1>5, <1>6, <1>7 DEF DutyTypeOK
<1>2. ChargedWithinBudget /\ NeverOvergrants /\ LoadedBound
  BY FullNat DEF DutyInit, ChargedWithinBudget, NeverOvergrants, LoadedBound, Due
<1> QED BY <1>4, <1>2 DEF IInv

(* The approval: what is charged is at most what the counter still offers. *)
LEMMA ReduceStep == IInv /\ reduceDutyCycle => IInv'
<1> SUFFICES ASSUME IInv, reduceDutyCycle PROVE IInv'
  OBVIOUS
<1> DEFINE band == bandOf(freq[dev])
           time == airTime((out.size + 4) % 256)
           granted == freq[dev] # Absent /\ time <= onAir[band]
<1> USE FullNat DEF IInv
<1>1. CASE ~granted
  <2>1. /\ pc' = "idle" /\ out' = NoDownlink
        /\ UNCHANGED <<onAir, freq, dev, held, timerVars, msgs, messageTime, sub, charged, used>>
    BY <1>1 DEF reduceDutyCycle
  <2>2. DutyTypeOK'
    BY <2>1 DEF DutyTypeOK, Downlink, NoDownlink, timerVars
  <2>3. (ChargedWithinBudget /\ NeverOvergrants /\ LoadedBound)'
    BY <2>1 DEF reduceDutyCycle, ChargedWithinBudget, NeverOvergrants, LoadedBound, Due
  <2> QED BY <2>2, <2>3
<1>2. CASE granted
  <2>1. /\ pc = "reduce" /\ pc' = "subtract" /\ messageTime' = time /\ sub' = NoSub
        /\ charged' = [charged EXCEPT ![band] = @ + time]
        /\ used' = [used EXCEPT ![bandOf(out.freq)] = @ + time]
        /\ UNCHANGED <<onAir, freq, dev, out, held, timerVars, msgs>>
    BY <1>2 DEF reduceDutyCycle
  <2>2. (out.size + 4) % 256 \in 4..252
    <3>1. out.size \in Sizes \cup {0}
      BY DEF DutyTypeOK, Downlink
    <3>2. out.size + 4 \in 4..252
      <4>1. \A n \in Sizes \cup {0} : n + 4 \in 4..252
        BY SizeAssumption
      <4> QED BY <3>1, <4>1
    <3>3. \A n \in 4..252 : n % 256 = n
      OBVIOUS
    <3> QED BY <3>2, <3>3
  <2>3. time \in Nat
    BY <2>2, AirTimeNat
  <2>4. band \in Band /\ bandOf(out.freq) \in Band
    <3>1. freq[dev] \in Frequency \cup {Absent} /\ out.freq \in Frequency \cup {Absent}
      BY DEF DutyTypeOK, Downlink
    <3>2. freq[dev] \in Nat /\ out.freq \in Nat
      <4>1. \A f \in Frequency \cup {Absent} : f \in Nat
        BY FrequencyAssumption DEF Absent
      <4> QED BY <3>1, <4>1
    <3> QED BY <3>2, BandOfBand
  <2> HIDE DEF band, time
  <2>5. DutyTypeOK'
    BY <2>1, <2>3, <2>4 DEF DutyTypeOK, timerVars, NoSub
  <2>6. onAir[band] <= Full[band] - charged[band] /\ time <= onAir[band]
    <3>1. time <= onAir[band]
      BY <1>2 DEF band, time
    <3>2. Due(band) = 0
      BY <2>1 DEF Due
    <3>3. onAir[band] <= Full[band] - charged[band] + Due(band)
      BY <2>4 DEF NeverOvergrants
    <3> QED BY <2>4, <3>1, <3>2, <3>3 DEF DutyTypeOK
  <2>7. ChargedWithinBudget'
    BY <2>1, <2>3, <2>4, <2>6 DEF DutyTypeOK, ChargedWithinBudget
  <2>8. NeverOvergrants' /\ LoadedBound'
    BY <2>1, <2>3, <2>4 DEF DutyTypeOK, NeverOvergrants, LoadedBound, Due, NoSub
  <2> QED BY <2>5, <2>7, <2>8
<1> QED BY <1>1, <1>2

(* Loading a counter keeps the invariant.                                  *)
LEMMA LoadStep == ASSUME IInv, NEW b \in Band, Load(b) PROVE IInv'
<1> USE FullNat DEF IInv
<1>1. DutyTypeOK'
  BY DEF Load, DutyTypeOK, timerVars
<1>2. onAir[b] <= Full[b] - charged[b] + messageTime
  BY DEF Load, NeverOvergrants, Due
<1>3. ChargedWithinBudget' /\ NeverOvergrants'
  BY DEF DutyTypeOK, Load, ChargedWithinBudget, NeverOvergrants, Due
<1>4. LoadedBound'
  BY <1>2 DEF DutyTypeOK, Load, LoadedBound
<1> QED BY <1>1, <1>3, <1>4

(* Writing a counter back keeps the invariant.                             *)
LEMMA StoreStep == ASSUME IInv, NEW b \in Band, Store(b) PROVE IInv'
<1> USE FullNat DEF IInv
<1>1. DutyTypeOK'
  BY DEF Store, DutyTypeOK, timerVars
<1>5. held[b] <= Full[b] - charged[b] + messageTime
  BY DEF Store, LoadedBound
<1>6. held[b] \in Int /\ Full[b] \in Nat /\ charged[b] \in Nat /\ messageTime \in Nat
  BY DEF DutyTypeOK
<1>2. held[b] - messageTime <= Full[b] - charged[b]
  BY <1>5, <1>6
<1>3. ChargedWithinBudget' /\ LoadedBound'
  BY DEF DutyTypeOK, Store, ChargedWithinBudget, LoadedBound
<1>4. NeverOvergrants'
  <2> SUFFICES ASSUME NEW c \in Band PROVE (onAir[c] <= Full[c] - charged[c] + Due(c))'
    BY DEF NeverOvergrants
  <2>1. CASE c = b
    <3>1. onAir'[c] = held[b] - messageTime /\ charged' = charged /\ Due(c)' = 0
      BY <2>1 DEF Store, DutyTypeOK, Due
    <3> QED BY <3>1, <2>1, <1>2, <1>6
  <2>2. CASE c # b
    <3>1. onAir'[c] = onAir[c] /\ charged' = charged /\ Due(c)' = Due(c)
      BY <2>2 DEF Store, DutyTypeOK, Due
    <3> QED BY <3>1 DEF NeverOvergrants
  <2> QED BY <2>1, <2>2
<1> QED BY <1>1, <1>3, <1>4

(* A refill forgets what was charged: what is under way comes off the full *)
(* counter, or overwrites it with less.                                    *)
LEMMA RefillStep == ASSUME IInv, NEW b \in Band, resetDutyCycle(b) PROVE IInv'
<1> USE DEF IInv
<1>1. Full[b] \in Nat /\ messageTime \in Nat
  BY FullNat DEF DutyTypeOK
<1>2. /\ onAir' = [onAir EXCEPT ![b] = Full[b]] /\ charged' = [charged EXCEPT ![b] = 0]
      /\ used' = [used EXCEPT ![b] = 0] /\ refill' = refill \ {b}
      /\ UNCHANGED <<freq, pc, dev, out, messageTime, sub, held, flush, refills, msgs>>
  BY DEF resetDutyCycle, stiotVars
<1>3. DutyTypeOK'
  BY <1>1, <1>2 DEF DutyTypeOK
<1>4. (ChargedWithinBudget /\ NeverOvergrants /\ LoadedBound)'
  <2> SUFFICES ASSUME NEW c \in Band
               PROVE  /\ charged'[c] <= Full[c]
                      /\ onAir'[c] <= Full[c] - charged'[c] + Due(c)'
                      /\ pc' = "subtract" /\ sub'[c] = "loaded"
                           => held'[c] <= Full[c] - charged'[c] + messageTime'
    BY DEF ChargedWithinBudget, NeverOvergrants, LoadedBound
  <2>1. CASE c # b
    BY <1>2, <2>1 DEF DutyTypeOK, Due, ChargedWithinBudget, NeverOvergrants, LoadedBound
  <2>2. CASE c = b
    <3>1. charged'[c] = 0 /\ onAir'[c] = Full[c]
      BY <1>2, <2>2 DEF DutyTypeOK
    <3>2. Due(c)' \in Nat
      BY <1>1, <1>2 DEF Due
    <3>3. ASSUME pc = "subtract", sub[c] = "loaded"
          PROVE  held[c] <= Full[c] + messageTime
      <4>1. held[c] <= Full[c] - charged[c] + messageTime
        BY <3>3 DEF LoadedBound
      <4>2. held[c] \in Int /\ charged[c] \in Nat
        BY DEF DutyTypeOK
      <4> QED BY <4>1, <4>2, <1>1, <2>2
    <3> QED BY <1>1, <1>2, <2>2, <3>1, <3>2, <3>3
  <2> QED BY <2>1, <2>2
<1> QED BY <1>3, <1>4

(* The other steps leave counters and charges alone, and do not enter the  *)
(* subtractions; the last one leaves them with nothing due.                *)
LEMMA OtherStep ==
  ASSUME IInv,
         \/ TakeDownlink \/ setPacket \/ HandOver \/ RefillDue \/ Flush
         \/ \E d \in Device, f \in Frequency : Hear(d, f)
  PROVE  IInv'
<1> USE FullNat DEF IInv
<1>1. DutyTypeOK'
  <2>1. CASE TakeDownlink
    BY <2>1, BoundAssumption DEF TakeDownlink, DutyTypeOK, Downlink, timerVars
  <2>2. CASE setPacket BY <2>2 DEF setPacket, DutyTypeOK, Downlink, timerVars
  <2>3. CASE HandOver
    BY <2>3 DEF HandOver, DutyTypeOK, Downlink, NoDownlink, NoSub, timerVars
  <2>4. CASE RefillDue BY <2>4, BoundAssumption DEF RefillDue, DutyTypeOK, stiotVars
  <2>5. CASE Flush BY <2>5 DEF Flush, DutyTypeOK, stiotVars
  <2>6. CASE \E d \in Device, f \in Frequency : Hear(d, f)
    BY <2>6 DEF Hear, DutyTypeOK, stiotVars, timerVars
  <2> QED BY <2>1, <2>2, <2>3, <2>4, <2>5, <2>6
<1>2. /\ UNCHANGED <<onAir, charged>>
      /\ \A b \in Band : Due(b)' = Due(b)
      /\ pc' = "subtract" => UNCHANGED <<pc, sub, held, messageTime>>
  BY DEF TakeDownlink, setPacket, HandOver, RefillDue, Flush, Hear, stiotVars, timerVars,
         Due, NoSub, DutyTypeOK
<1>3. (ChargedWithinBudget /\ NeverOvergrants)'
  BY <1>2 DEF ChargedWithinBudget, NeverOvergrants
<1>4. LoadedBound'
  BY <1>2 DEF LoadedBound
<1> QED BY <1>1, <1>3, <1>4

(* Every step of the counters keeps the invariant.                         *)
LEMMA StepIInv == IInv /\ [DutyNext]_dutyVars => IInv'
<1> SUFFICES ASSUME IInv, [DutyNext]_dutyVars PROVE IInv'
  OBVIOUS
<1>1. CASE reduceDutyCycle BY <1>1, ReduceStep
<1>2. CASE \E b \in Band : Load(b) \/ Store(b) \/ resetDutyCycle(b)
  BY <1>2, LoadStep, StoreStep, RefillStep
<1>3. CASE \/ TakeDownlink \/ setPacket \/ HandOver \/ RefillDue \/ Flush
           \/ \E d \in Device, f \in Frequency : Hear(d, f)
  BY <1>3, OtherStep
<1>4. CASE UNCHANGED dutyVars
  BY <1>4 DEF dutyVars, stiotVars, timerVars, IInv, DutyTypeOK, ChargedWithinBudget,
              NeverOvergrants, LoadedBound, Due
<1> QED BY <1>1, <1>2, <1>3, <1>4 DEF DutyNext

(* The bookkeeping of a counter is inductive: counter, value loaded and    *)
(* charge stay within the hour's budget, through every race of the three   *)
(* threads (DevicesTable.cpp:210-235, 295-336).                            *)
THEOREM CountersInvariant == DutySpec => []IInv
<1> QED BY InitIInv, StepIInv, PTL DEF DutySpec

(* Between two refills no band is charged beyond its share of the hour.    *)
THEOREM BudgetKept == DutySpec => []ChargedWithinBudget
<1>1. IInv => ChargedWithinBudget
  BY DEF IInv
<1> QED BY <1>1, CountersInvariant, PTL

(* What fromLora reports as left of a device's band is never more than     *)
(* what the approved downlinks have left of it (DevicesTable.cpp:237).     *)
THEOREM ReportedIsLeft == DutySpec => []ToldIsLeft
<1>1. ASSUME IInv, MapFree, NEW d \in Device, freq[d] # Absent
      PROVE  remainingDutyCycle(d) <= Full[bandOf(freq[d])] - charged[bandOf(freq[d])]
  <2> DEFINE b == bandOf(freq[d])
  <2>1. freq[d] \in Nat
    <3>1. freq[d] \in Frequency \cup {Absent}
      BY <1>1 DEF IInv, DutyTypeOK
    <3>2. \A f \in Frequency \cup {Absent} : f \in Nat
      BY FrequencyAssumption DEF Absent
    <3> HIDE DEF b
    <3> QED BY <3>1, <3>2
  <2>2. b \in Band
    BY <2>1, BandOfBand
  <2>3. Due(b) = 0
    BY <1>1 DEF MapFree, Due
  <2>4. onAir[b] <= Full[b] - charged[b] + Due(b)
    BY <1>1, <2>2 DEF IInv, NeverOvergrants
  <2>5. Full[b] \in Nat /\ charged[b] \in Nat
    BY <1>1, <2>2, FullNat DEF IInv, DutyTypeOK
  <2>6. remainingDutyCycle(d) = onAir[b]
    BY <1>1 DEF remainingDutyCycle
  <2> HIDE DEF b
  <2>7. onAir[b] <= Full[b] - charged[b]
    BY <2>3, <2>4, <2>5
  <2> QED BY <2>6, <2>7 DEF b
<1>2. IInv => ToldIsLeft
  BY <1>1 DEF ToldIsLeft
<1> QED BY <1>2, CountersInvariant, PTL
=============================================================================
