--------------------------- MODULE Startup_proofs ---------------------------
(***************************************************************************)
(* What the concentrator library keeps, whatever calls a client makes, for *)
(* any number of radios, chains, configurations and FIFO entries.  The     *)
(* gateway's use of the library is one of the uses Hal allows, so that     *)
(* holds for it; and what it adds: the radios are only started with a gain *)
(* table lgw_send can use, and with every frequency of the plan, and       *)
(* nothing else, in its place.                                             *)
(***************************************************************************)
EXTENDS Startup, SequenceTheorems, FiniteSetTheorems, TLAPS

-----------------------------------------------------------------------------
(* The library, and any client of it.                                      *)

(* What lgw_rxif_setconf stores for a channel it accepts is a setting of   *)
(* an IF chain: defaults filled in, a radio that exists.                   *)
LEMMA FilledIsSetting ==
  ASSUME NEW c \in IfChain, NEW conf \in IfConf, conf.rf_chain \in RfChain
  PROVE  IfFilled(ifmod_config[c], conf) \in IfSetting
<1>1. /\ conf.freq_hz \in Int /\ conf.bandwidth \in Bandwidth
      /\ conf.datarate \in Datarate
  BY IfConfAssumption
<1>2. bandwidthOf(ifmod_config[c], conf.bandwidth) \in Bandwidth
  BY <1>1 DEF bandwidthOf, Bandwidth
<1>3. datarateOf(ifmod_config[c], conf.datarate) \in Datarate
  <2>1. 7..12 \in Datarate /\ {9} \in Datarate /\ Fsk \in Datarate
    BY DEF Datarate
  <2> QED BY <1>1, <2>1 DEF datarateOf
<1> QED BY <1>1, <1>2, <1>3 DEF IfFilled, IfSetting

(* What a new process starts from is well typed.                           *)
LEMMA FreshTyped ==
  /\ NoRf \in [RfChain -> RfSetting]
  /\ NoIf \in [IfChain -> IfSetting \cup {Off}]
  /\ DefaultLut \in [1..LutSize -> Gain]
  /\ 2 \in 1..LutSize
  /\ NoTx.rf_chain \in RfChain
<1>1. NoRf \in [RfChain -> RfSetting]
  BY DEF NoRf, RfSetting, RadioType
<1>2. NoIf \in [IfChain -> IfSetting \cup {Off}]
  BY DEF NoIf
<1>3. DefaultLut \in [1..LutSize -> Gain]
  <2>1. /\ [mix_gain |-> 10, rf_power |-> 14] \in Gain
        /\ [mix_gain |-> 14, rf_power |-> 27] \in Gain
        /\ [mix_gain |-> 0, rf_power |-> 0] \in Gain
    BY DEF Gain
  <2> QED BY <2>1 DEF DefaultLut
<1>4. 2 \in 1..LutSize
  BY SizeAssumption
<1>5. NoTx.rf_chain \in RfChain
  BY RfChainAssumption DEF NoTx
<1> QED BY <1>1, <1>2, <1>3, <1>4, <1>5

(* The first process satisfies the invariant.                              *)
LEMMA InitIInv == HalInit => IInv
<1> SUFFICES ASSUME HalInit PROVE IInv
  OBVIOUS
<1>1. fifo = <<>> /\ ~lgw_is_started
  BY DEF HalInit, InitStatics
<1>2. TypeOK
  <2>1. fifo \in Seq(Packet)
    BY <1>1
  <2>2. /\ lgw_is_started \in BOOLEAN /\ hw_on \in BOOLEAN /\ fault \in BOOLEAN
        /\ paged \in BOOLEAN /\ link \in {"closed", "open", "dangling"}
        /\ rf = NoRf /\ hw_rf = NoRf /\ ifc = NoIf /\ hw_if = NoIf
        /\ lut_size = 2 /\ lut = DefaultLut /\ tx = NoTx
    BY DEF HalInit, InitStatics
  <2> QED BY <2>1, <2>2, FreshTyped DEF TypeOK
<1> QED BY <1>1, <1>2 DEF IInv, ChipMatches, ReportedAsHeard, SentCalibrated, SentEnabled,
                          FifoWhenOn

-----------------------------------------------------------------------------
(* The calls that configure: refused while lgw_is_started, and what they   *)
(* change otherwise no part of the invariant but TypeOK looks at.          *)

(* Setting a radio keeps the invariant.                                    *)
LEMMA RxrfStep ==
  ASSUME IInv, NEW c \in RfChain, NEW conf \in RfConf, lgw_rxrf_setconf(c, conf)
  PROVE  IInv'
<1> USE DEF lgw_rxrf_setconf, hwVars, lutVars, linkVars
<1>1. TypeOK'
  BY RfConfAssumption DEF IInv, TypeOK
<1>2. CASE lgw_is_started
  <2>1. rf' = rf
    BY <1>2 DEF rxrf_ok
  <2> QED BY <1>1, <1>2, <2>1 DEF IInv, ChipMatches, ReportedAsHeard, Reported,
                                  SentCalibrated, Calibrated, SentEnabled, FifoWhenOn
<1>3. CASE ~lgw_is_started
  BY <1>1, <1>3 DEF IInv, ChipMatches, ReportedAsHeard, SentCalibrated, SentEnabled, FifoWhenOn
<1> QED BY <1>2, <1>3

(* Setting a channel keeps the invariant.                                  *)
LEMMA RxifStep ==
  ASSUME IInv, NEW c \in IfChain, NEW conf \in IfConf, lgw_rxif_setconf(c, conf)
  PROVE  IInv'
<1> USE DEF lgw_rxif_setconf, hwVars, lutVars, linkVars
<1>1. TypeOK'
  <2>1. ifc' \in [IfChain -> IfSetting \cup {Off}]
    <3>1. CASE rxif_ok(c, conf) /\ conf.enable
      BY <3>1, FilledIsSetting DEF rxif_ok, IInv, TypeOK
    <3>2. CASE ~(rxif_ok(c, conf) /\ conf.enable)
      BY <3>2 DEF IInv, TypeOK
    <3> QED BY <3>1, <3>2
  <2> QED BY <2>1 DEF IInv, TypeOK
<1>2. CASE lgw_is_started
  <2>1. ifc' = ifc
    BY <1>2 DEF rxif_ok
  <2> QED BY <1>1, <1>2, <2>1 DEF IInv, ChipMatches, ReportedAsHeard, Reported,
                                  SentCalibrated, Calibrated, SentEnabled, FifoWhenOn
<1>3. CASE ~lgw_is_started
  BY <1>1, <1>3 DEF IInv, ChipMatches, ReportedAsHeard, SentCalibrated, SentEnabled, FifoWhenOn
<1> QED BY <1>2, <1>3

(* Setting the gain table keeps the invariant.                             *)
LEMMA TxgainStep ==
  ASSUME IInv, NEW conf \in GainTable, lgw_txgain_setconf(conf)
  PROVE  IInv'
<1> USE DEF lgw_txgain_setconf, hwVars, lutVars, linkVars, confVars
<1>1. conf \in Seq(Gain)
  BY GainAssumption
<1>2. lut_size' \in 1..LutSize /\ lut' \in [1..LutSize -> Gain]
  <2>1. CASE Len(conf) \in 1..LutSize
    <3>1. \A i \in 1..LutSize : i <= Len(conf) => conf[i] \in Gain
      BY <1>1, SizeAssumption
    <3> QED BY <2>1, <3>1 DEF IInv, TypeOK
  <2>2. CASE Len(conf) \notin 1..LutSize
    BY <2>2 DEF IInv, TypeOK
  <2> QED BY <2>1, <2>2
<1>3. TypeOK'
  BY <1>2 DEF IInv, TypeOK
<1> QED BY <1>3 DEF IInv, ChipMatches, ReportedAsHeard, Reported, SentCalibrated, Calibrated,
                    SentEnabled, FifoWhenOn

-----------------------------------------------------------------------------
(* Start and stop: the chip is left as it is, cleared, or loaded afresh.   *)

(* The chip is cleared or loaded, and the library not newly started.       *)
LEMMA ResetStep ==
  ASSUME IInv, soft_reset \/ (Loaded /\ fifo' = <<>>),
         link' \in {"closed", "open", "dangling"}, paged' \in BOOLEAN,
         lgw_is_started' \in BOOLEAN, lgw_is_started' => lgw_is_started,
         UNCHANGED <<confVars, lutVars, tx, fault>>
  PROVE  IInv'
<1> USE DEF confVars, lutVars
<1>1. fifo' = <<>>
  BY DEF soft_reset
<1>2. TypeOK'
  <2>1. fifo' \in Seq(Packet)
    BY <1>1
  <2>2. /\ hw_on' \in BOOLEAN /\ hw_rf' \in [RfChain -> RfSetting]
        /\ hw_if' \in [IfChain -> IfSetting \cup {Off}]
    BY FreshTyped DEF soft_reset, Loaded, IInv, TypeOK
  <2> QED BY <2>1, <2>2 DEF IInv, TypeOK
<1>3. ChipMatches'
  BY DEF soft_reset, Loaded, ChipMatches
<1>4. SentEnabled'
  BY DEF IInv, SentEnabled
<1>5. SentCalibrated'
  BY <1>3, <1>4 DEF ChipMatches, SentEnabled, SentCalibrated, Calibrated
<1> QED BY <1>1, <1>2, <1>3, <1>4, <1>5 DEF IInv, ReportedAsHeard, FifoWhenOn

(* Neither chip nor configuration is touched.                              *)
LEMMA SameChipStep ==
  ASSUME IInv, UNCHANGED <<confVars, lutVars, hwVars, tx>>, fault' \in BOOLEAN,
         link' \in {"closed", "open", "dangling"}, paged' \in BOOLEAN,
         lgw_is_started' \in BOOLEAN, lgw_is_started' => lgw_is_started
  PROVE  IInv'
<1> USE DEF confVars, lutVars, hwVars
<1>1. TypeOK'
  BY DEF IInv, TypeOK
<1> QED BY <1>1 DEF IInv, ChipMatches, ReportedAsHeard, Reported, SentCalibrated, Calibrated,
                    SentEnabled, FifoWhenOn

(* A start, successful or not, keeps the invariant.                        *)
LEMMA StartStep == ASSUME IInv, lgw_start PROVE IInv'
<1>1. CASE StartUnconnected
  BY <1>1, SameChipStep DEF StartUnconnected, IInv, TypeOK
<1>2. CASE StartFailed
  BY <1>2, ResetStep DEF StartFailed, IInv, TypeOK
<1>3. CASE StartSucceeds
  <2> USE DEF StartSucceeds, Loaded, confVars, lutVars
  <2>1. fifo' = <<>> /\ tx' = NoTx
    BY <1>3
  <2>2. TypeOK'
    <3>1. fifo' \in Seq(Packet)
      BY <2>1
    <3> QED BY <1>3, <3>1, FreshTyped DEF IInv, TypeOK
  <2> QED BY <1>3, <2>1, <2>2 DEF IInv, ChipMatches, ReportedAsHeard, SentCalibrated,
                                  SentEnabled, FifoWhenOn
<1>4. CASE StartFaults
  BY <1>4, SameChipStep DEF StartFaults, linkVars, IInv, TypeOK
<1> QED BY <1>1, <1>2, <1>3, <1>4 DEF lgw_start

(* A stop keeps the invariant.                                             *)
LEMMA StopStep == ASSUME IInv, lgw_stop PROVE IInv'
<1>1. CASE link = "open" /\ paged
  BY <1>1, ResetStep DEF lgw_stop, IInv, TypeOK
<1>2. CASE ~(link = "open" /\ paged)
  BY <1>2, SameChipStep DEF lgw_stop, IInv, TypeOK
<1> QED BY <1>1, <1>2

(* A new process is not started, whatever chip it finds.                   *)
LEMMA NewProcessStep == ASSUME IInv, NewProcess PROVE IInv'
<1> USE DEF NewProcess, hwVars
<1>1. CASE soft_reset
  <2>1. fifo' \in Seq(Packet) /\ fifo' = <<>>
    BY <1>1 DEF soft_reset
  <2>2. /\ hw_on' \in BOOLEAN /\ hw_rf' \in [RfChain -> RfSetting]
        /\ hw_if' \in [IfChain -> IfSetting \cup {Off}]
    BY <1>1, FreshTyped DEF soft_reset
  <2>3. TypeOK'
    BY <2>1, <2>2, FreshTyped DEF IInv, TypeOK
  <2> QED BY <2>1, <2>3 DEF IInv, ChipMatches, ReportedAsHeard, SentCalibrated, SentEnabled,
                            FifoWhenOn
<1>2. CASE UNCHANGED hwVars
  <2>1. TypeOK'
    BY <1>2, FreshTyped DEF IInv, TypeOK
  <2> QED BY <1>2, <2>1 DEF IInv, ChipMatches, ReportedAsHeard, SentCalibrated, SentEnabled,
                            FifoWhenOn
<1> QED BY <1>1, <1>2

-----------------------------------------------------------------------------
(* Packets.                                                                *)

(* A packet that comes in keeps the invariant.                             *)
LEMMA ArriveStep == ASSUME IInv, NEW c \in IfChain, Arrive(c) PROVE IInv'
<1> USE DEF Arrive, statics, confVars, lutVars, linkVars
<1>1. hw_if[c] \in IfSetting
  BY DEF IInv, TypeOK
<1>2. hw_rf[hw_if[c].rf_chain].freq_hz \in Nat
  BY <1>1 DEF IInv, TypeOK, IfSetting, RfSetting
<1>3. Heard(c) \in Packet
  BY <1>1, <1>2 DEF Heard, Packet, IfSetting
<1>4. TypeOK'
  BY <1>3 DEF IInv, TypeOK
<1>5. ASSUME lgw_is_started PROVE Heard(c) = Reported(c) /\ ifc[c] # Off
  BY <1>5 DEF IInv, ChipMatches, Heard, Reported
<1>6. ReportedAsHeard'
  <2> SUFFICES ASSUME lgw_is_started, NEW i \in DOMAIN fifo'
               PROVE ifc[fifo'[i].if_chain] # Off /\ Reported(fifo'[i].if_chain) = fifo'[i]
    BY DEF ReportedAsHeard, Reported
  <2>1. CASE i \in DOMAIN fifo
    BY <2>1 DEF IInv, TypeOK, ReportedAsHeard
  <2>2. CASE i \notin DOMAIN fifo
    <3>1. fifo'[i] = Reported(c)
      BY <1>5, <2>2 DEF IInv, TypeOK
    <3>2. fifo'[i].if_chain = c
      BY <3>1 DEF Reported
    <3> QED BY <1>5, <3>1, <3>2
  <2> QED BY <2>1, <2>2
<1> QED BY <1>4, <1>6 DEF IInv, ChipMatches, SentCalibrated, Calibrated, SentEnabled,
                          FifoWhenOn

(* Reporting packets keeps the invariant.                                  *)
LEMMA ReceiveStep ==
  ASSUME IInv, NEW n \in 1..FifoSize, lgw_receive(n) PROVE IInv'
<1> USE DEF lgw_receive, confVars, lutVars, linkVars
<1>1. CASE link = "open"
  <2>1. /\ fifo' \in Seq(Packet)
        /\ \A i \in DOMAIN fifo' : i + n \in DOMAIN fifo /\ fifo'[i] = fifo[i + n]
    <3>1. fifo \in Seq(Packet) /\ n \in Nat \ {0} /\ fifo' = SubSeq(fifo, n + 1, Len(fifo))
      BY <1>1, SizeAssumption DEF IInv, TypeOK
    <3>2. \A i \in (n + 1)..Len(fifo) : fifo[i] \in Packet
      BY <3>1
    <3>3. /\ fifo' \in Seq(Packet)
          /\ Len(fifo') = IF n + 1 <= Len(fifo) THEN Len(fifo) - n ELSE 0
          /\ \A i \in 1..(Len(fifo) - n) : fifo'[i] = fifo[n + i]
      <4>1. n + 1 \in Int /\ Len(fifo) \in Int
        BY <3>1
      <4> QED BY <3>1, <3>2, <4>1, SubSeqProperties
    <3> HIDE DEF lgw_receive
    <3> QED BY <3>1, <3>3
  <2>2. TypeOK'
    BY <1>1, <2>1 DEF IInv, TypeOK
  <2>3. ReportedAsHeard'
    BY <1>1, <2>1 DEF IInv, ReportedAsHeard, Reported
  <2>4. FifoWhenOn'
    BY <1>1, SizeAssumption DEF IInv, TypeOK, FifoWhenOn
  <2> QED BY <1>1, <2>2, <2>3, <2>4 DEF IInv, ChipMatches, SentCalibrated, Calibrated,
                                        SentEnabled
<1>2. CASE link # "open"
  BY <1>2, SameChipStep DEF hwVars, IInv, TypeOK
<1> QED BY <1>1, <1>2

(* A transmission keeps the invariant.                                     *)
LEMMA SendStep ==
  ASSUME IInv, NEW c \in RfChain, NEW p \in Power, lgw_send(c, p) PROVE IInv'
<1> USE DEF lgw_send, confVars, lutVars, linkVars, hwVars
<1>1. CASE link = "dangling"
  BY <1>1, SameChipStep DEF IInv, TypeOK
<1>2. CASE link # "dangling"
  <2>1. tx'.rf_chain = c
    BY <1>2
  <2>2. TypeOK'
    BY <1>2, <2>1 DEF IInv, TypeOK
  <2>3. rf[c].enable /\ rf[c].tx_enable
    BY DEF send_ok
  <2>4. hw_on => Calibrated(c)
    BY <2>3 DEF IInv, ChipMatches, send_ok, Calibrated
  <2> QED BY <1>2, <2>1, <2>2, <2>3, <2>4 DEF IInv, ChipMatches, ReportedAsHeard, Reported,
                                     SentCalibrated, Calibrated, SentEnabled, FifoWhenOn
<1> QED BY <1>1, <1>2

-----------------------------------------------------------------------------
(* Every call of the library keeps the invariant.                          *)
LEMMA StepIInv == IInv /\ [Next]_halVars => IInv'
<1> SUFFICES ASSUME IInv, [Next]_halVars PROVE IInv'
  OBVIOUS
<1>1. ASSUME NEW c \in RfChain, NEW conf \in RfConf, lgw_rxrf_setconf(c, conf) PROVE IInv'
  BY <1>1, RxrfStep
<1>2. ASSUME NEW c \in IfChain, NEW conf \in IfConf, lgw_rxif_setconf(c, conf) PROVE IInv'
  BY <1>2, RxifStep
<1>3. ASSUME NEW conf \in GainTable, lgw_txgain_setconf(conf) PROVE IInv'
  BY <1>3, TxgainStep
<1>4. CASE lgw_start
  BY <1>4, StartStep
<1>5. CASE lgw_stop
  BY <1>5, StopStep
<1>6. ASSUME NEW c \in IfChain, Arrive(c) PROVE IInv'
  BY <1>6, ArriveStep
<1>7. ASSUME NEW n \in 1..FifoSize, lgw_receive(n) PROVE IInv'
  BY <1>7, ReceiveStep
<1>8. ASSUME NEW c \in RfChain, NEW p \in Power, lgw_send(c, p) PROVE IInv'
  BY <1>8, SendStep
<1>9. CASE NewProcess
  BY <1>9, NewProcessStep
<1>10. CASE UNCHANGED halVars
  BY <1>10 DEF halVars, statics, confVars, lutVars, linkVars, hwVars, IInv, TypeOK,
               ChipMatches, ReportedAsHeard, Reported, SentCalibrated, Calibrated,
               SentEnabled, FifoWhenOn
<1> QED BY <1>1, <1>2, <1>3, <1>4, <1>5, <1>6, <1>7, <1>8, <1>9, <1>10 DEF Next, Call

(* The invariant of the library: types, and that chip, configuration, FIFO *)
(* and the last transmission fit together.                                 *)
THEOREM LibraryInvariant == Spec => []IInv
<1>1. HalInit => IInv
  BY InitIInv
<1>2. IInv /\ [Next]_halVars => IInv'
  BY StepIInv
<1> QED BY <1>1, <1>2, PTL DEF Spec

(* lgw_receive reports every packet as it was heard.                       *)
THEOREM PacketsReportedAsHeard == Spec => []ReportedAsHeard
<1>1. IInv => ReportedAsHeard
  BY DEF IInv
<1> QED BY <1>1, LibraryInvariant, PTL

(* lgw_send programs no packet on a radio without a calibrated transmitter.*)
THEOREM SendsOnlyCalibrated == Spec => []SentCalibrated
<1>1. IInv => SentCalibrated
  BY DEF IInv
<1> QED BY <1>1, LibraryInvariant, PTL

-----------------------------------------------------------------------------
(* The plans.                                                              *)

(* A plan's frequencies are finitely many numbers.                         *)
LEMMA PlanFreqs == ASSUME NEW p \in Seq(Mention)
                   PROVE  IsFiniteSet(Freqs(p)) /\ Freqs(p) \subseteq Nat
<1>1. IsFiniteSet(DOMAIN p)
  <2>1. DOMAIN p = 1..Len(p) /\ Len(p) \in Nat
    OBVIOUS
  <2>2. IsFiniteSet(1..Len(p))
    BY <2>1, FS_Interval
  <2> QED BY <2>1, <2>2
<1>2. IsFiniteSet(Counts(p))
  BY <1>1, FS_Subset DEF Counts
<1> DEFINE freq == [i \in Counts(p) |-> p[i].freq]
<1>3. freq \in Surjection(Counts(p), Freqs(p))
  BY DEF Surjection, Freqs
<1>4. IsFiniteSet(Freqs(p))
  BY <1>2, <1>3, FS_Surjection
<1>5. \A i \in DOMAIN p : p[i] \in Mention
  OBVIOUS
<1>6. Freqs(p) \subseteq Nat
  BY <1>5 DEF Freqs, Counts, Mention
<1> QED BY <1>4, <1>6

(* So they can be counted.                                                 *)
LEMMA FreqsFinite == ASSUME NEW p \in Seq(Mention)
                     PROVE  Cardinality(Freqs(p)) \in Nat
BY PlanFreqs, FS_CardinalityType

-----------------------------------------------------------------------------
(* What the steps of startConcentrator rest on: the plan is one the server *)
(* can send, and the position is inside the part that runs.                *)
Working == {"stop", "board", "gain", "radio", "if"}
PlanKnown == /\ config \in Config
             /\ pc \in Working => plan \in Plans
             /\ at \in Nat
             /\ pc = "radio" => at \in RfChain
             /\ pc = "if" => at >= 1

(* No plan is being worked on at first.                                    *)
LEMMA PlanKnownInit == StartInit => PlanKnown
BY DEF StartInit, PlanKnown, Working

(* A SETA brings a plan of the server; the parts keep to it and to their   *)
(* positions.                                                              *)
LEMMA PlanKnownStep == PlanKnown /\ [StartNext]_<<halVars, startVars>> => PlanKnown'
<1> SUFFICES ASSUME PlanKnown, [StartNext]_<<halVars, startVars>> PROVE PlanKnown'
  OBVIOUS
<1> USE DEF PlanKnown, Working, Goto, Return
<1>1. ASSUME NEW p \in Plans, Seta(p) PROVE PlanKnown'
  BY <1>1 DEF Seta
<1>2. CASE StopFirst
  BY <1>2 DEF StopFirst
<1>3. CASE Board
  BY <1>3 DEF Board
<1>4. CASE Gains
  BY <1>4, RfChainAssumption DEF Gains
<1>5. CASE Radio
  BY <1>5, RfChainAssumption DEF Radio
<1>6. CASE If
  <2>1. \/ Goto("if", at + 1)
        \/ Return("failed")
    BY <1>6 DEF If
  <2> QED BY <1>6, <2>1 DEF If
<1>7. CASE Start
  <2>1. \/ Goto("terminated", 0)
        \/ Return("failed")
        \/ pc' = "idle" /\ at' = 0 /\ UNCHANGED <<config, plan>>
    BY <1>7 DEF Start
  <2> QED BY <2>1
<1>8. CASE Threads \/ Air \/ UNCHANGED <<halVars, startVars>>
  BY <1>8 DEF Threads, Air, startVars
<1>9. CASE Respawn
  BY <1>9 DEF Respawn
<1> QED BY <1>1, <1>2, <1>3, <1>4, <1>5, <1>6, <1>7, <1>8, <1>9 DEF StartNext, startConcentrator

-----------------------------------------------------------------------------
(* Every step of the gateway is a call of the library, or none.            *)
LEMMA StepIsCall == PlanKnown /\ [StartNext]_<<halVars, startVars>> => [Next]_halVars
<1> SUFFICES ASSUME PlanKnown, [StartNext]_<<halVars, startVars>> PROVE [Next]_halVars
  OBVIOUS
<1>1. ASSUME NEW p \in Plans, Seta(p) PROVE UNCHANGED halVars
  BY <1>1 DEF Seta
<1>2. CASE ~fault /\ StopFirst
  BY <1>2 DEF StopFirst, Next, Call
<1>3. CASE Board
  BY <1>3 DEF Board
<1>4. CASE ~fault /\ Gains
  <2>1. config.txlut \in GainTable
    <3>1. plan \in Plans /\ config \in Config
      BY <1>4 DEF Gains, PlanKnown, Working
    <3> QED BY <3>1, SettingsAssumption
  <2> QED BY <1>4, <2>1 DEF Gains, Next, Call
<1>5. CASE ~fault /\ Radio
  <2>1. at \in RfChain /\ plan \in Plans /\ config \in Config
    BY <1>5 DEF Radio, PlanKnown, Working
  <2>2. rfconf(config, plan, at) \in RfConf
    BY <2>1, SettingsAssumption
  <2> QED BY <1>5, <2>1, <2>2 DEF Radio, Next, Call
<1>6. CASE ~fault /\ If
  <2>1. at \in Nat /\ at >= 1 /\ plan \in Plans /\ config \in Config
    BY <1>6 DEF If, PlanKnown, Working
  <2>2. plan \in Seq(Mention)
    BY <2>1, SettingsAssumption
  <2>3. at \in 1..Cardinality(Freqs(plan))
    BY <1>6, <2>1, <2>2, FreqsFinite DEF If
  <2> DEFINE f == AtRank(plan, at)
             c == ifChain(plan, f)
  <2>4. ifconf(config, plan, f) \in IfConf
    BY <2>1, <2>3, SettingsAssumption
  <2>5. \/ rxif_ok(c, ifconf(config, plan, f)) /\ lgw_rxif_setconf(c, ifconf(config, plan, f))
        \/ UNCHANGED halVars
    BY <1>6 DEF If
  <2>6. rxif_ok(c, ifconf(config, plan, f)) => c \in IfChain
    BY DEF rxif_ok
  <2> HIDE DEF f, c
  <2> QED BY <1>6, <2>4, <2>5, <2>6 DEF Next, Call
<1>7. CASE ~fault /\ Start
  <2>1. lgw_start
    BY <1>7 DEF Start, lgw_start
  <2> QED BY <1>7, <2>1 DEF Next, Call
<1>8. CASE ~fault /\ Threads
  BY <1>8 DEF Threads, Next, Call
<1>9. CASE Air
  BY <1>9 DEF Air, Next
<1>10. CASE Respawn
  BY <1>10 DEF Respawn, Next
<1>11. CASE UNCHANGED <<halVars, startVars>>
  BY <1>11
<1> QED BY <1>1, <1>2, <1>3, <1>4, <1>5, <1>6, <1>7, <1>8, <1>9, <1>10, <1>11
        DEF StartNext, startConcentrator

(* startConcentrator and the threads it starts use the library as Hal says *)
(* a client may, for any plan, configuration and order of failures.        *)
THEOREM GatewayIsClient == StartSpec => Spec
<1>1. StartInit => HalInit
  BY DEF StartInit
<1> QED BY <1>1, PlanKnownInit, PlanKnownStep, StepIsCall, PTL DEF StartSpec, Spec

(* So the gateway forwards every packet with the frequency and bandwidth   *)
(* it was heard on, and its library keeps the invariant.                   *)
THEOREM GatewayReportsAsHeard == StartSpec => [](IInv /\ ReportedAsHeard)
BY GatewayIsClient, LibraryInvariant, PacketsReportedAsHeard, PTL

-----------------------------------------------------------------------------
(* Between the gain table and the start of the radios the table is good    *)
(* and the library is not started, so nothing else uses it.                *)
GainsInv == /\ StartedGains
            /\ pc \in {"gain", "radio", "if"} => ~lgw_is_started
            /\ pc \in {"radio", "if"} => GainsValid

(* A table none of whose entries is refused is in place as a whole.        *)
LEMMA GoodTable ==
  ASSUME NEW t \in Seq(Gain), lgw_txgain_setconf(t), gains_ok(t)
  PROVE  GainsValid'
<1>1. /\ Len(t) \in Nat /\ DOMAIN t = 1..Len(t)
      /\ Len(t) <= LutSize /\ LutSize \in Nat
  BY SizeAssumption DEF gains_ok
<1>2. /\ lut_size' = Len(t)
      /\ lut' = [i \in 1..LutSize |->
                   IF i <= Len(t) /\ \A j \in 1..i : gain_ok(t[j]) THEN t[i] ELSE lut[i]]
  BY DEF lgw_txgain_setconf, gains_ok
<1>3. ASSUME NEW i \in 1..Len(t) PROVE gain_ok(lut'[i])
  <2>1. \A j \in 1..i : gain_ok(t[j])
    BY <1>1 DEF gains_ok
  <2>2. i \in 1..LutSize /\ i <= Len(t) /\ i \in 1..i
    BY <1>1
  <2> QED BY <1>2, <2>1, <2>2
<1> QED BY <1>2, <1>3 DEF GainsValid, gain_ok

(* Nothing is started at first.                                            *)
LEMMA GainsInvInit == StartInit => GainsInv
BY DEF StartInit, HalInit, InitStatics, GainsInv, StartedGains

(* What leaves the table alone and does not start the library.             *)
LEMMA TableKept ==
  ASSUME UNCHANGED lutVars, GainsValid PROVE GainsValid'
BY DEF lutVars, GainsValid, gain_ok

(* The table is only touched before the start, and a refused one ends it.  *)
LEMMA GainsInvStep ==
  PlanKnown /\ GainsInv /\ [StartNext]_<<halVars, startVars>> => GainsInv'
<1> SUFFICES ASSUME PlanKnown, GainsInv, [StartNext]_<<halVars, startVars>>
             PROVE  GainsInv'
  OBVIOUS
<1> USE DEF GainsInv, StartedGains, Goto, Return
<1>a. GainsValid /\ UNCHANGED lutVars => GainsValid'
  BY TableKept
<1>1. ASSUME NEW p \in Plans, Seta(p) PROVE GainsInv'
  <2>1. pc' \in {"board", "stop"} /\ UNCHANGED <<lutVars, lgw_is_started>>
    BY <1>1 DEF Seta, halVars, statics
  <2> QED BY <1>a, <2>1
<1>2. CASE StopFirst
  <2>1. /\ pc' = "board" /\ UNCHANGED lutVars
        /\ lgw_is_started' => lgw_is_started
    BY <1>2 DEF StopFirst, lgw_stop
  <2> QED BY <1>a, <2>1
<1>3. CASE Board
  <2>1. /\ UNCHANGED <<lutVars, lgw_is_started>>
        /\ pc' = "idle" \/ (pc' = "gain" /\ ~lgw_is_started)
    BY <1>3 DEF Board, halVars, statics
  <2> QED BY <1>a, <2>1
<1>4. CASE Gains
  <2>1. ~lgw_is_started /\ ~lgw_is_started'
    BY <1>4 DEF Gains, lgw_txgain_setconf
  <2>2. config.txlut \in Seq(Gain)
    <3>1. plan \in Plans /\ config \in Config
      BY <1>4 DEF Gains, PlanKnown, Working
    <3> QED BY <3>1, SettingsAssumption, GainAssumption
  <2>3. CASE gains_ok(config.txlut)
    <3>1. GainsValid'
      BY <1>4, <2>2, <2>3, GoodTable DEF Gains
    <3> QED BY <2>1, <3>1
  <2>4. CASE ~gains_ok(config.txlut)
    <3>1. pc' = "idle"
      BY <1>4, <2>4 DEF Gains
    <3> QED BY <2>1, <3>1
  <2> QED BY <2>3, <2>4
<1>5. CASE Radio
  <2>1. /\ UNCHANGED <<lutVars, lgw_is_started>>
        /\ pc' \in {"radio", "if", "idle"}
    BY <1>5 DEF Radio, lgw_rxrf_setconf, halVars, statics
  <2> QED BY <1>5, <1>a, <2>1 DEF Radio
<1>6. CASE If
  <2>1. UNCHANGED <<lutVars, lgw_is_started>>
    BY <1>6 DEF If, lgw_rxif_setconf, halVars, statics
  <2>2. pc' \in {"if", "idle"}
    BY <1>6 DEF If
  <2> QED BY <1>6, <1>a, <2>1, <2>2 DEF If
<1>7. CASE Start
  <2>1. pc' \in {"idle", "terminated"}
    BY <1>7 DEF Start
  <2>2. UNCHANGED lutVars
    BY <1>7 DEF Start, StartSucceeds, StartUnconnected, StartFailed, StartFaults
  <2> QED BY <1>7, <1>a, <2>1, <2>2 DEF Start
<1>8. CASE Threads
  <2>1. UNCHANGED <<lutVars, lgw_is_started, pc>>
    BY <1>8 DEF Threads, lgw_receive, lgw_send, startVars
  <2> QED BY <1>a, <2>1
<1>9. CASE Air
  <2>1. UNCHANGED <<lutVars, lgw_is_started, pc>>
    BY <1>9 DEF Air, Arrive, statics, startVars
  <2> QED BY <1>a, <2>1
<1>10. CASE Respawn
  BY <1>10 DEF Respawn, NewProcess
<1>11. CASE UNCHANGED <<halVars, startVars>>
  <2>1. UNCHANGED <<lutVars, lgw_is_started, pc>>
    BY <1>11 DEF halVars, statics, startVars
  <2> QED BY <1>a, <2>1
<1> QED BY <1>1, <1>2, <1>3, <1>4, <1>5, <1>6, <1>7, <1>8, <1>9, <1>10, <1>11
        DEF StartNext, startConcentrator

(* The radios are only ever started with gains lgw_send can use.           *)
THEOREM StartedWithGoodGains == StartSpec => []StartedGains
<1>1. GainsInv => StartedGains
  BY DEF GainsInv
<1> QED BY <1>1, PlanKnownInit, PlanKnownStep, GainsInvInit, GainsInvStep, PTL DEF StartSpec

-----------------------------------------------------------------------------
(* How a plan falls into groups.                                           *)

(* What a set loses with an element.                                       *)
LEMMA Smaller ==
  ASSUME NEW T, IsFiniteSet(T), NEW S \in SUBSET T, NEW x \in T, x \notin S
  PROVE  /\ Cardinality(S) \in Nat /\ Cardinality(T) \in Nat
         /\ Cardinality(S) < Cardinality(T)
<1>1. /\ IsFiniteSet(S) /\ Cardinality(S) <= Cardinality(T)
      /\ Cardinality(S) # Cardinality(T)
  BY FS_Subset
<1> QED BY <1>1, FS_CardinalityType

(* Ranks start at 1, grow with the frequency and reach each position.      *)
LEMMA Ranks ==
  ASSUME NEW p \in Seq(Mention)
  PROVE  /\ \A f \in Freqs(p) : Rank(p, f) \in 1..Cardinality(Freqs(p))
         /\ \A f, g \in Freqs(p) : f < g => Rank(p, f) < Rank(p, g)
         /\ \A f, g \in Freqs(p) : Rank(p, f) = Rank(p, g) => f = g
         /\ \A k \in 1..Cardinality(Freqs(p)) : \E f \in Freqs(p) : Rank(p, f) = k
<1> DEFINE F == Freqs(p)
           N == Cardinality(F)
           UpTo(f) == {g \in F : g <= f}
<1>1. IsFiniteSet(F) /\ F \subseteq Nat /\ N \in Nat
  BY PlanFreqs, FS_CardinalityType
<1>2. \A f : Rank(p, f) = Cardinality(UpTo(f))
  BY DEF Rank
<1> HIDE DEF F
<1>3. \A f \in F : IsFiniteSet(UpTo(f)) /\ Cardinality(UpTo(f)) \in Nat
                   /\ Cardinality(UpTo(f)) <= N
  <2> TAKE f \in F
  <2>1. UpTo(f) \in SUBSET F
    OBVIOUS
  <2>2. IsFiniteSet(UpTo(f)) /\ Cardinality(UpTo(f)) <= N
    BY <1>1, <2>1, FS_Subset
  <2> QED BY <2>2, FS_CardinalityType
<1>4. \A f \in F : Cardinality(UpTo(f)) >= 1
  <2> TAKE f \in F
  <2>1. f \in UpTo(f)
    BY <1>1
  <2>2. IsFiniteSet(UpTo(f)) /\ UpTo(f) # {} /\ Cardinality(UpTo(f)) \in Nat
    BY <1>3, <2>1
  <2> HIDE DEF UpTo
  <2>3. Cardinality(UpTo(f)) # 0
    BY <2>2, FS_EmptySet
  <2> QED BY <2>2, <2>3
<1>5. \A f, g \in F : f < g => Cardinality(UpTo(f)) < Cardinality(UpTo(g))
  <2> SUFFICES ASSUME NEW f \in F, NEW g \in F, f < g
               PROVE  Cardinality(UpTo(f)) < Cardinality(UpTo(g))
    OBVIOUS
  <2>0. f \in Nat /\ g \in Nat /\ g <= g /\ ~(g <= f)
    BY <1>1
  <2>1. UpTo(f) \in SUBSET UpTo(g) /\ g \in UpTo(g) /\ g \notin UpTo(f)
    <3>1. \A h \in F : h <= f => h <= g
      BY <1>1, <2>0
    <3> QED BY <2>0, <3>1
  <2>2. IsFiniteSet(UpTo(g))
    BY <1>3
  <2> HIDE DEF UpTo
  <2> QED BY <2>1, <2>2, Smaller
<1> HIDE DEF UpTo
<1>6. \A f \in F : Rank(p, f) \in 1..N
  BY <1>1, <1>2, <1>3, <1>4
<1>7. \A f, g \in F : f < g => Rank(p, f) < Rank(p, g)
  BY <1>2, <1>5
<1>8. \A f, g \in F : Rank(p, f) = Rank(p, g) => f = g
  <2> SUFFICES ASSUME NEW f \in F, NEW g \in F, f # g PROVE Rank(p, f) # Rank(p, g)
    OBVIOUS
  <2>1. f < g \/ g < f
    BY <1>1
  <2>2. Rank(p, f) \in Nat /\ Rank(p, g) \in Nat
    BY <1>1, <1>6
  <2> QED BY <1>7, <2>1, <2>2
<1> DEFINE r == [f \in F |-> Rank(p, f)]
<1>9. r \in Injection(F, 1..N)
  BY <1>6, <1>8 DEF Injection, IsInjective
<1>10. IsFiniteSet(1..N) /\ Cardinality(1..N) = N
  BY <1>1, FS_Interval
<1>11. r \in Surjection(F, 1..N)
  BY <1>9, <1>10, FS_Injection
<1>12. \A k \in 1..N : \E f \in F : Rank(p, f) = k
  BY <1>11 DEF Surjection
<1> QED BY <1>6, <1>7, <1>8, <1>12 DEF F

(* The frequency at a position, and the position of a frequency.           *)
LEMMA AtRanks ==
  ASSUME NEW p \in Seq(Mention)
  PROVE  /\ \A f \in Freqs(p) : AtRank(p, Rank(p, f)) = f
         /\ \A k \in 1..Cardinality(Freqs(p)) :
              AtRank(p, k) \in Freqs(p) /\ Rank(p, AtRank(p, k)) = k
BY Ranks DEF AtRank

(* Each frequency that a radio of the plan tunes to is of the plan, and    *)
(* the group of each frequency is one of the plan's groups.                *)
LEMMA GroupsCover ==
  ASSUME NEW n \in Nat \ {0}, NEW C \in Nat, NEW k \in 1..C
  PROVE  /\ (k - 1) \div n \in Nat /\ (C + n - 1) \div n \in Nat
         /\ (k - 1) \div n < (C + n - 1) \div n
<1> DEFINE a == (k - 1) \div n
           b == (C + n - 1) \div n
<1>1. /\ a \in Int /\ k - 1 \in Nat /\ n * a <= k - 1 /\ k - 1 < n * a + n
  OBVIOUS
<1>2. /\ b \in Int /\ C + n - 1 \in Nat /\ n * b <= C + n - 1 /\ C + n - 1 < n * b + n
  OBVIOUS
<1> HIDE DEF a, b
<1>3. a >= 0
  <2> SUFFICES ASSUME a <= -1 PROVE FALSE
    BY <1>1
  <2>1. n * a <= n * (-1)
    BY <1>1
  <2> QED BY <1>1, <2>1
<1>4. a < b
  <2> SUFFICES ASSUME b <= a PROVE FALSE
    BY <1>1, <1>2
  <2>1. n * b <= n * a
    BY <1>1, <1>2
  <2> QED BY <1>1, <1>2, <2>1
<1> QED BY <1>1, <1>2, <1>3, <1>4 DEF a, b

(* What is known of the constants.                                         *)
LEMMA Plan ==
  ASSUME NEW p \in Plans, NEW cf \in Config
  PROVE  /\ p \in Seq(Mention) /\ Cardinality(Freqs(p)) \in Nat /\ cf.if_chain \in Nat \ {0}
         /\ \A c \in RfChain : rfconf(cf, p, c) \in RfSetting
         /\ \A f \in Freqs(p) : ifconf(cf, p, f) \in IfConf
<1>1. p \in Seq(Mention)
  BY SettingsAssumption
<1>2. Cardinality(Freqs(p)) \in Nat
  BY <1>1, FreqsFinite
<1>3. \A c \in RfChain : rfconf(cf, p, c) \in RfSetting
  BY SettingsAssumption, RfConfAssumption
<1>4. \A f \in Freqs(p) : ifconf(cf, p, f) \in IfConf
  <2> TAKE f \in Freqs(p)
  <2>1. Rank(p, f) \in 1..Cardinality(Freqs(p)) /\ AtRank(p, Rank(p, f)) = f
    BY <1>1, Ranks, AtRanks
  <2>2. ifconf(cf, p, AtRank(p, Rank(p, f))) \in IfConf
    BY <2>1, SettingsAssumption
  <2> QED BY <2>1, <2>2
<1> QED BY <1>1, <1>2, <1>3, <1>4, BoardAssumption

(* Each frequency's group has a radio tuned for it.                        *)
LEMMA InGroup ==
  ASSUME NEW p \in Plans, NEW cf \in Config, NEW f \in Freqs(p)
  PROVE  ChainOf(cf, p, f) \in Nat /\ ChainOf(cf, p, f) < Groups(cf, p)
<1>1. Rank(p, f) \in 1..Cardinality(Freqs(p))
  BY Plan, Ranks
<1> QED BY <1>1, Plan, GroupsCover DEF ChainOf, Groups

(* The radio of a group in use is tuned to the group's middle.             *)
LEMMA Tuned ==
  ASSUME NEW p \in Plans, NEW cf \in Config, NEW c \in RfChain, c < Groups(cf, p)
  PROVE  /\ rfconf(cf, p, c).freq_hz = Middle(cf, p, c) /\ Middle(cf, p, c) \in Nat
         /\ rfconf(cf, p, c).type = cf.radio[c].type
<1>1. /\ rfconf(cf, p, c).freq_hz = Middle(cf, p, c)
      /\ rfconf(cf, p, c).type = cf.radio[c].type
  BY DEF rfconf
<1>2. rfconf(cf, p, c).freq_hz \in Nat
  BY Plan DEF RfSetting
<1> QED BY <1>1, <1>2

(* The first radio is tuned to a frequency of the plan, if it has any.     *)
LEMMA FirstRadio ==
  ASSUME NEW p \in Plans, NEW cf \in Config, Freqs(p) # {}
  PROVE  0 < Groups(cf, p) /\ Middle(cf, p, 0) \in Freqs(p)
<1> DEFINE C == Cardinality(Freqs(p))
           n == cf.if_chain
           g == GroupSize(cf, p, 0)
<1>1. C \in Nat /\ n \in Nat \ {0} /\ p \in Seq(Mention)
  BY Plan
<1>2. C >= 1
  <2>1. IsFiniteSet(Freqs(p))
    BY <1>1, PlanFreqs
  <2>2. C # 0
    BY <2>1, FS_EmptySet
  <2> QED BY <1>1, <2>2
<1>3. 0 < Groups(cf, p)
  <2> DEFINE b == (C + n - 1) \div n
  <2> HIDE DEF C, n
  <2>0. C + n - 1 \in Nat
    BY <1>1
  <2>1. b \in Int /\ C + n - 1 < n * b + n
    BY <1>1, <2>0
  <2> HIDE DEF b
  <2>2. b > 0
    <3> SUFFICES ASSUME b <= 0 PROVE FALSE
      BY <2>1
    <3>1. n * b <= 0
      BY <1>1, <2>1
    <3> QED BY <1>1, <1>2, <2>1, <3>1
  <2> QED BY <2>2 DEF Groups, b, C, n
<1>4. 0 * n = 0
  BY <1>1
<1>5. g = IF C < n THEN C ELSE n
  <2>1. Left(cf, p, 0) = C
    BY <1>1, <1>4 DEF Left
  <2> QED BY <2>1 DEF GroupSize
<1>6. g \in 1..C
  BY <1>1, <1>2, <1>5
<1> HIDE DEF g, C, n
<1>7. (g + 1) \div 2 \in 1..C
  BY <1>1, <1>6
<1>8. Middle(cf, p, 0) = AtRank(p, (g + 1) \div 2)
  <2>1. (g + 1) \div 2 + 0 * n = (g + 1) \div 2
    BY <1>4, <1>7
  <2> QED BY <2>1 DEF Middle, g, n
<1> QED BY <1>1, <1>3, <1>7, <1>8, AtRanks DEF C

(* Two frequencies of a plan that fits have chains of their own.           *)
LEMMA ChainsApart ==
  ASSUME NEW p \in Plans, Config # {}, Fits(p), NEW f \in Freqs(p), NEW g \in Freqs(p),
         ifChain(p, f) = ifChain(p, g)
  PROVE  f = g
<1>1. IsFiniteSet(Freqs(p)) /\ Freqs(p) \subseteq Nat
  BY Plan, PlanFreqs
<1> DEFINE NonStd == {h \in Freqs(p) : ~IsStd(p, h)}
<1>2. IsFiniteSet(NonStd)
  BY <1>1, FS_Subset
<1>3. ASSUME NEW h \in Freqs(p), ~IsStd(p, h)
      PROVE  /\ Cardinality(Others(p, h)) \in Nat /\ Cardinality(NonStd) \in Nat
             /\ Cardinality(Others(p, h)) < Cardinality(NonStd)
  <2>1. Others(p, h) \in SUBSET NonStd /\ h \in NonStd
    BY <1>3 DEF Others
  <2>2. h \notin Others(p, h)
    BY <1>1 DEF Others
  <2> QED BY <1>2, <2>1, <2>2, Smaller
<1>4. ASSUME NEW h \in Freqs(p), ~IsStd(p, h) PROVE ifChain(p, h) < StdIf
  <2>1. Cardinality(NonStd) <= MultiNb
    BY DEF Fits
  <2>2. ifChain(p, h) = Cardinality(Others(p, h))
    BY <1>4 DEF ifChain
  <2> QED BY <1>3, <1>4, <2>1, <2>2, BoardAssumption, SettingsAssumption
<1>5. ASSUME NEW h \in Freqs(p), NEW k \in Freqs(p), ~IsStd(p, h), ~IsStd(p, k), h < k
      PROVE  Cardinality(Others(p, h)) < Cardinality(Others(p, k))
  <2>1. Others(p, h) \in SUBSET Others(p, k) /\ h \in Others(p, k) /\ h \notin Others(p, h)
    <3>0. h \in Nat /\ k \in Nat
      BY <1>1
    <3>1. \A x \in Freqs(p) : x < h => x < k
      BY <1>1, <1>5, <3>0
    <3>2. Others(p, h) \in SUBSET Others(p, k)
      BY <3>1 DEF Others
    <3>3. h \in Others(p, k)
      BY <1>5 DEF Others
    <3>4. ~(h < h)
      BY <3>0
    <3>5. h \notin Others(p, h)
      BY <3>4 DEF Others
    <3> QED BY <3>2, <3>3, <3>5
  <2>2. IsFiniteSet(Others(p, k))
    BY <1>1, FS_Subset DEF Others
  <2> QED BY <2>1, <2>2, Smaller
<1>6. CASE IsStd(p, f) /\ IsStd(p, g)
  <2>1. f <= g /\ g <= f
    BY <1>6 DEF IsStd
  <2> QED BY <1>1, <2>1
<1>7. CASE IsStd(p, f) /\ ~IsStd(p, g)
  <2>1. ifChain(p, f) = StdIf /\ ifChain(p, g) < StdIf
    BY <1>4, <1>7 DEF ifChain
  <2> QED BY <2>1, BoardAssumption
<1>8. CASE ~IsStd(p, f) /\ IsStd(p, g)
  <2>1. ifChain(p, g) = StdIf /\ ifChain(p, f) < StdIf
    BY <1>4, <1>8 DEF ifChain
  <2> QED BY <2>1, BoardAssumption
<1>9. CASE ~IsStd(p, f) /\ ~IsStd(p, g)
  <2>1. Cardinality(Others(p, f)) = Cardinality(Others(p, g))
    BY <1>9 DEF ifChain
  <2>2. Cardinality(Others(p, f)) \in Nat /\ Cardinality(Others(p, g)) \in Nat
    BY <1>3, <1>9
  <2>3. ~(f < g) /\ ~(g < f)
    BY <1>5, <1>9, <2>1, <2>2
  <2> QED BY <1>1, <2>3
<1> QED BY <1>6, <1>7, <1>8, <1>9

-----------------------------------------------------------------------------
(* The settings of a plan in their places.                                 *)

(* Frequency f of the plan is on its chain.                                *)
Filled(c, f)  == IfFilled(ifmod_config[c], ifconf(config, plan, f))
OnChain(c, f) == /\ c \in IfChain /\ c = ifChain(plan, f) /\ ifc[c] = Filled(c, f)
                 /\ ChainOf(config, plan, f) \in RfChain
(* The first radios, the first frequencies, and only those.                *)
RadiosSet(k) == \A c \in RfChain :
                  c < k /\ c < Groups(config, plan) => rf[c] = rfconf(config, plan, c)
ChainsSet(k) == Fits(plan) => \A f \in Freqs(plan) :
                  Rank(plan, f) < k => OnChain(ifChain(plan, f), f)
OnlyPlan(k)  == \A c \in IfChain : ifc[c] # Off =>
                  \E f \in Freqs(plan) : Rank(plan, f) < k /\ OnChain(c, f)

(* Before its first start a process has set no chain; while it works on a  *)
(* plan the part behind it is set; and a plan that has been started stays. *)
Unset   == pc \in {"idle", "stop", "board", "gain", "radio"} /\ ~refused /\ ~joinable => ifc = NoIf
Setting == /\ pc = "radio" => RadiosSet(at)
           /\ pc = "if" => /\ \A c \in RfChain : RadiosSet(c + 1)
                           /\ ChainsSet(at) /\ (~refused /\ ~joinable => OnlyPlan(at))
Started == status = "started" =>
             /\ pc = "idle" /\ plan \in Plans /\ joinable
             /\ \A c \in RfChain : RadiosSet(c + 1)
             /\ ChainsSet(Cardinality(Freqs(plan)) + 1)
             /\ ~refused => OnlyPlan(Cardinality(Freqs(plan)) + 1)

(* The handle is closed while the plan is worked on, and never left to be  *)
(* used or closed twice.                                                   *)
Handle == /\ link # "dangling" /\ setas \in Nat
          /\ pc \in Working => setas > 0
          /\ setas = 0 => link = "closed"
          /\ pc \in {"board", "gain", "radio", "if"} => link = "closed"
PlanInv == /\ IInv /\ PlanKnown /\ GainsInv
           /\ Unset /\ Setting /\ Started /\ Handle /\ FaultNeedsEmptyPlan

(* What is on its chain is listened to, as the plan has it.                *)
LEMMA ListensTo ==
  ASSUME plan \in Plans, config \in Config, \A c \in RfChain : RadiosSet(c + 1),
         NEW f \in Freqs(plan), NEW c, OnChain(c, f)
  PROVE  /\ c \in IfChain /\ Listens(c, f)
         /\ datarate(plan, f) \subseteq ifc[c].datarate
         /\ bandwidth(plan, f) \in {0, ifc[c].bandwidth}
<1> DEFINE conf == ifconf(config, plan, f)
           r == ChainOf(config, plan, f)
           m == ifmod_config[c]
<1>1. c \in IfChain /\ ifc[c] = IfFilled(m, conf) /\ r \in RfChain
  BY DEF OnChain, Filled
<1>2. conf \in IfConf /\ Freqs(plan) \subseteq Nat
  BY Plan, PlanFreqs
<1>3. /\ conf.rf_chain = r /\ conf.freq_hz = f - Middle(config, plan, r)
      /\ conf.bandwidth = bandwidth(plan, f) /\ conf.datarate = datarate(plan, f)
  BY <1>1 DEF ifconf
<1>4. r < Groups(config, plan)
  BY InGroup
<1>5. rf[r].freq_hz = Middle(config, plan, r) /\ Middle(config, plan, r) \in Nat
  <2>1. r \in Nat /\ r < r + 1
    BY <1>1, RfChainAssumption
  <2>2. rf[r] = rfconf(config, plan, r)
    BY <1>1, <1>4, <2>1 DEF RadiosSet
  <2> QED BY <1>1, <1>4, <2>2, Tuned
<1>6. /\ ifc[c].rf_chain = r /\ ifc[c].freq_hz = f - Middle(config, plan, r)
      /\ ifc[c].bandwidth = bandwidthOf(m, bandwidth(plan, f))
      /\ ifc[c].datarate = datarateOf(m, datarate(plan, f))
  BY <1>1, <1>3 DEF IfFilled
<1>7. ifc[c] # Off
  <2>1. bandwidthOf(m, conf.bandwidth) \in Bandwidth /\ datarateOf(m, conf.datarate) \in Datarate
    <3>1. conf.bandwidth \in Bandwidth /\ conf.datarate \in Datarate
      BY <1>2, IfConfAssumption
    <3>2. 7..12 \in SUBSET (7..12) /\ {9} \in SUBSET (7..12)
      OBVIOUS
    <3>3. datarateOf(m, conf.datarate) \in {conf.datarate, 7..12, {9}, Fsk}
      BY DEF datarateOf
    <3>4. bandwidthOf(m, conf.bandwidth) \in {conf.bandwidth, 125, 250}
      BY DEF bandwidthOf
    <3>5. bandwidthOf(m, conf.bandwidth) \in Bandwidth
      BY <3>1, <3>4 DEF Bandwidth
    <3>6. datarateOf(m, conf.datarate) \in Datarate
      BY <3>1, <3>2, <3>3 DEF Datarate
    <3> QED BY <3>5, <3>6
  <2>2. conf.freq_hz \in Int
    BY <1>2, IfConfAssumption
  <2>3. IfFilled(m, conf) \in IfSetting
    BY <1>1, <1>3, <2>1, <2>2 DEF IfFilled, IfSetting
  <2> QED BY <1>1, <2>3, OffAssumption
<1>8. Listens(c, f)
  <2>1. f \in Nat
    BY <1>2
  <2>2. Middle(config, plan, r) + (f - Middle(config, plan, r)) = f
    BY <1>5, <2>1
  <2> QED BY <1>5, <1>6, <1>7, <2>2 DEF Listens
<1>9. datarate(plan, f) \subseteq ifc[c].datarate
  BY <1>6 DEF datarateOf
<1>10. bandwidth(plan, f) \in {0, ifc[c].bandwidth}
  BY <1>6 DEF bandwidthOf
<1> QED BY <1>1, <1>8, <1>9, <1>10

(* So a plan that has been started is in place, and nothing else is.       *)
LEMMA StartedInPlace == PlanInv => PlanInPlace /\ NothingElse
<1> SUFFICES ASSUME PlanInv, status = "started" PROVE PlanInPlace /\ NothingElse
  BY DEF PlanInPlace, NothingElse
<1> DEFINE N == Cardinality(Freqs(plan))
<1>1. /\ plan \in Plans /\ config \in Config /\ \A c \in RfChain : RadiosSet(c + 1)
      /\ ChainsSet(N + 1) /\ (~refused => OnlyPlan(N + 1))
  BY DEF PlanInv, Started, PlanKnown
<1>2. \A f \in Freqs(plan) : Rank(plan, f) < N + 1
  BY <1>1, Plan, Ranks
<1>3. PlanInPlace
  <2> SUFFICES ASSUME Fits(plan), NEW f \in Freqs(plan)
               PROVE  OnChain(ifChain(plan, f), f)
    BY <1>1, ListensTo DEF PlanInPlace
  <2> QED BY <1>1, <1>2 DEF ChainsSet
<1>4. NothingElse
  BY <1>1, ListensTo DEF OnlyPlan, NothingElse
<1> QED BY <1>3, <1>4

-----------------------------------------------------------------------------
(* Each step keeps the settings.                                           *)

(* What is in place stays while the settings do.                           *)
LEMMA Kept ==
  ASSUME UNCHANGED <<rf, ifc, config, plan>>
  PROVE  \A k : /\ RadiosSet(k) => RadiosSet(k)'
                /\ ChainsSet(k) => ChainsSet(k)'
                /\ OnlyPlan(k) => OnlyPlan(k)'
BY DEF RadiosSet, ChainsSet, OnlyPlan, OnChain, Filled

(* A step that is none of startConcentrator's.                             *)
LEMMA StartedKept ==
  ASSUME Unset, Setting, Started, UNCHANGED <<rf, ifc, config, plan, pc, at, status, joinable, refused>>
  PROVE  Unset' /\ Setting' /\ Started'
<1>1. Unset'
  BY DEF Unset
<1>2. Setting'
  BY Kept DEF Setting
<1>3. Started'
  BY Kept DEF Started
<1> QED BY <1>1, <1>2, <1>3

(* The next radio.                                                         *)
LEMMA RadioStep ==
  ASSUME PlanInv, Radio
  PROVE  Unset' /\ Setting' /\ Started'
<1>1. /\ pc = "radio" /\ at \in RfChain /\ at \in Nat /\ plan \in Plans /\ config \in Config
      /\ RadiosSet(at) /\ Unset /\ status # "started" /\ ~lgw_is_started
  BY DEF PlanInv, PlanKnown, Working, Radio, Setting, Started, GainsInv
<1> DEFINE conf == rfconf(config, plan, at)
<1>2. CASE at < Groups(config, plan) /\ config.radio[at].type = "none"
  <2>1. Return("failed")
    BY <1>2 DEF Radio
  <2> QED BY <2>1 DEF Return, Unset, Setting, Started
<1>3. CASE ~(at < Groups(config, plan) /\ config.radio[at].type = "none")
  <2>1. lgw_rxrf_setconf(at, conf) /\ UNCHANGED <<config, plan, status, joinable, refused>>
    BY <1>3 DEF Radio, Goto
  <2>2. ifc' = ifc
    BY <2>1 DEF lgw_rxrf_setconf
  <2>3. rf \in [RfChain -> RfSetting]
    BY DEF PlanInv, IInv, TypeOK
  <2>4. \A c \in RfChain : c # at => rf'[c] = rf[c]
    BY <2>1, <2>3 DEF lgw_rxrf_setconf
  <2>5. at < Groups(config, plan) => rf'[at] = conf
    <3> SUFFICES ASSUME at < Groups(config, plan) PROVE rf'[at] = conf
      OBVIOUS
    <3>1. conf.type = config.radio[at].type /\ conf \in RfSetting
      BY <1>1, Tuned, Plan
    <3>2. conf.type \in {"SX1255", "SX1257"}
      BY <1>3, <3>1 DEF RfSetting, RadioType
    <3>3. rxrf_ok(at, conf)
      BY <1>1, <3>2 DEF rxrf_ok
    <3> QED BY <1>1, <2>1, <2>3, <3>3 DEF lgw_rxrf_setconf
  <2>6. \A c \in RfChain : c < at + 1 /\ c < Groups(config, plan) =>
                            rf'[c] = rfconf(config, plan, c)
    <3> SUFFICES ASSUME NEW c \in RfChain, c < at + 1, c < Groups(config, plan)
                 PROVE  rf'[c] = rfconf(config, plan, c)
      OBVIOUS
    <3>1. c \in Nat
      BY RfChainAssumption
    <3>2. CASE c = at
      BY <2>5, <3>2
    <3>3. CASE c # at
      <4>1. c < at
        BY <1>1, <3>1, <3>3
      <4> QED BY <1>1, <2>4, <3>3, <4>1 DEF RadiosSet
    <3> QED BY <3>2, <3>3
  <2>7. CASE at + 1 \in RfChain
    <3>1. pc' = "radio" /\ at' = at + 1
      BY <1>3, <2>7 DEF Radio, Goto
    <3>2. Setting'
      BY <2>1, <2>6, <3>1 DEF Setting, RadiosSet
    <3> QED BY <1>1, <2>1, <2>2, <3>1, <3>2 DEF Unset, Started
  <2>8. CASE at + 1 \notin RfChain
    <3>1. pc' = "if" /\ at' = 1
      BY <1>3, <2>8 DEF Radio, Goto
    <3>2. \A c \in RfChain : RadiosSet(c + 1)'
      <4>1. \A c \in RfChain : c \in Nat /\ c < at + 1
        <5> TAKE c \in RfChain
        <5>1. c \in Nat /\ 0..c \subseteq RfChain
          BY RfChainAssumption, BoardAssumption
        <5>2. ~(at + 1 <= c)
          BY <1>1, <2>8, <5>1
        <5> QED BY <1>1, <5>1, <5>2
      <4> QED BY <2>1, <2>6, <4>1 DEF RadiosSet
    <3>3. ChainsSet(1)'
      <4>1. \A f \in Freqs(plan) : ~(Rank(plan, f) < 1)
        BY <1>1, Plan, Ranks
      <4> QED BY <2>1, <4>1 DEF ChainsSet
    <3>4. ~refused /\ ~joinable => OnlyPlan(1)'
      <4>1. ~refused /\ ~joinable => \A c \in IfChain : ifc'[c] = Off
        BY <1>1, <2>2 DEF Unset, NoIf
      <4> QED BY <4>1 DEF OnlyPlan
    <3>5. Setting'
      BY <2>1, <3>1, <3>2, <3>3, <3>4 DEF Setting
    <3> QED BY <1>1, <2>1, <3>1, <3>5 DEF Unset, Started
  <2> QED BY <2>7, <2>8
<1> QED BY <1>2, <1>3

(* The next frequency.                                                     *)
LEMMA IfStep ==
  ASSUME PlanInv, If
  PROVE  Unset' /\ Setting' /\ Started'
<1>1. /\ pc = "if" /\ at \in Nat /\ at >= 1 /\ plan \in Plans /\ config \in Config
      /\ at <= Cardinality(Freqs(plan)) /\ status # "started"
      /\ \A c \in RfChain : RadiosSet(c + 1)
      /\ ChainsSet(at) /\ (~refused /\ ~joinable => OnlyPlan(at))
  BY DEF PlanInv, PlanKnown, Working, If, Setting, Started
<1> DEFINE f == AtRank(plan, at)
           c == ifChain(plan, f)
           conf == ifconf(config, plan, f)
<1>2. f \in Freqs(plan) /\ Rank(plan, f) = at
  BY <1>1, Plan, AtRanks
<1>3. CASE ~rxif_ok(c, conf)
  <2>1. Return("failed")
    BY <1>3 DEF If
  <2> QED BY <2>1 DEF Return, Unset, Setting, Started
<1>4. CASE rxif_ok(c, conf)
  <2>1. lgw_rxif_setconf(c, conf) /\ Goto("if", at + 1)
    BY <1>4 DEF If
  <2>2. /\ pc' = "if" /\ at' = at + 1
        /\ UNCHANGED <<rf, config, plan, status, joinable, refused>>
    BY <2>1 DEF lgw_rxif_setconf, Goto
  <2>3. /\ conf.enable = TRUE /\ conf.rf_chain = ChainOf(config, plan, f)
        /\ c \in IfChain /\ ChainOf(config, plan, f) \in RfChain
    <3>1. conf.enable = TRUE /\ conf.rf_chain = ChainOf(config, plan, f)
      BY DEF ifconf
    <3> HIDE DEF conf, c, f
    <3> QED BY <1>4, <3>1 DEF rxif_ok
  <2>4. ifc' = [ifc EXCEPT ![c] = Filled(c, f)]
    <3> HIDE DEF c
    <3> QED BY <1>4, <2>1, <2>3 DEF lgw_rxif_setconf, Filled
  <2>5. ifc \in [IfChain -> IfSetting \cup {Off}]
    BY DEF PlanInv, IInv, TypeOK
  <2>6. ifc'[c] = Filled(c, f) /\ \A d \in IfChain : d # c => ifc'[d] = ifc[d]
    <3> HIDE DEF c, f
    <3> QED BY <2>3, <2>4, <2>5
  <2> DEFINE ThenOnChain(d, g) == /\ d \in IfChain /\ d = ifChain(plan, g)
                            /\ ifc'[d] = Filled(d, g) /\ ChainOf(config, plan, g) \in RfChain
  <2>7. \A d, g : ThenOnChain(d, g) <=> OnChain(d, g)'
    BY <2>2 DEF OnChain, Filled
  <2>8. ThenOnChain(c, f)
    BY <2>3, <2>6
  <2>9. \A d, g : OnChain(d, g) /\ d # c => ThenOnChain(d, g)
    <3> HIDE DEF c, f
    <3> QED BY <2>6 DEF OnChain
  <2>10. \A g \in Freqs(plan) : Rank(plan, g) < at + 1 => g = f \/ Rank(plan, g) < at
    <3> TAKE g \in Freqs(plan)
    <3>1. Rank(plan, g) \in Nat /\ (Rank(plan, g) = at => g = f)
      BY <1>1, <1>2, Plan, Ranks
    <3> QED BY <1>1, <3>1
  <2>11. Fits(plan) => \A g \in Freqs(plan) : Rank(plan, g) < at + 1 => ThenOnChain(ifChain(plan, g), g)
    <3> SUFFICES ASSUME Fits(plan), NEW g \in Freqs(plan), Rank(plan, g) < at + 1
                 PROVE  ThenOnChain(ifChain(plan, g), g)
      OBVIOUS
    <3>1. CASE g = f
      BY <2>8, <3>1
    <3>2. CASE g # f
      <4>1. OnChain(ifChain(plan, g), g)
        BY <1>1, <2>10, <3>2 DEF ChainsSet
      <4>2. ifChain(plan, g) # c
        BY <1>1, <1>2, <3>2, ChainsApart
      <4> HIDE DEF ThenOnChain
      <4> QED BY <2>9, <4>1, <4>2
    <3> QED BY <3>1, <3>2
  <2>12. ~refused /\ ~joinable => \A d \in IfChain : ifc'[d] # Off =>
            \E g \in Freqs(plan) : Rank(plan, g) < at + 1 /\ ThenOnChain(d, g)
    <3> SUFFICES ASSUME ~refused, ~joinable, NEW d \in IfChain, ifc'[d] # Off
                 PROVE  \E g \in Freqs(plan) : Rank(plan, g) < at + 1 /\ ThenOnChain(d, g)
      OBVIOUS
    <3> HIDE DEF ThenOnChain
    <3>1. CASE d = c
      <4>1. Rank(plan, f) < at + 1
        BY <1>1, <1>2
      <4> QED BY <1>2, <2>8, <3>1, <4>1
    <3>2. CASE d # c
      <4>1. ifc[d] # Off
        BY <2>6, <3>2
      <4>2. PICK g \in Freqs(plan) : Rank(plan, g) < at /\ OnChain(d, g)
        BY <1>1, <4>1 DEF OnlyPlan
      <4>3. Rank(plan, g) \in Nat
        BY <1>1, Plan, Ranks
      <4>4. Rank(plan, g) < at + 1
        BY <1>1, <4>2, <4>3
      <4> QED BY <2>9, <3>2, <4>2, <4>4
    <3> QED BY <3>1, <3>2
  <2>13. \A r \in RfChain : RadiosSet(r + 1)'
    BY <1>1, <2>2 DEF RadiosSet
  <2>14. ChainsSet(at)'
    <3> HIDE DEF ThenOnChain
    <3> QED BY <2>2, <2>7, <2>11 DEF ChainsSet
  <2>15. ~refused /\ ~joinable => OnlyPlan(at)'
    <3> HIDE DEF ThenOnChain
    <3> QED BY <2>2, <2>7, <2>12 DEF OnlyPlan
  <2>16. Setting'
    BY <2>2, <2>13, <2>14, <2>15 DEF Setting
  <2> QED BY <1>1, <2>2, <2>16 DEF Unset, Started
<1> QED BY <1>3, <1>4

(* The library's start: what has been set is in place, and no thread of an *)
(* earlier start is left; or it fails.  Only without a frequency is the    *)
(* first radio not tuned, and the division by its frequency one by zero.   *)
LEMMA StartsInPlace ==
  ASSUME PlanInv, Start
  PROVE  Unset' /\ Setting' /\ Started' /\ Handle' /\ FaultNeedsEmptyPlan'
<1> DEFINE N == Cardinality(Freqs(plan))
<1>1. /\ pc = "if" /\ at \in Nat /\ at > N /\ N \in Nat /\ plan \in Plans /\ config \in Config
      /\ \A c \in RfChain : RadiosSet(c + 1)
      /\ ChainsSet(at) /\ (~refused /\ ~joinable => OnlyPlan(at))
      /\ link = "closed" /\ setas \in Nat /\ setas > 0
  BY Plan DEF PlanInv, PlanKnown, Working, Start, Setting, Handle
<1>2. UNCHANGED <<rf, ifc, config, plan, setas>>
  BY <1>1 DEF Start, StartSucceeds, StartUnconnected, StartFailed, StartFaults, confVars,
     Goto, Return
<1>3. link' # "dangling" /\ pc' \in {"idle", "terminated"}
  BY <1>1 DEF Start, StartSucceeds, StartUnconnected, StartFailed, StartFaults, linkVars,
     Goto, Return
<1>4. Handle'
  BY <1>1, <1>2, <1>3 DEF Handle, Working
<1>5. Setting'
  BY <1>3 DEF Setting
<1>6. \A f \in Freqs(plan) : Rank(plan, f) < N + 1 /\ (\A k \in Nat : k > N => Rank(plan, f) < k)
  <2> TAKE f \in Freqs(plan)
  <2>1. Rank(plan, f) \in 1..N
    BY <1>1, Plan, Ranks
  <2> QED BY <1>1, <2>1
<1>7. /\ Fits(plan) => \A f \in Freqs(plan) : OnChain(ifChain(plan, f), f)
      /\ ~refused /\ ~joinable => \A c \in IfChain : ifc[c] # Off =>
           \E f \in Freqs(plan) : OnChain(c, f)
  BY <1>1, <1>6 DEF ChainsSet, OnlyPlan
<1>8. CASE pc' = "idle" /\ status' = "started"
  <2>1. ~joinable /\ joinable' = TRUE /\ refused' = refused /\ fault' = fault
    BY <1>8 DEF Start, StartSucceeds, StartUnconnected, StartFailed, StartFaults, Goto, Return
  <2>2. \A c \in RfChain : RadiosSet(c + 1)'
    BY <1>1, <1>2, Kept
  <2>3. ChainsSet(N + 1)
    BY <1>7 DEF ChainsSet
  <2>4. ~refused => OnlyPlan(N + 1)
    BY <1>6, <1>7, <2>1 DEF OnlyPlan
  <2>5. ChainsSet(Cardinality(Freqs(plan)) + 1)' /\ (~refused' => OnlyPlan(Cardinality(Freqs(plan)) + 1)')
    <3>1. \A k : k = N + 1 => ChainsSet(k)' /\ (~refused => OnlyPlan(k)')
      BY <1>2, <2>3, <2>4, Kept
    <3> QED BY <1>2, <2>1, <3>1 DEF ChainsSet, OnlyPlan
  <2>6. Started'
    BY <1>1, <1>2, <1>8, <2>1, <2>2, <2>5 DEF Started
  <2>7. FaultNeedsEmptyPlan'
    BY <1>2, <2>1 DEF PlanInv, FaultNeedsEmptyPlan
  <2> QED BY <1>4, <1>5, <2>1, <2>6, <2>7 DEF Unset
<1>9. CASE status' # "started"
  <2>1. (pc' = "idle" => refused') /\ Started'
    BY <1>9 DEF Start, Started, Goto, Return
  <2>2. Unset'
    BY <1>3, <2>1 DEF Unset
  <2>3. FaultNeedsEmptyPlan'
    <3> SUFFICES ASSUME fault', Freqs(plan) # {} PROVE FALSE
      BY <1>2 DEF FaultNeedsEmptyPlan
    <3>1. ~fault
      BY DEF PlanInv, FaultNeedsEmptyPlan
    <3>2. StartFaults
      BY <3>1 DEF Start, StartSucceeds, StartUnconnected, StartFailed
    <3>3. rf[0].freq_hz < 8
      BY <1>1, <3>2 DEF StartFaults
    <3>4. rf[0] = rfconf(config, plan, 0)
      <4>1. 0 < 0 + 1 /\ 0 < Groups(config, plan) /\ RadiosSet(0 + 1)
        BY <1>1, FirstRadio, RfChainAssumption
      <4> QED BY <4>1, RfChainAssumption DEF RadiosSet
    <3>5. rf[0].freq_hz \in Freqs(plan)
      BY <1>1, <3>4, FirstRadio, Tuned, RfChainAssumption
    <3>6. PICK i \in DOMAIN plan : rf[0].freq_hz = plan[i].freq
      BY <3>5 DEF Freqs, Counts
    <3>7. plan[i].freq \in Nat
      BY <1>1, <3>5, <3>6, Plan, PlanFreqs
    <3> QED BY <1>1, <3>3, <3>6, <3>7, FrequencyAssumption
  <2> QED BY <1>4, <1>5, <2>1, <2>2, <2>3
<1>10. CASE pc' = "terminated" /\ status' = "started"
  <2>1. status = "started"
    BY <1>10 DEF Start, Goto, Return
  <2> QED BY <1>1, <2>1 DEF PlanInv, Started
<1> QED BY <1>3, <1>8, <1>9, <1>10

(* Every other step keeps what is set, forgets it, or ends the process.    *)
LEMMA SettingsKept ==
  ASSUME PlanInv, [StartNext]_<<halVars, startVars>>
  PROVE  Unset' /\ Setting' /\ Started' /\ Handle' /\ FaultNeedsEmptyPlan'
<1>0. link # "dangling" /\ Unset /\ Setting /\ Started /\ Handle /\ FaultNeedsEmptyPlan
  BY DEF PlanInv, Handle
<1> USE DEF Goto, Return
<1>1. ASSUME NEW p \in Plans, ~fault, Seta(p)
      PROVE  Unset' /\ Setting' /\ Started' /\ Handle' /\ FaultNeedsEmptyPlan'
  <2>1. /\ pc = "idle" /\ pc' \in {"board", "stop"} /\ status' = "none"
        /\ setas' = setas + 1 /\ (pc' = "board" => setas = 0)
        /\ UNCHANGED <<ifc, joinable, refused, link, fault>>
    BY <1>1 DEF Seta, halVars, statics, confVars, linkVars
  <2> QED BY <1>0, <1>1, <2>1 DEF Unset, Setting, Started, Handle, FaultNeedsEmptyPlan, Working
<1>2. CASE ~fault /\ StopFirst
  <2>1. /\ pc = "stop" /\ pc' = "board" /\ link' = "closed" /\ ~fault'
        /\ UNCHANGED <<ifc, joinable, refused, status, setas>>
    BY <1>0, <1>2 DEF StopFirst, lgw_stop, confVars
  <2> QED BY <1>0, <2>1 DEF Unset, Setting, Started, Handle, FaultNeedsEmptyPlan, Working
<1>3. CASE ~fault /\ Board
  <2>1. /\ pc = "board" /\ pc' \in {"idle", "gain"} /\ ~fault'
        /\ UNCHANGED <<ifc, joinable, link, setas>>
        /\ status' # "started" /\ (~refused' => ~refused)
    BY <1>0, <1>3 DEF Board, halVars, statics, confVars, linkVars, Started
  <2> QED BY <1>0, <2>1 DEF Unset, Setting, Started, Handle, FaultNeedsEmptyPlan, Working
<1>4. CASE ~fault /\ Gains
  <2>1. /\ pc = "gain" /\ pc' \in {"idle", "radio"} /\ at' = 0 /\ ~fault'
        /\ UNCHANGED <<ifc, joinable, link, setas>>
        /\ status' # "started" /\ (~refused' => ~refused)
    BY <1>0, <1>4 DEF Gains, lgw_txgain_setconf, confVars, linkVars, Started
  <2>2. pc' = "radio" => RadiosSet(at)'
    BY <2>1, RfChainAssumption DEF RadiosSet
  <2> QED BY <1>0, <2>1, <2>2 DEF Unset, Setting, Started, Handle, FaultNeedsEmptyPlan, Working
<1>5. CASE ~fault /\ Radio
  <2>1. /\ pc = "radio" /\ pc' \in {"idle", "radio", "if"} /\ ~fault'
        /\ UNCHANGED <<link, setas>>
    BY <1>5 DEF Radio, halVars, statics, linkVars, lgw_rxrf_setconf
  <2> QED BY <1>0, <1>5, <2>1, RadioStep DEF Handle, FaultNeedsEmptyPlan, Working
<1>6. CASE ~fault /\ If
  <2>1. /\ pc = "if" /\ pc' \in {"idle", "if"} /\ ~fault'
        /\ UNCHANGED <<link, setas>>
    BY <1>6 DEF If, halVars, statics, linkVars, lgw_rxif_setconf
  <2> QED BY <1>0, <1>6, <2>1, IfStep DEF Handle, FaultNeedsEmptyPlan, Working
<1>7. CASE ~fault /\ Start
  BY <1>7, StartsInPlace
<1>8. CASE ~fault /\ Threads
  <2>1. UNCHANGED <<rf, ifc, link>> /\ UNCHANGED startVars
    BY <1>8 DEF Threads, lgw_receive, lgw_send, confVars, linkVars
  <2>2. ~fault'
    BY <1>0, <1>8 DEF Threads, lgw_receive, lgw_send
  <2> QED BY <1>0, <2>1, <2>2, StartedKept DEF startVars, Handle, FaultNeedsEmptyPlan
<1>9. CASE Air \/ UNCHANGED <<halVars, startVars>>
  <2>1. UNCHANGED <<rf, ifc, link, fault>> /\ UNCHANGED startVars
    BY <1>9 DEF Air, Arrive, halVars, statics, confVars, linkVars
  <2> QED BY <1>0, <2>1, StartedKept DEF startVars, Handle, FaultNeedsEmptyPlan
<1>10. CASE Respawn
  <2>1. /\ ifc' = NoIf /\ link' = "closed" /\ ~fault' /\ pc' = "idle" /\ setas' = 0
        /\ status' = "none"
    BY <1>10 DEF Respawn, NewProcess
  <2>2. NoIf' = NoIf
    BY DEF NoIf
  <2> QED BY <2>1, <2>2 DEF Unset, Setting, Started, Handle, FaultNeedsEmptyPlan, Working
<1> QED BY <1>1, <1>2, <1>3, <1>4, <1>5, <1>6, <1>7, <1>8, <1>9, <1>10
        DEF StartNext, startConcentrator

(* The inductive invariant.                                                *)
LEMMA PlanInvInit == StartInit => PlanInv
<1> SUFFICES ASSUME StartInit PROVE PlanInv
  OBVIOUS
<1>1. IInv
  BY InitIInv DEF StartInit
<1>2. ifc = NoIf /\ link = "closed" /\ fault = FALSE
  BY DEF StartInit, HalInit, InitStatics
<1>3. Unset /\ Setting /\ Started /\ Handle /\ FaultNeedsEmptyPlan
  BY <1>2 DEF StartInit, Unset, Setting, Started, Handle, FaultNeedsEmptyPlan, Working
<1> QED BY <1>1, <1>3, PlanKnownInit, GainsInvInit DEF PlanInv

(* The step of it is the library's, startConcentrator's and the settings'. *)
LEMMA PlanInvStep == PlanInv /\ [StartNext]_<<halVars, startVars>> => PlanInv'
<1> SUFFICES ASSUME PlanInv, [StartNext]_<<halVars, startVars>> PROVE PlanInv'
  OBVIOUS
<1>1. IInv /\ PlanKnown /\ GainsInv
  BY DEF PlanInv
<1>2. IInv'
  BY <1>1, StepIsCall, StepIInv
<1>3. PlanKnown' /\ GainsInv'
  BY <1>1, PlanKnownStep, GainsInvStep
<1>4. Unset' /\ Setting' /\ Started' /\ Handle' /\ FaultNeedsEmptyPlan'
  BY SettingsKept
<1> QED BY <1>2, <1>3, <1>4 DEF PlanInv

(* A gateway that has been started listens on every frequency of a plan    *)
(* that fits, with its bandwidth and spreading factor and on a chain of    *)
(* its own, and on nothing else; and only a plan without a frequency ends  *)
(* the process in the library: whatever the plans, the order of SETAs and  *)
(* the calls that fail.                                                    *)
THEOREM StartedOnItsPlan == StartSpec => []SetaInPlace
<1>1. PlanInv => SetaInPlace
  BY StartedInPlace DEF PlanInv, SetaInPlace
<1> QED BY <1>1, PlanInvInit, PlanInvStep, PTL DEF StartSpec
=============================================================================
