-------------------------------- MODULE Hal --------------------------------
(***************************************************************************)
(* The concentrator library as a client sees it (loragw_hal.c, with the    *)
(* connection of loragw_reg.c): the configuration it keeps in statics, the *)
(* chip that lgw_start loads with a copy of it, and the calls that use the *)
(* one in the belief that it still is the other.                           *)
(*                                                                         *)
(* The chip: registers as lgw_start has written them, and the FIFO of      *)
(* received packets.  It has its own power: a process that dies leaves it  *)
(* as it is to the next one.  Next is a client that makes any call at any  *)
(* time, and may die between two.                                          *)
(***************************************************************************)
EXTENDS Integers, Sequences

CONSTANTS
  RfChain,       \* radios, from 0
  IfChain,       \* IF chains, from 0
  ifmod_config,  \* LGW_IFMODEM_CONFIG: the modem behind each IF chain
  LutSize,       \* TX_GAIN_LUT_SIZE_MAX
  FifoSize,      \* LGW_PKT_FIFO_SIZE
  RfConf,        \* what clients configure radios with,
  IfConf,        \* IF chains with,
  GainTable,     \* and the gain table with
  Power,         \* powers clients ask for, dBm
  Off            \* an IF chain that is not enabled

RadioType == {"none", "SX1255", "SX1257"}
Bandwidth == {0, 125, 250, 500}     \* kHz; 0 is BW_UNDEFINED
Fsk       == {64000}                \* an FSK data rate, the default
Datarate  == (SUBSET (7..12)) \cup {Fsk}  \* LoRa: a mask of spreading factors
Gain      == [mix_gain : Nat, rf_power : Int]

RfSetting == [enable : BOOLEAN, freq_hz : Nat, type : RadioType, tx_enable : BOOLEAN]
IfSetting == [rf_chain : RfChain, freq_hz : Int, bandwidth : Bandwidth,
              datarate : Datarate]

ASSUME RfChainAssumption == RfChain \subseteq Nat /\ 0 \in RfChain
ASSUME OffAssumption     == Off \notin IfSetting
ASSUME IfChainAssumption == ifmod_config \in [IfChain -> {"multi", "std", "fsk"}]
ASSUME SizeAssumption    == LutSize \in Nat \ {0, 1} /\ FifoSize \in Nat
ASSUME RfConfAssumption  == RfConf \subseteq RfSetting
ASSUME IfConfAssumption  ==
  IfConf \subseteq [enable : BOOLEAN, rf_chain : Nat, freq_hz : Int,
                    bandwidth : Bandwidth, datarate : Datarate]
ASSUME GainAssumption    == GainTable \subseteq Seq(Gain) /\ Power \subseteq Int

VARIABLES
  lgw_is_started,
  rf, ifc,          \* the configured radios and IF chains
  lut_size, lut,    \* txgain_lut
  link,             \* lgw_spi_target: "closed", "open", or "dangling"
  paged,            \* lgw_regpage is known (>= 0)
  hw_on,            \* the chip demodulates
  hw_rf, hw_if,     \* what lgw_start has loaded into it
  fifo,             \* received packets, as they were on the air
  tx,               \* the last packet programmed
  fault             \* undefined behaviour has ended the process

confVars == <<rf, ifc>>
lutVars  == <<lut_size, lut>>
hwVars   == <<hw_on, hw_rf, hw_if, fifo>>
linkVars == <<link, paged>>
statics  == <<lgw_is_started, confVars, lutVars, linkVars, tx, fault>>
halVars  == <<statics, hwVars>>

NoRf == [c \in RfChain |-> [enable |-> FALSE, freq_hz |-> 0, type |-> "none",
                            tx_enable |-> FALSE]]
NoIf == [c \in IfChain |-> Off]
NoTx == [rf_chain |-> 0, asked |-> 0, gain |-> 0]

Packet == [if_chain : IfChain, freq_hz : Int, bandwidth : Bandwidth]

TypeOK ==
  /\ lgw_is_started \in BOOLEAN /\ hw_on \in BOOLEAN /\ fault \in BOOLEAN
  /\ paged \in BOOLEAN
  /\ rf \in [RfChain -> RfSetting] /\ hw_rf \in [RfChain -> RfSetting]
  /\ ifc \in [IfChain -> IfSetting \cup {Off}]
  /\ hw_if \in [IfChain -> IfSetting \cup {Off}]
  /\ lut_size \in 1..LutSize /\ lut \in [1..LutSize -> Gain]
  /\ link \in {"closed", "open", "dangling"}
  /\ fifo \in Seq(Packet)
  /\ tx.rf_chain \in RfChain

(* txgain_lut of a new process; entries it does not set are 0.             *)
DefaultLut == [i \in 1..LutSize |-> IF i = 1 THEN [mix_gain |-> 10, rf_power |-> 14]
                                   ELSE IF i = 2 THEN [mix_gain |-> 14, rf_power |-> 27]
                                   ELSE [mix_gain |-> 0, rf_power |-> 0]]
InitStatics ==
  /\ lgw_is_started = FALSE /\ link = "closed" /\ paged = FALSE
  /\ rf = NoRf /\ ifc = NoIf
  /\ lut_size = 2 /\ lut = DefaultLut
  /\ tx = NoTx /\ fault = FALSE

HalInit == /\ InitStatics
           /\ hw_on = FALSE /\ hw_rf = NoRf /\ hw_if = NoIf /\ fifo = <<>>

-----------------------------------------------------------------------------
(* Configuration.  (What lgw_board_setconf sets no property is about.)     *)

rxrf_ok(c, conf) ==
  ~lgw_is_started /\ c \in RfChain /\ conf.type \in {"SX1255", "SX1257"}

lgw_rxrf_setconf(c, conf) ==
  /\ rf' = IF rxrf_ok(c, conf) THEN [rf EXCEPT ![c] = conf] ELSE rf
  /\ UNCHANGED <<lgw_is_started, ifc, lutVars, linkVars, hwVars, tx, fault>>

(* The band a radio sees must hold the whole channel (of 125 kHz).         *)
inBand(offset) == offset + 62500 <= 500000 /\ offset - 62500 >= -500000

(* Defaults by modem; a multi modem is fixed to 125 kHz, a std one to one  *)
(* spreading factor.                                                       *)
bandwidthOf(m, bw) == IF bw # 0 THEN bw ELSE IF m = "multi" THEN 125 ELSE 250
datarateOf(m, dr)  == IF dr # {} THEN dr
                      ELSE IF m = "multi" THEN 7..12 ELSE IF m = "std" THEN {9} ELSE Fsk
modem_ok(m, bw, dr) ==
  CASE m = "multi" -> bw = 125 /\ dr \subseteq 7..12
    [] m = "std"   -> dr \in {{s} : s \in 7..12}
    [] m = "fsk"   -> dr = Fsk

IfFilled(m, conf) == [rf_chain  |-> conf.rf_chain,
                      freq_hz   |-> conf.freq_hz,
                      bandwidth |-> bandwidthOf(m, conf.bandwidth),
                      datarate  |-> datarateOf(m, conf.datarate)]

rxif_ok(c, conf) ==
  /\ ~lgw_is_started /\ c \in IfChain
  /\ conf.enable => LET filled == IfFilled(ifmod_config[c], conf) IN
       /\ conf.rf_chain \in RfChain
       /\ inBand(conf.freq_hz)
       /\ modem_ok(ifmod_config[c], filled.bandwidth, filled.datarate)

lgw_rxif_setconf(c, conf) ==
  /\ ifc' = IF ~rxif_ok(c, conf) THEN ifc
            ELSE [ifc EXCEPT ![c] = IF conf.enable THEN IfFilled(ifmod_config[c], conf)
                                    ELSE Off]
  /\ UNCHANGED <<lgw_is_started, rf, lutVars, linkVars, hwVars, tx, fault>>

(* The table is overwritten up to the first entry with a gain out of its   *)
(* range (one of four, all of them mix_gain here), its size before that.   *)
gain_ok(g) == g.mix_gain \in 8..15
lgw_txgain_setconf(conf) ==
  /\ IF Len(conf) \in 1..LutSize
     THEN /\ lut_size' = Len(conf)
          /\ lut' = [i \in 1..LutSize |->
                       IF i <= Len(conf) /\ \A j \in 1..i : gain_ok(conf[j])
                       THEN conf[i] ELSE lut[i]]
     ELSE UNCHANGED lutVars
  /\ UNCHANGED <<lgw_is_started, confVars, linkVars, hwVars, tx, fault>>

-----------------------------------------------------------------------------
(* Start and stop.                                                         *)

(* The soft reset: the chip forgets everything, received packets included. *)
soft_reset == hw_on' = FALSE /\ hw_rf' = NoRf /\ hw_if' = NoIf /\ fifo' = <<>>

(* After its reset the chip is loaded with what is configured; on the way  *)
(* lgw_start divides by the frequency of radio 0.                          *)
Loaded == rf[0].freq_hz >= 8 /\ hw_on' = TRUE /\ hw_rf' = rf /\ hw_if' = ifc

(* lgw_connect, when it fails: the device file does not open, and an old   *)
(* handle stays behind, closed; or the chip does not identify itself,      *)
(* before or after the page register is set.                               *)
StartUnconnected ==
  /\ link # "dangling"
  /\ \/ link' = (IF link = "closed" THEN "closed" ELSE "dangling") /\ UNCHANGED paged
     \/ link' = "open" /\ paged' \in {paged, TRUE}
  /\ UNCHANGED <<lgw_is_started, confVars, lutVars, hwVars, tx, fault>>

(* The chip is reset, and then calibration or a firmware fails, before or  *)
(* after the modems have been loaded; lgw_is_started keeps its value.      *)
StartFailed ==
  /\ link # "dangling"
  /\ link' = "open" /\ paged' = TRUE
  /\ soft_reset \/ (Loaded /\ fifo' = <<>>)
  /\ UNCHANGED <<lgw_is_started, confVars, lutVars, tx, fault>>

(* Mutant: without the soft reset packets of the last run stay in the FIFO.*)
StartKeepsFifo ==
  /\ link # "dangling"
  /\ link' = "open" /\ paged' = TRUE /\ lgw_is_started' = TRUE
  /\ Loaded /\ UNCHANGED fifo
  /\ tx' = NoTx
  /\ UNCHANGED <<confVars, lutVars, fault>>

(* tx forgets the run before.                                              *)
StartSucceeds ==
  /\ link # "dangling"
  /\ link' = "open" /\ paged' = TRUE /\ lgw_is_started' = TRUE
  /\ Loaded /\ fifo' = <<>>
  /\ tx' = NoTx
  /\ UNCHANGED <<confVars, lutVars, fault>>

(* A handle closed twice; a division by zero.                              *)
StartFaults ==
  /\ link = "dangling" \/ rf[0].freq_hz < 8
  /\ fault' = TRUE
  /\ UNCHANGED <<lgw_is_started, confVars, lutVars, linkVars, hwVars, tx>>

lgw_start == StartUnconnected \/ StartFailed \/ StartSucceeds \/ StartFaults

(* Without a link and a page there is no reset; lgw_disconnect closes what *)
(* handle there is.                                                        *)
lgw_stop ==
  /\ IF link = "open" /\ paged THEN soft_reset ELSE UNCHANGED hwVars
  /\ IF link = "dangling"
     THEN fault' = TRUE /\ UNCHANGED <<lgw_is_started, link>>
     ELSE link' = "closed" /\ lgw_is_started' = FALSE /\ UNCHANGED fault
  /\ UNCHANGED <<confVars, lutVars, paged, tx>>

-----------------------------------------------------------------------------
(* Packets.                                                                *)

(* What a chain of the chip demodulates, and what lgw_receive says of a    *)
(* packet that the chain received: it asks the configuration.              *)
Heard(c)    == [if_chain  |-> c,
                freq_hz   |-> hw_rf[hw_if[c].rf_chain].freq_hz + hw_if[c].freq_hz,
                bandwidth |-> hw_if[c].bandwidth]
Reported(c) == [if_chain  |-> c,
                freq_hz   |-> rf[ifc[c].rf_chain].freq_hz + ifc[c].freq_hz,
                bandwidth |-> ifc[c].bandwidth]

(* A packet comes in; a full FIFO drops it.                                *)
Arrive(c) ==
  /\ hw_on /\ hw_if[c] # Off /\ Len(fifo) < FifoSize
  /\ fifo' = Append(fifo, Heard(c))
  /\ UNCHANGED <<statics, hw_on, hw_rf, hw_if>>

(* Up to max_pkt packets leave the FIFO, the oldest first.                 *)
lgw_receive(max_pkt) ==
  /\ lgw_is_started
  /\ IF link = "open"
     THEN /\ fifo' = SubSeq(fifo, max_pkt + 1, Len(fifo)) /\ UNCHANGED fault
     ELSE fault' = (link = "dangling") /\ UNCHANGED fifo
  /\ UNCHANGED <<lgw_is_started, confVars, lutVars, linkVars, hw_on, hw_rf, hw_if, tx>>

(* The last entry of the table, but for the first one, that does not       *)
(* exceed the power asked for; else the first.                             *)
pow_index(power) ==
  LET fit == {i \in 2..lut_size : lut[i].rf_power <= power}
  IN  IF fit = {} THEN 1 ELSE CHOOSE i \in fit : \A j \in fit : j <= i

send_ok(chain) == lgw_is_started /\ rf[chain].tx_enable /\ rf[chain].enable

(* Mutant: a packet is sent on a radio that is off.                        *)
lgw_send_disabled(chain, power) ==
  /\ lgw_is_started /\ rf[chain].tx_enable /\ link = "open"
  /\ tx' = [rf_chain |-> chain, asked |-> power, gain |-> pow_index(power)]
  /\ UNCHANGED <<lgw_is_started, confVars, lutVars, linkVars, hwVars, fault>>

lgw_send(chain, power) ==
  /\ send_ok(chain)
  /\ IF link = "dangling" THEN fault' = TRUE /\ UNCHANGED tx
     ELSE /\ tx' = [rf_chain |-> chain, asked |-> power, gain |-> pow_index(power)]
          /\ UNCHANGED fault
  /\ UNCHANGED <<lgw_is_started, confVars, lutVars, linkVars, hwVars>>

-----------------------------------------------------------------------------
(* The client.                                                             *)
Call == \/ \E c \in RfChain, conf \in RfConf : lgw_rxrf_setconf(c, conf)
        \/ \E c \in IfChain, conf \in IfConf : lgw_rxif_setconf(c, conf)
        \/ \E conf \in GainTable : lgw_txgain_setconf(conf)
        \/ lgw_start \/ lgw_stop
        \/ \E n \in 1..FifoSize : lgw_receive(n)
        \/ \E c \in RfChain, p \in Power : lgw_send(c, p)

(* The process dies, of a fault or of anything else, and another starts.   *)
(* start.sh, which the service runs, pulls the reset pin of the chip       *)
(* first; a start by hand need not.                                        *)
NewProcess ==
  /\ lgw_is_started' = FALSE /\ link' = "closed" /\ paged' = FALSE
  /\ rf' = NoRf /\ ifc' = NoIf
  /\ lut_size' = 2 /\ lut' = DefaultLut
  /\ tx' = NoTx /\ fault' = FALSE
  /\ soft_reset \/ UNCHANGED hwVars

Next == \/ ~fault /\ Call
        \/ \E c \in IfChain : Arrive(c)
        \/ NewProcess

Spec == HalInit /\ [][Next]_halVars

-----------------------------------------------------------------------------
(* Properties.                                                             *)

(* While the library counts as started, a chip that demodulates was loaded *)
(* with the configuration lgw_receive and lgw_send consult, whatever calls *)
(* have been made: setconf refuses meanwhile, and only a start that has    *)
(* loaded the chip sets lgw_is_started.                                    *)
ChipMatches == lgw_is_started /\ hw_on => hw_rf = rf /\ hw_if = ifc

(* Every packet lgw_receive could report would be reported with the        *)
(* frequency and the bandwidth it was received on: none is left in the     *)
(* FIFO from before a reconfiguration, a start that failed half-way, or    *)
(* the death of the process that had configured the chip.                  *)
ReportedAsHeard ==
  lgw_is_started => \A i \in DOMAIN fifo :
    ifc[fifo[i].if_chain] # Off /\ Reported(fifo[i].if_chain) = fifo[i]

(* A packet is only ever programmed on a radio whose transmitter lgw_start *)
(* has calibrated (it does so for radios enabled and enabled for TX).      *)
Calibrated(c) == hw_rf[c].enable /\ hw_rf[c].tx_enable
SentCalibrated == lgw_is_started /\ hw_on /\ tx # NoTx => Calibrated(tx.rf_chain)

(* The strengthening: a chip that is off holds no packets, and the radio   *)
(* of a packet sent is configured for it even while a start that failed    *)
(* has left the chip off with lgw_is_started set.                          *)
FifoWhenOn  == fifo # <<>> => hw_on
SentEnabled == lgw_is_started /\ tx # NoTx =>
                 rf[tx.rf_chain].enable /\ rf[tx.rf_chain].tx_enable
IInv == TypeOK /\ ChipMatches /\ ReportedAsHeard /\ SentCalibrated
        /\ FifoWhenOn /\ SentEnabled

(* "Parameters validity and coherency is verified by the _setconf          *)
(* functions and the _start and _send functions assume they are valid"     *)
(* (loragw_hal.c:142): lgw_send indexes the calibration offsets with       *)
(* mix_gain - 8 of any entry of the table.                                 *)
GainsValid == \A i \in 1..lut_size : gain_ok(lut[i])
=============================================================================
