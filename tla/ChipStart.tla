----------------------------- MODULE ChipStart -----------------------------
(***************************************************************************)
(* What lgw_start makes of the configuration on its way into the chip, and *)
(* lgw_send of a packet (loragw_hal.c): the radios behind the SPI master   *)
(* of the concentrator and the lock of their PLLs, the firmware of the two *)
(* microcontrollers, the calibration, the dialogue with the AGC firmware,  *)
(* and the metadata in front of a packet.  Hal.tla has the library as its  *)
(* client sees it; here every step of one start and one send is taken.     *)
(***************************************************************************)
EXTENDS Sx125x

CONSTANTS Confs,     \* configurations, as the setconf functions leave them
          Pkts,      \* packets lgw_send has accepted
          LUT_MAX    \* TX_GAIN_LUT_SIZE_MAX
VARIABLES conf, pkt,
          step,      \* where lgw_start is; "started" and "failed" at the end
          radio,     \* the two radios, and the lines of the SPI master
          attempts,  \* of the radio whose PLL is starting
          ret,       \* what setup_sx125x has returned, for each radio
          mcu,       \* the two microcontrollers
          peaks,     \* positions of the sync word
          agc,       \* the AGC firmware
          air        \* the metadata of the packet, once sent
chipVars == <<conf, pkt, step, radio, attempts, ret, mcu, peaks, agc, air>>

(* The tables lgw_txgain_setconf takes, and frequencies the PLLs go up to. *)
GainRow == [mix_gain : 8..15, dac_gain : 0..3, pa_gain : 0..3, rf_power : Int]
ChipAssumption ==
  /\ LUT_MAX \in Nat /\ LUT_MAX >= 5
  /\ \A c \in Confs :
       /\ \A r \in Chains : c.freq_hz[r] \in 0..(256 * Coarse(c.type[r]) - 1)
       /\ c.clkout \in Chains /\ c.radio_select \in 0..255
       /\ c.lut \in Seq(GainRow) /\ Len(c.lut) \in 1..LUT_MAX

(* The packets lgw_send accepts, and tables in ascending order of power:   *)
(* its search from the top of the table takes them to be so.               *)
Uint16 == {n \in Nat : n < 65536}
FskRates == {n \in Nat : 500 <= n /\ n <= 250000}
LoraAccepted ==
  [modulation : {"LORA"}, freq_hz : Nat, rf_chain : Chains, rf_power : Int,
   tx_mode : {"IMMEDIATE", "TIMESTAMPED", "ON_GPS"}, count_us : Uint16 \X Uint16,
   datarate : 7..12, coderate : 1..4, bandwidth : {125, 250, 500}, no_crc : BOOLEAN,
   no_header : BOOLEAN, invert_pol : BOOLEAN, preamble : Uint16, size : 0..255]
FskAccepted ==
  [modulation : {"FSK"}, freq_hz : Nat, rf_chain : Chains, rf_power : Int,
   tx_mode : {"IMMEDIATE", "TIMESTAMPED", "ON_GPS"}, count_us : Uint16 \X Uint16,
   datarate : FskRates, f_dev : 1..200, no_crc : BOOLEAN, preamble : Uint16,
   size : 0..255]
PacketAssumption ==
  /\ Pkts \subseteq LoraAccepted \cup FskAccepted /\ LUT_MAX <= 16
  /\ \A c \in Confs : \A i, j \in DOMAIN c.lut :
       i < j => c.lut[i].rf_power <= c.lut[j].rf_power

PLL_LOCK_MAX_ATTEMPTS == 5
TX_START_DELAY == 1500

-----------------------------------------------------------------------------
(* Everything up to the PLL; a radio that is not enabled stays in standby. *)
Common(c) == <<<<16, 1 + (IF conf.clkout = c THEN 2 ELSE 0)>>,
               <<IF conf.type[c] = "SX1255" THEN 40 ELSE 38, 13 + 2 * 16>>>>
Tuning(c) == LET pll == Pll(conf.type[c], conf.freq_hz[c])
             IN  <<<<8, 14 + 2 * 16>>, <<10, 3 * 32>>, <<11, 5>>,
                   <<12, 1 + (12 * 2) + 32>>, <<13, (6 * 4) + (7 * 32)>>, <<14, 0>>,
                   <<1, pll[1]>>, <<2, pll[2]>>, <<3, pll[3]>>>>
setup_sx125x(c) ==
  /\ step = <<"setup", c>> /\ attempts = 0
  /\ radio' = [radio EXCEPT ![c] =
       WriteAll(sx125x_read(@, 7), Common(c) \o (IF conf.enable[c] THEN Tuning(c) ELSE <<>>))]
  /\ IF conf.enable[c] THEN step' = <<"lock", c>> /\ UNCHANGED ret
     ELSE step' = <<"setup", c + 1>> /\ ret' = [ret EXCEPT ![c] = 0]
  /\ UNCHANGED <<conf, pkt, attempts, mcu, peaks, agc, air>>

(* Crystal and receiver on; the PLL locks, or does not yet.                *)
TryLock(c) ==
  /\ step = <<"lock", c>> /\ attempts < PLL_LOCK_MAX_ATTEMPTS
  /\ \E locked \in {0, 2} :
       LET on == [sx125x_write(sx125x_write(radio[c], 0, 1), 0, 3) EXCEPT !.regs[17] = locked]
           r  == sx125x_read(on, 17)
       IN  /\ radio' = [radio EXCEPT ![c] = r]
           /\ IF r.back = 2
              THEN step' = <<"setup", c + 1>> /\ attempts' = 0 /\ ret' = [ret EXCEPT ![c] = 0]
              ELSE attempts' = attempts + 1 /\ UNCHANGED <<step, ret>>
  /\ UNCHANGED <<conf, pkt, mcu, peaks, agc, air>>

(* lgw_start does not look at what setup_sx125x returns.                   *)
LockFails(c) ==
  /\ step = <<"lock", c>> /\ attempts = PLL_LOCK_MAX_ATTEMPTS
  /\ step' = <<"setup", c + 1>> /\ attempts' = 0 /\ ret' = [ret EXCEPT ![c] = -1]
  /\ UNCHANGED <<conf, pkt, radio, mcu, peaks, agc, air>>

-----------------------------------------------------------------------------
(* The calibration firmware runs in the AGC controller; one that does not  *)
(* say its version, or does not finish, ends the start.  What it could not *)
(* do for a radio is only warned about.                                    *)
Calibrate ==
  /\ step = <<"setup", 2>>
  /\ mcu' = [mcu EXCEPT !["AGC"] = Write(load_firmware(@, "cal"), "RST", 0)]
  /\ \E finished \in BOOLEAN :
       step' = IF Running(mcu'["AGC"]) = "cal" /\ finished THEN <<"adjust">> ELSE <<"failed">>
  /\ UNCHANGED <<conf, pkt, radio, attempts, ret, peaks, agc, air>>

lgw_constant_adjust ==
  [d \in {"RX", "MBWSSF", "TX"} |-> IF conf.lorawan_public THEN <<3, 4>> ELSE <<1, 2>>]
Adjust ==
  /\ step = <<"adjust">>
  /\ peaks' = lgw_constant_adjust
  /\ step' = <<"load">>
  /\ UNCHANGED <<conf, pkt, radio, attempts, ret, mcu, agc, air>>

LoadFirmware ==
  /\ step = <<"load">>
  /\ mcu' = [ARB |-> Write(load_firmware(mcu["ARB"], "arb"), "RST", 0),
             AGC |-> Write(load_firmware(mcu["AGC"], "agc"), "RST", 0)]
  /\ agc' = [status |-> 16, lut |-> <<>>, told |-> <<>>, waits |-> FALSE]
  /\ \E awake \in BOOLEAN :
       step' = IF /\ Running(mcu'["AGC"]) = "agc" /\ Running(mcu'["ARB"]) = "arb" /\ awake
             THEN <<"gain", 1>> ELSE <<"failed">>
  /\ UNCHANGED <<conf, pkt, radio, attempts, ret, peaks, air>>

-----------------------------------------------------------------------------
(* The AGC firmware, external: after a WAIT it takes a value, first as     *)
(* entries of the gain table until it has LUT_MAX of them or an ABORT,     *)
(* then as the bits of the TX frequency, an option, and RADIO_SELECT.  It  *)
(* may be too slow for a pair of writes and miss it.                       *)
AGC_CMD_ABORT == 17
Full(a) == Len(a.lut) = LUT_MAX \/ a.waits
AgcTakes(a, v) ==
  IF ~Full(a) /\ v = AGC_CMD_ABORT THEN [a EXCEPT !.waits = TRUE, !.status = 48]
  ELSE IF ~Full(a) THEN [a EXCEPT !.lut = Append(@, v), !.status = 48 + Len(a.lut)]
  ELSE [a EXCEPT !.told = Append(@, v), !.status = IF Len(a.told) = 2 THEN 64 ELSE 48 + v]
AgcHears(v) == {agc, AgcTakes(agc, v)}

(* The word a gain is loaded as.                                           *)
load_val(gain) == gain.mix_gain + (16 * gain.dac_gain) + (64 * gain.pa_gain)

(* The pairs lgw_start goes through: what is written, and the status that  *)
(* must be read back.                                                      *)
GainWords == [i \in DOMAIN conf.lut |-> <<load_val(conf.lut[i]), 48 + i - 1>>]
Abort     == IF Len(conf.lut) < LUT_MAX THEN <<<<AGC_CMD_ABORT, 48>>>> ELSE <<>>

Dialogue  == GainWords \o Abort \o <<<<3, 51>>, <<0, 48>>, <<conf.radio_select, 64>>>>

Tell(i) ==
  /\ step = <<"gain", i>>
  /\ agc' \in AgcHears(Dialogue[i][1])
  /\ step' = IF agc'.status # Dialogue[i][2] THEN <<"failed">>
           ELSE IF i = Len(Dialogue) THEN <<"started">> ELSE <<"gain", i + 1>>
  /\ UNCHANGED <<conf, pkt, radio, attempts, ret, mcu, peaks, air>>

-----------------------------------------------------------------------------
(* The 16 bytes in front of a packet.  count_us is a pair of 16-bit words. *)
power_index(p) ==
  LET fit == {i \in 2..Len(conf.lut) : conf.lut[i].rf_power <= p.rf_power}
  IN  IF fit = {} THEN 0 ELSE (CHOOSE i \in fit : \A j \in fit : j <= i) - 1
SET_PPM_ON(p) == \/ p.bandwidth = 125 /\ p.datarate \in {11, 12}
                 \/ p.bandwidth = 250 /\ p.datarate = 12
Bit(b, value) == IF b THEN value ELSE 0
Least(n, std, min) == IF n = 0 THEN std ELSE IF n < min THEN min ELSE n
count_trig(p) == <<(p.count_us[1] - Bit(p.count_us[2] < TX_START_DELAY, 1)) % 65536,
                   (p.count_us[2] - TX_START_DELAY) % 65536>>
TwoBytes(word) == <<word \div 256, word % 256>>

(* Mutant: without the mark for slow data rates.                           *)
ModemNoPpm(p) ==
  IF p.modulation = "LORA"
  THEN <<p.datarate + (16 * p.coderate) + Bit(~p.no_crc, 128), p.size,
         (CASE p.bandwidth = 125 -> 0 [] p.bandwidth = 250 -> 1 [] OTHER -> 2)
           + Bit(p.no_header, 4) + Bit(p.invert_pol, 16)>>
  ELSE <<p.f_dev, p.size, 1 + Bit(~p.no_crc, 2) + 8>>

Modem(p) ==
  IF p.modulation = "LORA"
  THEN <<p.datarate + (16 * p.coderate) + Bit(~p.no_crc, 128), p.size,
         (CASE p.bandwidth = 125 -> 0 [] p.bandwidth = 250 -> 1 [] OTHER -> 2)
           + Bit(p.no_header, 4) + Bit(SET_PPM_ON(p), 8) + Bit(p.invert_pol, 16)>>
  ELSE <<p.f_dev, p.size, 1 + Bit(~p.no_crc, 2) + 8>>

(* In front of the modem's fields the frequency, of whose two highest bits *)
(* the filters are made, the time and the place; behind them the length of *)
(* the preamble and, of FSK, the divisor of the clock.                     *)
IsLora(p) == p.modulation = "LORA"
High(p) ==
  LET pll == Pll(conf.type[0], p.freq_hz)
  IN  IF ~IsLora(p) THEN pll[1] % 128
      ELSE (pll[1] % 64) + (CASE p.bandwidth = 500 -> 128 [] p.bandwidth = 125 -> 64
                              [] OTHER -> 0)
When(p) == IF p.tx_mode = "TIMESTAMPED"
           THEN TwoBytes(count_trig(p)[1]) \o TwoBytes(count_trig(p)[2]) ELSE <<0, 0, 0, 0>>
Place(p) == (32 * p.rf_chain) + Bit(~IsLora(p), 16) + power_index(p)
Before(p) == IF IsLora(p) THEN Least(p.preamble, 6, 4) ELSE Least(p.preamble, 5, 3)
Speed(p) == IF IsLora(p) THEN <<0, 0>> ELSE TwoBytes((32000000 \div p.datarate) % 65536)

Metadata(p) ==
  LET pll == Pll(conf.type[0], p.freq_hz)
  IN  <<High(p), pll[2], pll[3]>> \o When(p) \o <<Place(p), 0>> \o Modem(p)
        \o TwoBytes(Before(p)) \o Speed(p)

SendPacket ==
  /\ step = <<"started">> /\ air = <<>>
  /\ air' = <<Metadata(pkt)>>
  /\ UNCHANGED <<conf, pkt, step, radio, attempts, ret, mcu, peaks, agc>>

-----------------------------------------------------------------------------
ChipInit ==
  /\ conf \in Confs /\ pkt \in Pkts
  /\ step = <<"setup", 0>> /\ attempts = 0
  /\ radio = [c \in Chains |-> Dark] /\ ret = [c \in Chains |-> 1]
  /\ mcu = [t \in {"ARB", "AGC"} |-> [reset |-> 1, own |-> 1, program |-> "none"]]
  /\ peaks = [d \in {"RX", "MBWSSF", "TX"} |-> <<1, 2>>]
  /\ agc = [status |-> 0, lut |-> <<>>, told |-> <<>>, waits |-> FALSE]
  /\ air = <<>>

ChipNext ==
  \/ \E c \in Chains : setup_sx125x(c) \/ TryLock(c) \/ LockFails(c)
  \/ Calibrate \/ Adjust \/ LoadFirmware
  \/ \E i \in 1..(LUT_MAX + 4) : Tell(i)
  \/ SendPacket

ChipSpec == ChipInit /\ [][ChipNext]_chipVars

-----------------------------------------------------------------------------
(* A radio whose setup has succeeded has its PLL locked, and at the        *)
(* frequency it was configured for, to one step; one that is not enabled   *)
(* has been told nothing but its clock, and exactly one gives the clock.   *)
Tuned ==
  /\ \A c \in Chains : ret[c] = 0 =>
       IF conf.enable[c]
       THEN /\ radio[c].regs[17] = 2 /\ radio[c].regs[0] = 3
            /\ Near(conf.type[c], [i \in 1..3 |-> radio[c].regs[i]], conf.freq_hz[c])
       ELSE radio[c].regs[0] = 0
  /\ (\A c \in Chains : ret[c] # 1) =>
       {c \in Chains : radio[c].regs[16] = 3} = {conf.clkout}

(* What the chip sends is synchronised as what both kinds of demodulator   *)
(* listen for, and a start without an error has the three firmwares in     *)
(* their places.                                                           *)
SameNetwork ==
  /\ step[1] \in {"load", "gain", "started"} =>
       peaks["TX"] = peaks["RX"] /\ peaks["TX"] = peaks["MBWSSF"]
         /\ peaks["TX"] = (IF conf.lorawan_public THEN <<3, 4>> ELSE <<1, 2>>)
  /\ step[1] = "started" => Running(mcu["AGC"]) = "agc" /\ Running(mcu["ARB"]) = "arb"

(* A start that succeeds leaves the AGC firmware with the gain table, all  *)
(* of it and in order, and with the three words that follow, although the  *)
(* firmware may miss any pair of writes: the statuses tell them apart.     *)
AgcHasTable ==
  step[1] = "started" => /\ agc.lut = [i \in DOMAIN conf.lut |-> load_val(conf.lut[i])]
                       /\ agc.told = <<3, 0, conf.radio_select>>

ChipReady == Tuned /\ SameNetwork /\ AgcHasTable

(* What is read from the bytes in front of a packet.  The frequency, of    *)
(* which the firmware has the two highest bits from the start, so that it  *)
(* must be within 768 and 1024 MHz, half of that for an SX1255:            *)
SentAsLora(b) == (b[8] \div 16) % 2 = 0
OnFrequency(b) ==
  LET type == conf.type[0]
  IN  SentAsLora(b) /\ pkt.freq_hz \in (192 * Coarse(type))..(256 * Coarse(type) - 1) =>
        Near(type, <<(b[1] % 64) + (64 * agc.told[1]), b[2], b[3]>>, pkt.freq_hz)
(* the radio and the power, the greatest in the table not above it;        *)
FromRadio(b) ==
  LET gain == agc.lut[(b[8] % 16) + 1]
  IN  /\ b[8] \div 32 = pkt.rf_chain
      /\ \A i \in DOMAIN conf.lut : conf.lut[i].rf_power <= pkt.rf_power =>
           \E j \in DOMAIN conf.lut : /\ load_val(conf.lut[j]) = gain
                                      /\ conf.lut[j].rf_power \in conf.lut[i].rf_power..pkt.rf_power
(* the time, less the delay of the transmitter;                            *)
InTime(b) ==
  pkt.tx_mode = "TIMESTAMPED" =>
    LET time == <<(b[4] * 256) + b[5], (b[6] * 256) + b[7]>>
        late == (time[2] + TX_START_DELAY) \div 65536
    IN  pkt.count_us = <<(time[1] + late) % 65536, (time[2] + TX_START_DELAY) % 65536>>
(* the modulation, and of LoRa its fields, slow data rates marked.         *)
AsModulated(b) ==
  /\ SentAsLora(b) <=> pkt.modulation = "LORA"
  /\ SentAsLora(b) =>
       /\ b[10] % 16 = pkt.datarate /\ (b[10] \div 16) % 8 = pkt.coderate
       /\ (b[10] >= 128 <=> ~pkt.no_crc) /\ b[11] = pkt.size
       /\ (b[1] >= 128 <=> b[12] % 4 = 2) /\ ((b[1] \div 64) % 2 = 1 <=> b[12] % 4 = 0)
       /\ 125 * 2^(b[12] % 4) = pkt.bandwidth
       /\ ((b[12] \div 8) % 2 = 1) <=> (1000 * 2^(b[10] % 16)) \div pkt.bandwidth >= 16000
       /\ (b[13] * 256) + b[14] >= 4

(* The bytes in front of a packet are bytes, and what the modem and the    *)
(* AGC firmware read from them is what was asked for.                      *)
OnAir == air # <<>> => LET b == air[1]
                       IN  /\ Len(b) = 16 /\ \A i \in DOMAIN b : b[i] \in 0..255
                           /\ OnFrequency(b) /\ FromRadio(b) /\ InTime(b) /\ AsModulated(b)
=============================================================================
