------------------------------ MODULE Reception ------------------------------
(***************************************************************************)
(* One channel from its settings in the library to the packets reported on *)
(* it (loragw_hal.c): the registers lgw_start writes for a demodulator, a  *)
(* packet the demodulator finds with them, the metadata it leaves in the   *)
(* FIFO, and what lgw_receive reads out of these.  Hal.tla has the library *)
(* as its client sees it and takes a report for what was received; here    *)
(* the two meet byte by byte.                                              *)
(***************************************************************************)
EXTENDS Integers, Sequences

CONSTANTS Settings,    \* channels, as the setconf functions leave them
          OnTheAir     \* packets
VARIABLES set,         \* one channel, with both radios and the other channels' radios
          reg,         \* the registers of its demodulator
          fifo,        \* packets in the FIFO: status, size, metadata
          heard, got   \* history: the packet as it was sent; its report
vars == <<set, reg, fifo, heard, got>>

Nothing == [is |-> "nothing"]
LGW_XTAL_FREQU == 32000000

(* Long symbols are sent with a reduced rate.                              *)
SET_PPM_ON(bw, sf) == (bw = 125 /\ sf \in {11, 12}) \/ (bw = 250 /\ sf = 12)

(* C divides towards zero; the registers count steps of 15625/32 Hz.       *)
IF_HZ_TO_REG(f) == IF f >= 0 THEN (32 * f) \div 15625 ELSE -((32 * (-f)) \div 15625)

(* Bit i of the word: the radio of sensor channel i.                       *)
radio_select ==
  LET bit(i) == IF set.if_rf_chain[i] = 1 THEN 2^i ELSE 0
      upTo[i \in -1..7] == IF i < 0 THEN 0 ELSE upTo[i - 1] + bit(i)
  IN  upTo[7]

ReceptionInit ==
  /\ set \in Settings
  /\ reg = Nothing /\ fifo = <<>> /\ heard = Nothing /\ got = Nothing

-----------------------------------------------------------------------------
(* lgw_start: the registers of the channel.                                *)
Multi ==
  [is |-> "multi", radio |-> (radio_select \div (2^set.chain)) % 2,
   if |-> IF_HZ_TO_REG(set.if_freq),
   detect |-> IF set.enable THEN set.sfs ELSE {},
   ppm |-> {11, 12}]                                \* PPM_OFFSET 0x60
Std ==
  IF set.enable
  THEN [is |-> "std", radio |-> set.rf_chain, if |-> IF_HZ_TO_REG(set.if_freq),
        detect |-> set.sfs, bw |-> CASE set.bw = 125 -> 0 [] set.bw = 250 -> 1 [] set.bw = 500 -> 2,
        ppm |-> {sf \in set.sfs : SET_PPM_ON(set.bw, sf)}]
  ELSE Nothing
Fsk ==
  IF set.enable
  THEN [is |-> "fsk", radio |-> set.rf_chain, if |-> IF_HZ_TO_REG(set.if_freq),
        ratio |-> LGW_XTAL_FREQU \div set.dr]
  ELSE Nothing

Load == /\ reg = Nothing /\ heard = Nothing
        /\ reg' = CASE set.kind = "multi" -> Multi [] set.kind = "std" -> Std
                    [] OTHER -> Fsk
        /\ heard' = [is |-> "silence"]
        /\ UNCHANGED <<set, fifo, got>>

-----------------------------------------------------------------------------
(* The demodulator finds a packet of its kind, and of a spreading factor   *)
(* it looks for; cells 0, 1 and 6..9 of the metadata are its channel, its  *)
(* rates and the time the reception was noticed, in microseconds.          *)
Found(p) == \/ reg.is \in {"multi", "std"} /\ p.kind = "lora" /\ p.sf \in reg.detect
            \/ reg.is = "fsk" /\ p.kind = "fsk"
Hear ==
  /\ fifo = <<>> /\ heard.is = "silence"
  /\ \E p \in OnTheAir :
       /\ Found(p)
       /\ heard' = [is |-> "packet", p |-> p]
       /\ fifo' = <<[stat |-> p.stat, size |-> p.size, if_chain |-> set.chain,
                     rates |-> IF p.kind = "lora" THEN (16 * p.sf) + (2 * p.cr) ELSE 0,
                     time |-> p.time]>>
  /\ UNCHANGED <<set, reg, got>>

-----------------------------------------------------------------------------
(* lgw_receive.  Times are pairs of 16-bit halves; n stands for a 32-bit   *)
(* unsigned number that has wrapped when it is negative.                   *)
Minus(t, n) ==
  LET low == t[2] - n IN <<(t[1] + (low \div 65536)) % 65536, low % 65536>>
Modulo(n, m) == IF n >= 0 THEN n % m ELSE (((65536 % m) * (65536 % m)) + n) % m

Status(stat) == CASE stat % 8 = 5 -> "CRC_OK" [] stat % 8 = 7 -> "CRC_BAD"
                  [] stat % 8 = 1 -> "NO_CRC" [] OTHER -> "UNDEFINED"
crc_en(stat) == IF stat % 8 \in {5, 7} THEN 1 ELSE 0

delay_x(kind, bw) == CASE kind = "multi" -> 114 [] bw = 125 -> 64 [] bw = 250 -> 32 [] OTHER -> 16
bw_pow(kind, bw)  == CASE kind = "multi" -> 1 [] bw = 125 -> 1 [] bw = 250 -> 2 [] OTHER -> 4

(* The test for a payload within the first eight symbols is of an unsigned *)
(* number, which is never below zero.                                      *)
timestamp_correction(kind, bw, sf, cr, bytes) ==
  LET pow == bw_pow(kind, bw)
      ppm == IF SET_PPM_ON(bw, sf) THEN 1 ELSE 0
  IN  IF (2 * bytes) - (sf - 7) = 0
      THEN delay_x(kind, bw) + (((2^(sf - 1) * (sf + 1)) + (3 * 2^(sf - 4))) \div pow)
           + ((32 * ((2 * bytes) + 5)) \div pow)
      ELSE delay_x(kind, bw)
           + (((2^(sf - 1) * (sf + 1)) + ((4 - ppm) * 2^(sf - 4))) \div pow)
           + (((16 + (4 * cr)) * (Modulo((2 * bytes) - sf + 6, sf - (2 * ppm)) + 1)) \div pow)

(* The rates are taken from the metadata, the rest from the settings.      *)
Report(f) ==
  LET chain == IF set.kind = "multi" THEN set.if_rf_chain[f.if_chain] ELSE set.rf_chain
      bw    == IF set.kind = "multi" THEN 125 ELSE set.bw
      sf    == f.rates \div 16
      cr    == (f.rates \div 2) % 8
  IN  [is |-> "report", freq_hz |-> set.rf_rx_freq[chain] + set.if_freq, rf_chain |-> chain,
       status |-> Status(f.stat), size |-> f.size, bandwidth |-> bw,
       datarate |-> IF set.kind = "fsk" THEN set.dr ELSE sf,
       coderate |-> IF set.kind = "fsk" \/ cr \notin 1..4 THEN "undefined" ELSE cr,
       count_us |-> Minus(f.time,
         IF set.kind = "fsk" THEN (680000 \div set.dr) - 20
         ELSE timestamp_correction(set.kind, bw, sf, cr, f.size + (2 * crc_en(f.stat))))]

Receive == /\ fifo # <<>>
           /\ got' = Report(Head(fifo))
           /\ fifo' = Tail(fifo)
           /\ UNCHANGED <<set, reg, heard>>

ReceptionNext == Load \/ Hear \/ Receive

-----------------------------------------------------------------------------
(* Properties.                                                             *)
Reporting == got.is = "report"

(* The frequency reported is the one the demodulator listened on, radio    *)
(* and register together, to a step of the register.                       *)
FrequencyHeard ==
  Reporting =>
    LET off == (32 * (got.freq_hz - set.rf_rx_freq[reg.radio])) - (15625 * reg.if)
    IN  off \in -15624..15624

(* The rates reported are those of the packet, of a bandwidth the modem    *)
(* was set to; one of a disabled channel is never reported.                *)
RatesHeard ==
  Reporting =>
    /\ set.enable /\ got.size = heard.p.size
    /\ IF set.kind = "fsk" THEN LGW_XTAL_FREQU \div got.datarate = reg.ratio
       ELSE /\ got.datarate = heard.p.sf /\ got.coderate = heard.p.cr
            /\ set.kind = "std" => got.bandwidth = 125 * 2^reg.bw

(* The last symbols of a packet, taken as the chip sends and receives them *)
(* at the rate the registers say, were over as long before it was noticed  *)
(* as the header, the blocks behind it and the rest of the last block      *)
(* take: from three bytes on, whatever the settings, also when the counter *)
(* wraps in between.  A shorter payload ends within the first eight        *)
(* symbols, where the correction is only right by luck.                    *)
Ago(t, u) == ((65536 * ((t[1] - u[1]) % 65536)) + (t[2] - u[2]))
LoraTime ==
  Reporting /\ heard.p.kind = "lora" /\ heard.p.size >= 3 =>
    LET p      == heard.p
        slow   == p.sf \in reg.ppm
        speed  == IF set.kind = "multi" THEN 1 ELSE 2^reg.bw
        row    == IF slow THEN p.sf - 2 ELSE p.sf      \* bits of a symbol
        nibble == 2 * (p.size + (IF p.stat \in {5, 7} THEN 2 ELSE 0)) - (p.sf - 7)
        last   == ((nibble - 1) % row) + 1             \* nibbles of the last block
        chips  == (2^(p.sf - 1) * (p.sf + 1)) + (IF slow THEN 3 ELSE 4) * 2^(p.sf - 4)
    IN  Ago(p.time, got.count_us)
        = (IF set.kind = "multi" THEN 114 ELSE 64 \div speed)
          + (chips \div speed) + ((4 * (4 + p.cr) * last) \div speed)
=============================================================================
