---------------------------- MODULE MCSequential ----------------------------
(***************************************************************************)
(* The parts of the system that run in one thread, side by side: `part`    *)
(* says which one a behaviour is about, and the variables of the others    *)
(* do not change.                                                          *)
(***************************************************************************)
EXTENDS Startup, DiffieHellman, ChipStart, TLC

VARIABLES part,
          code, decoded,                                        \* Base64
          job, result,                                          \* Encryption
          input, settings, report, message, packet, sent, ended,   \* Frame
          disk, interval, place, todo, section, now, log_start_time, time_check,
          log, batch, fetched, exit_sig, quit_sig,              \* PacketLogger
          channel, demod, inbox, heard, got,                    \* Reception
          line, asked, phase, cycle_count, txstatus, payloads, lost, told, toldQuit,   \* TxTest
          args, chosen, stage, sx, firmware, chipreg, buff, signal, signalQuit,   \* TxContinuous
          test, round, iter, cycle_number, test_value, read_value, versions, cell,
          faults, garbled, quit,                                \* SpiStress
          fd, serial_buff, gps_time, gps_time_ok, gps_pos, gps_pos_ok, gps_mod, gps_sat,
          solution, spoilt, rmc, gga,                           \* Nmea
          rate, second, count, ref, aber_min1, aber_min2, offered, right, settled, wild,
                                                                \* TimeReference
          document, written, progress, intact, readback         \* JsonText

-----------------------------------------------------------------------------
(* Startup: plans that fill the chains or leave some, with and without     *)
(* spreading factors and bandwidths, and too long or empty ones.           *)
Modems == [c \in 0..9 |-> IF c < 8 THEN "multi" ELSE IF c = 8 THEN "std" ELSE "fsk"]
At(f, sf, band) == [freq |-> 866100000 + 200000 * f, sf |-> sf, band |-> band]
Row(a, b, sf, band) == [i \in 1..(b - a + 1) |-> At(a + i - 1, sf, band)]
SomePlans ==
  {<<>>,
   Row(0, 4, 0, 125000),
   Row(0, 7, 0, 125000) \o <<At(3, 7, 250000), At(8, 9, 125000), At(9, 0, 125000)>>,
   [Row(0, 9, 12, 125000) EXCEPT ![4].freq = 866600000, ![5].freq = 866700000],
   Row(0, 10, 7, 125000),
   <<At(0, 7, 125000), At(5, 8, 250000)>>,
   <<At(0, 0, 125000), At(1, 10, 62500), At(8, 0, 125000)>>,
   <<At(2, 6, 62500)>>}
Tables == {<<[mix_gain |-> 8, rf_power |-> 0], [mix_gain |-> 12, rf_power |-> 14]>>,
           <<[mix_gain |-> 8, rf_power |-> 0], [mix_gain |-> 16, rf_power |-> 6],
             [mix_gain |-> 12, rf_power |-> 14]>>}
Kinds == {[c \in 0..1 |-> [type |-> "SX1257", tx_enable |-> TRUE]],
          [c \in 0..1 |-> [type |-> IF c = 0 THEN "SX1255" ELSE "none", tx_enable |-> c = 0]]}
Configs  == {[txlut |-> t, radio |-> k, if_chain |-> 5] : t \in Tables, k \in Kinds}
OneConfig == CHOOSE c \in Configs : TRUE
Radios   == {rfconf(cf, p, c) : cf \in Configs, p \in SomePlans, c \in 0..1}
Channels == UNION {{ifconf(cf, p, f) : f \in Freqs(p)} : cf \in Configs, p \in SomePlans}

-----------------------------------------------------------------------------
B == INSTANCE Base64 WITH
       input <- code, output <- decoded,
       ByteStrings <- UNION {[1..n -> {0, 77, 255}] : n \in 0..4},
       Texts <- UNION {[1..n -> {0, 41, 63, 64, 65}] : n \in 1..5}

ASSUME ExchangeAssumption
ASSUME ChipAssumption
ASSUME PacketAssumption

E == INSTANCE Encryption WITH
       W <- 8, H <- 16, DELTA <- 185, Lengths <- 1..3, Bytes <- {0, 1, 7, 128, 255},
       Messages <- UNION {[1..n -> {0, 155, 255}] : n \in 1..3},
       Keys <- {<<0, 0, 0, 0>>, <<1, 2, 3, 4>>, <<200, 17, 99, 255>>}

-----------------------------------------------------------------------------
(* JsonText: values of each kind; numbers, escapes, the first bytes of     *)
(* each class of UTF-8 and tokens in every order, up to a length.          *)
S == INSTANCE SequencesExt
Words(parts, n) == {S!FlattenSeq(w) : w \in UNION {[1..i -> parts] : i \in 0..n}}
Quote(s)   == <<34>> \o s \o <<34>>
Member(s)  == Quote(<<97>>) \o <<58>> \o s
Escape(s)  == <<92, 117>> \o s
Tokens     == {<<123>>, <<125>>, <<91>>, <<93>>, <<44>>, <<58>>, Quote(<<97>>), <<49, 32>>,
               <<116, 114, 117, 101>>}
Infinite   == <<49, 101, 57, 57, 57>>
NumberTexts ==
  Words({<<48>>, <<50>>, <<45>>, <<46>>, <<69>>}, 4)
  \cup {<<49>> \o w : w \in Words({<<101>>, <<43>>, <<45>>, <<48>>}, 4)}
  \cup {<<50, 53, 53>>, <<50, 53, 54>>, <<45, 49, 50, 56>>, <<45, 49, 50, 57>>, Infinite}
StringTexts ==
  {Quote(w) : w \in Words({Escape(s) : s \in {<<100, 56, 48, 48>>, <<68, 98, 70, 102>>,
     <<100, 99, 48, 48>>, <<48, 48, 52, 97>>, <<48, 48, 69, 52>>, <<50, 48, 97, 99>>, <<48, 49>>}}
     \cup {<<92, 110>>, <<92, 47>>}, 2)}
  \cup {Quote(SubSeq(<<a, b, c, d>>, 1, n)) :
     a \in {128, 193, 194, 223, 224, 225, 236, 237, 239, 240, 241, 243, 244, 245},
     b \in {127, 128, 143, 144, 159, 160, 191, 192}, c \in {127, 128, 191}, d \in {128, 192},
     n \in 1..4}
TokenTexts ==
  Words(Tokens, 2)
  \cup {<<91>> \o w \o <<93>> : w \in Words(Tokens, 3)}
  \cup {<<123>> \o Member(w) \o <<125>> : w \in Words(Tokens, 3)}
  \cup {<<123>> \o Member(<<49, 44>>) \o Quote(<<97>>) \o w \o <<125>> : w \in Words(Tokens, 2)}
J == INSTANCE JsonText WITH
       doc <- document, text <- written, place <- progress, whole <- intact, got <- readback,
       W <- 8, MaxMembers <- 2, Keys <- {<<97>>, <<98, 34>>}, Damage <- {0, 34, 44},
       Huge <- {Infinite}, Texts <- UNION {NumberTexts, StringTexts, TokenTexts},
       Members <-
         {[str |-> <<10, 92, 195, 164>>], [str |-> <<31, 47>>], [int |-> -128], [str |-> <<192, 128>>],
          [obj |-> (<<97>> :> [arr |-> <<[lit |-> "null"], [float |-> <<45, 48>>], [int |-> 255],
                                         [obj |-> <<>>]>>])]}

-----------------------------------------------------------------------------
(* Frame: packets with each bad CRC, type, setting and short size, under   *)
(* the session key and another one; and texts with each name, with network *)
(* parameters complete, in part, too many, or none, with every size of     *)
(* data around the payload's.                                              *)
Session == "K"
Device == INSTANCE Frame WITH fault <- ended, SessionKey <- Session, Joined <- 0, Inputs <- {}
Up(data, seq, key, size, typeAck, crc, bw, dr, cr) ==
  [status |-> crc, devId |-> "D", data |-> data, seq |-> seq, typeAck |-> typeAck,
   closed |-> [key |-> key, plain |-> Device!DeviceFrame(data, seq)],
   size |-> IF size = 0 THEN 4 + Len(Device!DeviceFrame(data, seq)) ELSE size,
   freq_hz |-> 866100000 + 200000 * bw, rf_chain |-> bw % 2,
   bandwidth |-> bw, datarate |-> dr, coderate |-> cr]
HeardPackets ==
  {Up(<<>>, 0, Session, 0, t, "STAT_CRC_OK", 3, 2, 1) : t \in {0, 32, 38, 64, 66, 96, 102, 161, 224}}
  \cup {Up(d, s, k, 0, 32, "STAT_CRC_OK", 3, 8, 2) :
         d \in {<<>>, <<7>>, <<1, 2, 3>>}, s \in {0, 255, 256, 65535}, k \in {Session, "other"}}
  \cup {Up(<<1>>, 9, Session, 0, 32, "STAT_CRC_OK", b, d, c) :
         b \in 0..8, d \in {0, 2, 4, 8, 16, 32, 64, 126}, c \in 0..4}
  \cup {Up(<<>>, 0, "other", n, t, "STAT_CRC_OK", 3, 2, 1) : n \in 3..12, t \in {0, 32}}
  \cup {Up(<<>>, 0, Session, 0, 32, s, 3, 2, 1) : s \in {"STAT_CRC_BAD", "STAT_NO_CRC"}}
Net(t, n, b, cr, power, sf) ==
  [type |-> t, freqs |-> [i \in 1..n |-> 866100000 + 200000 * i],
   band |-> b, cr |-> cr, power |-> power, sf |-> sf]
Nets ==
  {<<Net("NORMAL", 3, 125000, "4/5", 5, 9), Net("EMER", 3, 125000, "4/5", 10, 8),
     Net("REG", 1, 125000, "4/5", 15, 12)>>,
   <<Net("EMER", 15, 500000, "4/8", 0, 7)>>, <<Net("REG", 0, 250000, "4/7", 14, 11)>>,
   <<Net("REG", 16, 125000, "4/6", 20, 0)>>, <<>>, <<[sf |-> 12]>>,
   <<[type |-> "EMER", power |-> 15],
     [type |-> "REG", freqs |-> <<863000000, 888500000>>, cr |-> "4/8"]>>,
   <<[type |-> "REG", freqs |-> <<>>, band |-> 500000, sf |-> 10]>>}
Body(d, net, n) ==
  [dev_id |-> d, power |-> 14, net_data |-> net, app_data |-> [i \in 1..n |-> i % 256]]
Text(name, body) == [message_name |-> name, message_body |-> body]
ServerTexts ==
  {Text(name, Body("D", net, n)) :
     name \in {"TXL", "REGA"}, net \in Nets, n \in {0, 1, 2, 3, 5, 224, 250}}
  \cup {Text(name, Body(d, <<>>, 0)) :
     name \in {"TXL", "REGA", "KEYA", "SETA", "ERROR", "NEWS"}, d \in {"D", "E"}}
  \cup {Text("KEYA", <<>>), Text("TXL", [dev_id |-> "D"]), [message_body |-> <<>>],
        [message_name |-> "TXL"], [message_name |-> "SETA"],
        [conf |-> 1, message_name |-> "TXL"]}
Usual == Up(<<5>>, 77, Session, 0, 32, "STAT_CRC_OK", 3, 16, 1)

F == INSTANCE Frame WITH
       fault <- ended, SessionKey <- Session,
       Joined <- [frequency |-> 866700000, bandwidth |-> 125000, datarate |-> 10,
                  coderate |-> "4/5", rfChain |-> 1],
       Inputs <- [heard : HeardPackets, text : {Text("TXL", Body("D", <<>>, 1))}]
                 \cup [heard : {Usual}, text : ServerTexts]

-----------------------------------------------------------------------------
(* ChipStart: each kind of radio and configuration with one packet, and    *)
(* one configuration with packets of each kind.                            *)
LutRow(m, p, r) == [mix_gain |-> m, dac_gain |-> 3, pa_gain |-> p, rf_power |-> r]
Luts == {<<LutRow(8, 0, 0)>>, <<LutRow(8, 0, 0), LutRow(12, 2, 14)>>,
         <<LutRow(8, 0, 0), LutRow(9, 1, 3), LutRow(10, 2, 10), LutRow(11, 1, 12),
           LutRow(15, 3, 20)>>}
Boards ==
  {c \in [type : {[r \in 0..1 |-> t] : t \in {"SX1255", "SX1257"}},
          enable : {[r \in 0..1 |-> TRUE], [r \in 0..1 |-> r = 0]},
          freq_hz : {[r \in 0..1 |-> 867500000 + 1000000 * r], [r \in 0..1 |-> 433300001 + 7 * r]},
          clkout : {0, 1}, lorawan_public : BOOLEAN, lut : Luts, radio_select : {0, 240}] :
     c.type[0] = "SX1255" <=> c.freq_hz[0] < 500000000}
Lora(f, c, power, mode, dr, cr, bw, bare, n, s) ==
  [freq_hz |-> f, rf_chain |-> c, rf_power |-> power, tx_mode |-> mode,
   count_us |-> <<s, 700 * dr>>, modulation |-> "LORA", datarate |-> dr, coderate |-> cr,
   bandwidth |-> bw, no_crc |-> bare, no_header |-> bare, invert_pol |-> TRUE,
   preamble |-> n, size |-> s]
FskPacket(n) == [freq_hz |-> 868300000, rf_chain |-> 0, rf_power |-> 10, tx_mode |-> "IMMEDIATE",
           count_us |-> <<0, 0>>, modulation |-> "FSK", datarate |-> 50000, f_dev |-> 25,
           no_crc |-> FALSE, preamble |-> n, size |-> 12]
Packets ==
  {Lora(868100000 + 12345 * dr, 0, 2 * dr - 10, "TIMESTAMPED", dr, cr, bw, FALSE, 0, 255) :
     dr \in 7..12, cr \in 1..4, bw \in {125, 250, 500}}
  \cup {Lora(f, 1, 14, m, 7, 1, 125, TRUE, n, 0) :
     f \in {433300001, 768000000, 1020000000}, m \in {"IMMEDIATE", "TIMESTAMPED"}, n \in {1, 8}}
  \cup {FskPacket(n) : n \in {0, 2, 100}}
OneBoard  == CHOOSE c \in Boards : c.type[0] = "SX1257" /\ c.clkout = 0 /\ Len(c.lut) = 5
OnePacket == CHOOSE p \in Packets : p.modulation = "LORA"

-----------------------------------------------------------------------------
(* Reception: each kind of channel on each radio, and packets around the   *)
(* sizes at which a block of symbols ends, before and after the counter    *)
(* wraps.                                                                  *)
On(kind, chain, enable, rf_chain, offset, bw, sfs, dr) ==
  [kind |-> kind, chain |-> chain, enable |-> enable, rf_chain |-> rf_chain,
   if_rf_chain |-> [i \in 0..7 |-> IF i = chain THEN rf_chain ELSE 1 - rf_chain],
   rf_rx_freq |-> [r \in 0..1 |-> 867500000 + 1000000 * r], if_freq |-> offset,
   bw |-> bw, sfs |-> sfs, dr |-> dr]
Listening ==
  {On("multi", c, e, r, o, 125, s, 0) :
     c \in {0, 7}, e \in BOOLEAN, r \in 0..1, o \in {-400000, 133333}, s \in {{7, 9, 12}, 7..12}}
  \cup {On("std", 8, e, r, -200001, b, {f}, 0) :
     e \in BOOLEAN, r \in 0..1, b \in {125, 250, 500}, f \in 7..12}
  \cup {On("fsk", 9, e, 0, 300000, 250, {}, d) : e \in BOOLEAN, d \in {500, 50000, 250000}}
InTheAir ==
  {[kind |-> "lora", sf |-> f, cr |-> c, size |-> n, stat |-> s, time |-> t] :
     f \in 7..12, c \in {1, 4}, n \in (0..4) \cup {9, 10, 255}, s \in {5, 7, 1},
     t \in {<<0, 13>>, <<700, 65000>>}}
  \cup {[kind |-> "fsk", size |-> 12, stat |-> s, time |-> <<0, 5>>] : s \in {5, 7, 1, 3}}

R == INSTANCE Reception WITH
       set <- channel, reg <- demod, fifo <- inbox, Settings <- Listening, OnTheAir <- InTheAir

-----------------------------------------------------------------------------
(* Hal by itself: one radio can be tuned in two ways, for one of which it  *)
(* is switched off, another is not configured at all; one IF chain; gain   *)
(* tables of three and of none.                                            *)
H == INSTANCE Hal WITH
       IfChain <- {0}, ifmod_config <- [c \in {0} |-> "std"],
       FifoSize <- 1,
       RfConf <-
         {[enable |-> TRUE,  freq_hz |-> 867300000, type |-> "SX1257", tx_enable |-> TRUE],
          [enable |-> FALSE, freq_hz |-> 868500000, type |-> "SX1257", tx_enable |-> TRUE],
          [enable |-> TRUE,  freq_hz |-> 868500000, type |-> "none",   tx_enable |-> TRUE]},
       IfConf <-
         {[enable |-> TRUE, rf_chain |-> r, freq_hz |-> o, bandwidth |-> 0, datarate |-> {}] :
            r \in {0, 2}, o \in {200000, 450000}}
         \cup {[enable |-> FALSE, rf_chain |-> 0, freq_hz |-> 200000, bandwidth |-> 0, datarate |-> {}],
               [enable |-> TRUE, rf_chain |-> 1, freq_hz |-> -200000,
                bandwidth |-> 125, datarate |-> {7}]},
       GainTable <- {<<[mix_gain |-> 8, rf_power |-> 0], [mix_gain |-> 9, rf_power |-> 6],
                       [mix_gain |-> 12, rf_power |-> 14]>>, <<>>}

-----------------------------------------------------------------------------
(* PacketLogger: radios and channels that one file has and the other has,  *)
(* has off, has wrong, or does not have.                                   *)
Absent == [is |-> "absent"]
File(sections) == [is |-> "full", conf |-> sections]
Switched(on, f, type) == [enable |-> on, freq |-> f, type |-> type, tx_enable |-> FALSE]
Channel(on, r, o) == [enable |-> on, radio |-> r, if |-> o, bandwidth |-> 0, datarate |-> {}]
Wide == File((<<"radio", 0>> :> Switched(TRUE, 867500000, "SX1257"))
             @@ (<<"radio", 1>> :> Switched(TRUE, 868500000, "SX1255"))
             @@ (<<"chan", 0>> :> Channel(TRUE, 0, -200000))
             @@ (<<"chan", 8>> :> Channel(TRUE, 1, 200000)))
Locals ==
  {Absent, [is |-> "broken"], [is |-> "bare"], File(<<"chan", 8>> :> Channel(FALSE, 0, 0)),
   File(<<"radio", 1>> :> Switched(FALSE, 0, "none")),
   File(<<"radio", 0>> :> Switched(TRUE, 867100000, "missing")),
   File(<<"radio", 0>> :> Switched(TRUE, 867100000, "SX1257")
        @@ (<<"radio", 1>> :> Switched(TRUE, 868100000, "SX1276"))
        @@ (<<"chan", 0>> :> Channel(TRUE, 0, 450000)) @@ (<<"chan", 8>> :> Channel(TRUE, 2, 0)))}
L == INSTANCE PacketLogger WITH
       pc <- place, at <- section, FifoSize <- 2, ARRAY_SIZE <- 1, CheckEvery <- 2,
       MaxTime <- 2, MaxFetched <- 2, MaxLogs <- 2, Intervals <- {-2, -1, 0, 1},
       Disks <- {[debug |-> Absent, global |-> g, local |-> l] : g \in {Absent, Wide}, l \in Locals}
                \cup {[debug |-> Wide, global |-> Absent, local |-> [is |-> "broken"]]}

-----------------------------------------------------------------------------
(* The test tools: command lines that are complete, that lack something,   *)
(* or that name a value out of its range.                                  *)
Asked(more) == [freq |-> 866700, type |-> 1257] @@ more
X == INSTANCE TxTest WITH
       given <- line, opt <- asked, pc <- phase, status <- txstatus, exit_sig <- told,
       quit_sig <- toldQuit,
       WordSize <- 4, MaxSent <- 6,
       CommandLines <-
         {<<>>, [freq |-> 433000], [type |-> 1255], Asked([clock |-> 1]), Asked([pow |-> 61]),
          Asked([size |-> 256]), Asked([size |-> 65536 + 255, repeat |-> 1])}
         \cup {[freq |-> f, type |-> 1257, repeat |-> 1] : f \in {29999, 30000, 2100000, 3000001}}
         \cup {Asked([repeat |-> n]) : n \in -2..5}
         \cup {[freq |-> 433300, type |-> 1255, sf |-> 13 - n, repeat |-> 1] : n \in 0..1}

V == INSTANCE TxContinuous WITH
       given <- args, opt <- chosen, pc <- stage, radio <- sx, mcu <- firmware, reg <- chipreg,
       exit_sig <- signal, quit_sig <- signalQuit,
       CommandLines <-
         {[freq |-> f, radio |-> r, mod |-> m, bw |-> b] :
            f \in {433300001, 700000000, 863012345}, r \in 0..1, m \in {"LORA", "FSK", "CW"},
            b \in {125, 250, 500}}
         \cup {<<>>, [mix |-> 16], [dac |-> 4], [sf |-> 12, br |-> 500, mod |-> "FSK"],
               [freq |-> 1030000000], [freq |-> 700000001],
               [freq |-> 5000001], [mod |-> "NONE"], [freq |-> 1000]}

T == INSTANCE SpiStress WITH
       pc <- round, i <- iter, exit_sig <- quit,
       Value <- 0..1, repeats_per_cycle <- 2, MaxCycle <- 2, MaxFault <- 2

-----------------------------------------------------------------------------
(* The GPS: sentences with all fields, with one left out, broken off or    *)
(* unknown, and with a field too many; and crystals that are exact, slow   *)
(* and fast.                                                               *)
Sentence(label, n, cells) == [label : {label}, cells : cells, fields : {n}, sum : {0}]
N == INSTANCE Nmea WITH
       got <- solution, garbled <- spoilt,
       Sentences <-
         Sentence("$GPRMC", 13, {<<1, 1, 1>>, <<3, 0, 2>>, <<2, 2, 0>>})
         \cup Sentence("$GPGGA", 15, {<<1, 1, 2, 2>>, <<3, 2, 0, 1>>})
         \cup Sentence("$GPRMC", 14, {<<2, 2, 1>>})

G == INSTANCE TimeReference WITH
       now <- second, TS_CPS <- 20, NS <- 100, Wrap <- 128, TOL <- 10, Rates <- {19, 20, 21},
       Gaps <- {1, 2, 10}, Errors <- {100, -100}, Epoch <- 1000, MaxTime <- 1012

-----------------------------------------------------------------------------
Bvars == <<code, decoded>>
Evars == <<job, result>>
Fvars == <<input, settings, report, message, packet, sent, ended>>
Lvars == <<disk, interval, place, todo, section, now, log_start_time,
           time_check, log, batch, fetched, exit_sig, quit_sig>>
Rvars == <<channel, demod, inbox, heard, got>>
Xvars == <<line, asked, phase, cycle_count, txstatus, payloads, lost, told, toldQuit>>
Wvars == <<args, chosen, stage, sx, firmware, chipreg, buff, signal, signalQuit>>
Tvars == <<test, round, iter, cycle_number, test_value, read_value, versions,
           cell, faults, garbled, quit>>
Nvars == <<fd, serial_buff, gps_time, gps_time_ok, gps_pos, gps_pos_ok, gps_mod,
           gps_sat, solution, spoilt, rmc, gga>>
Gvars == <<rate, second, count, ref, aber_min1, aber_min2, offered, right,
           settled, wild>>
Jvars == <<document, written, progress, intact, readback>>

SeqInit ==
  /\ part \in {"hal", "startup", "base64", "exchange", "cipher", "frame", "logger", "receive",
              "txtest", "continuous", "stress", "nmea", "time", "json", "chip"}
  /\ IF part = "startup" THEN StartInit
     ELSE /\ IF part = "hal" THEN H!HalInit ELSE HalInit
          /\ config = OneConfig /\ plan = <<>> /\ pc = "idle" /\ at = 0 /\ status = "none"
          /\ joinable = FALSE /\ setas = 0 /\ refused = FALSE
  /\ IF part = "base64" THEN B!Init
     ELSE code = 0 /\ decoded = 0
  /\ IF part = "exchange" THEN ExchangeInit
     ELSE exchange = 0 /\ half = None /\ session = None
  /\ IF part = "cipher" THEN E!Init
     ELSE job = 0 /\ result = 0
  /\ IF part = "frame" THEN F!Init
     ELSE input = 0 /\ settings = 0 /\ report = 0 /\ message = 0 /\ packet = 0 /\ sent = 0 /\
          ended = 0
  /\ IF part = "logger" THEN L!LoggerInit
     ELSE disk = 0 /\ interval = 0 /\ place = 0 /\ todo = 0 /\ section = 0 /\ now = 0 /\
          log_start_time = 0 /\ time_check = 0 /\ log = 0 /\ batch = 0 /\ fetched =
          0 /\ exit_sig = 0 /\ quit_sig = 0
  /\ IF part = "receive" THEN R!ReceptionInit
     ELSE channel = 0 /\ demod = 0 /\ inbox = 0 /\ heard = 0 /\ got = 0
  /\ IF part = "txtest" THEN X!TestInit
     ELSE line = 0 /\ asked = 0 /\ phase = 0 /\ cycle_count = 0 /\ txstatus = 0 /\ payloads =
          0 /\ lost = 0 /\ told = 0 /\ toldQuit = 0
  /\ IF part = "continuous" THEN V!ContinuousInit
     ELSE args = 0 /\ chosen = 0 /\ stage = 0 /\ sx = 0 /\ firmware = 0 /\ chipreg = 0 /\ buff
          = 0 /\ signal = 0 /\ signalQuit = 0
  /\ IF part = "stress" THEN T!StressInit
     ELSE test = 0 /\ round = 0 /\ iter = 0 /\ cycle_number = 0 /\ test_value = 0 /\
          read_value = 0 /\ versions = 0 /\ cell = 0 /\ faults = 0 /\ garbled = 0 /\
          quit = 0
  /\ IF part = "nmea" THEN N!NmeaInit
     ELSE fd = 0 /\ serial_buff = 0 /\ gps_time = 0 /\ gps_time_ok = 0 /\ gps_pos = 0 /\
          gps_pos_ok = 0 /\ gps_mod = 0 /\ gps_sat = 0 /\ solution = 0 /\ spoilt = 0
          /\ rmc = 0 /\ gga = 0
  /\ IF part = "time" THEN G!ReferenceInit
     ELSE rate = 0 /\ second = 0 /\ count = 0 /\ ref = 0 /\ aber_min1 = 0 /\ aber_min2 = 0 /\
          offered = 0 /\ right = 0 /\ settled = 0 /\ wild = 0
  /\ IF part = "json" THEN J!Init
     ELSE document = 0 /\ written = 0 /\ progress = 0 /\ intact = 0 /\ readback = 0
  /\ IF part = "chip" THEN ChipInit /\ (pkt = OnePacket \/ conf = OneBoard)
     ELSE conf = OneBoard /\ pkt = OnePacket /\ ChipInit

SeqNext ==
  /\ UNCHANGED part
  /\ \/ part = "startup" /\ StartNext
        /\ UNCHANGED <<Bvars, exchangeVars, Evars, Fvars, Lvars, Rvars, Xvars, Wvars, Tvars, Nvars,
                     Gvars, Jvars, chipVars>>
     \/ part = "hal" /\ H!Next
        /\ UNCHANGED <<startVars, Bvars, exchangeVars, Evars, Fvars, Lvars, Rvars, Xvars, Wvars,
                     Tvars, Nvars, Gvars, Jvars, chipVars>>
     \/ part = "base64" /\ B!Next
        /\ UNCHANGED <<halVars, startVars, exchangeVars, Evars, Fvars, Lvars, Rvars, Xvars, Wvars,
                     Tvars, Nvars, Gvars, Jvars, chipVars>>
     \/ part = "exchange" /\ ExchangeNext
        /\ UNCHANGED <<halVars, startVars, Bvars, Evars, Fvars, Lvars, Rvars, Xvars, Wvars,
                     Tvars, Nvars, Gvars, Jvars, chipVars>>
     \/ part = "cipher" /\ E!Next
        /\ UNCHANGED <<halVars, startVars, Bvars, exchangeVars, Fvars, Lvars, Rvars, Xvars, Wvars,
                     Tvars, Nvars, Gvars, Jvars, chipVars>>
     \/ part = "frame" /\ F!Next
        /\ UNCHANGED <<halVars, startVars, Bvars, exchangeVars, Evars, Lvars, Rvars, Xvars, Wvars,
                     Tvars, Nvars, Gvars, Jvars, chipVars>>
     \/ part = "logger" /\ L!LoggerNext
        /\ UNCHANGED <<startVars, Bvars, exchangeVars, Evars, Fvars, Rvars, Xvars, Wvars, Tvars,
                     Nvars, Gvars, Jvars, chipVars>>
     \/ part = "receive" /\ R!ReceptionNext
        /\ UNCHANGED <<halVars, startVars, Bvars, exchangeVars, Evars, Fvars, Lvars, Xvars, Wvars,
                     Tvars, Nvars, Gvars, Jvars, chipVars>>
     \/ part = "txtest" /\ X!TestNext
        /\ UNCHANGED <<startVars, Bvars, exchangeVars, Evars, Fvars, Lvars, Rvars, Wvars, Tvars,
                     Nvars, Gvars, Jvars, chipVars>>
     \/ part = "continuous" /\ V!ContinuousNext
        /\ UNCHANGED <<halVars, startVars, Bvars, exchangeVars, Evars, Fvars, Lvars, Rvars, Xvars,
                     Tvars, Nvars, Gvars, Jvars, chipVars>>
     \/ part = "stress" /\ T!StressNext
        /\ UNCHANGED <<halVars, startVars, Bvars, exchangeVars, Evars, Fvars, Lvars, Rvars, Xvars,
                     Wvars, Nvars, Gvars, Jvars, chipVars>>
     \/ part = "nmea" /\ N!NmeaNext
        /\ UNCHANGED <<halVars, startVars, Bvars, exchangeVars, Evars, Fvars, Lvars, Rvars, Xvars,
                     Wvars, Tvars, Gvars, Jvars, chipVars>>
     \/ part = "time" /\ G!ReferenceNext
        /\ UNCHANGED <<halVars, startVars, Bvars, exchangeVars, Evars, Fvars, Lvars, Rvars, Xvars,
                     Wvars, Tvars, Nvars, Jvars, chipVars>>
     \/ part = "json" /\ J!Next
        /\ UNCHANGED <<halVars, startVars, Bvars, exchangeVars, Evars, Fvars, Lvars, Rvars, Xvars,
                     Wvars, Tvars, Nvars, Gvars, chipVars>>
     \/ part = "chip" /\ ChipNext
        /\ UNCHANGED <<halVars, startVars, Bvars, exchangeVars, Evars, Fvars, Lvars, Rvars, Xvars,
                     Wvars, Tvars, Nvars, Gvars, Jvars>>
SeqSpec ==
  SeqInit /\ [][SeqNext]_<<part, halVars, startVars, Bvars, exchangeVars, Evars, Fvars, Lvars,
                          Rvars, Xvars, Wvars, Tvars, Nvars, Gvars, Jvars, chipVars>>

-----------------------------------------------------------------------------
(* What one side has written the other side reads: the device the frames   *)
(* of the server (fromStiot, createNetworkData), and on the way base64,    *)
(* the cipher with its check, and the text of a message.                   *)
DeviceReads ==
  /\ part = "frame" => F!DeviceReads
  /\ part = "base64" => B!Restored /\ B!WithinRoom
  /\ part = "cipher" => E!Opened /\ E!OneByteNoticed
  /\ part = "json" => J!ReadBack /\ J!OnlyJson /\ J!CodePoints /\ J!SameAgain

(* Frame: the server is told what the device has said, the device is       *)
(* answered with the settings it listens with, and a message with a name   *)
(* nobody knows reaches no device.  Reception: what lgw_receive reports of *)
(* a packet, from which all this starts, is what was on the air.           *)
ServerReads ==
  /\ part = "frame" => F!ServerReads
  /\ part = "frame" => F!SameSettings
  /\ part = "frame" => F!StrangerNotServed
  /\ part = "receive" => R!FrequencyHeard /\ R!RatesHeard /\ R!LoraTime

(* PacketLogger: what was fetched is logged, and what the files say is     *)
(* set.                                                                    *)
Logged ==
  /\ part = "logger" => L!NothingLost
  /\ part = "logger" => L!Titled
  /\ part = "logger" => L!CleanExit
  /\ part = "logger" => L!SettingsFromFiles

(* The test tools: the transmission test sends its packets one after the   *)
(* other, as many as it was asked for; the continuous one is on the air    *)
(* with what it was asked for, and with nothing once it has exited; the    *)
(* stress test blames no bus that garbles nothing, and passes none that    *)
(* has left a wrong value in the chip.                                     *)
ToolsRight ==
  /\ part = "txtest" => X!OneAfterAnother /\ X!SentAsAsked
  /\ part = "continuous" => V!OnTheAir /\ V!Ended
  /\ part = "stress" => T!NoFalseAlarm /\ T!SpoiltIsNoticed

(* Nmea, TimeReference: the time and the place given out are those of the  *)
(* last good fix; the reference finds back to the fixes, a wrong one does  *)
(* not move it, and a count becomes a time and a count again.              *)
TimeAndPlace ==
  /\ part = "nmea" => N!TimeOfLastFix /\ N!PlaceOfLastFix
  /\ part = "time" => G!Recovered /\ G!Steady /\ G!ThereAndBack

(* The test tools: quit_sig, "1 -> application terminates without shutting *)
(* down the hardware" (util_tx_test.c:58, util_tx_continuous.c:76).        *)
QuitLeavesHardware ==
  /\ part = "txtest" => X!QuitLeavesHardware
  /\ part = "continuous" => V!QuitLeavesHardware

(* PacketLogger: "If some parameters are defined in both global and local  *)
(* configuration files, the local definition overwrites the global         *)
(* definition" (util_pkt_logger/readme.md:52).                             *)
LocalOverwrites == part = "logger" => L!LocalOverwrites
=============================================================================
