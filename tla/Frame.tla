------------------------------- MODULE Frame -------------------------------
(***************************************************************************)
(* The frames of a registered device, from the concentrator to a message   *)
(* for the server and from a message of the server to the concentrator:    *)
(* fromHal, toHal and the filter of receiveHal (ConcentratorController),   *)
(* createRXL, fromJsonString, fromStiot and createNetworkData (Message),   *)
(* and the radio settings the devices table keeps from one to the other.   *)
(*                                                                         *)
(* A frame is a sequence of cells: <<v>> is a byte, <<i, data>> byte i of  *)
(* the check of data, <<>> a byte of no meaning.  The cipher is taken as a *)
(* whole (Encryption.tla has its words): what was closed with a key opens  *)
(* with that key, and anything else opens to nonsense, which fails its     *)
(* check.                                                                  *)
(***************************************************************************)
EXTENDS Integers, Sequences, SequencesExt, FiniteSetsExt

CONSTANTS Inputs,    \* each a packet heard by the concentrator (lgw_pkt_rx_s)
                     \* and a JSON text of the server, as its object
          Joined,    \* the device's settings when it joined
          SessionKey \* of the device
VARIABLES input,    \* what is heard, and the text that comes next
          settings, \* the device's radio settings in the table
          report,   \* the RXL made of what was heard
          message,  \* what fromJsonString makes of the text
          packet,   \* the LoraPacket fromStiot makes of the message
          sent,     \* the packet handed to lgw_send
          fault     \* why the process has ended
vars == <<input, settings, report, message, packet, sent, fault>>

None == "none"           \* no string; Unset: no record yet
Unset == [unset |-> TRUE]
DH_SESSION_KEY_SIZE == 16
MIN_BLOCK_SIZE == 8
BLOCK_SIZE == 4
Payload == 251          \* bytes of LoraPacket.payload
Has(object, name) == name \in DOMAIN object

-----------------------------------------------------------------------------
(* Parameters of the network, as bytes.                                    *)
NET_BAND == 16   NET_CR == 32   NET_FR == 48   NET_PW == 64   NET_SF == 80
NET_TYPE_DIFF == 80
NET_MIN_FREQ == 863000000

typeMultiply(p) ==
  IF ~Has(p, "type") THEN 0
  ELSE CASE p.type = "REG" -> 1 [] p.type = "EMER" -> 2 [] OTHER -> 0
Code(p, head) == head + typeMultiply(p) * NET_TYPE_DIFF
reducedFreq(f) == ((f - NET_MIN_FREQ) \div 100000) % 256
reducedBand(b) == CASE b = 500000 -> 0 [] b = 250000 -> 1 [] b = 125000 -> 2 [] OTHER -> 3
reducedCR(cr)  == CASE cr = "4/5" -> 0 [] cr = "4/6" -> 1 [] cr = "4/7" -> 2
                    [] cr = "4/8" -> 3 [] OTHER -> 4
reducedSF(sf)  == IF sf \in 7..12 THEN sf - 7 ELSE 6

(* A header with the number of frequencies, and the frequencies.           *)
Freqs(p) == <<(Code(p, NET_FR) + Len(p.freqs)) % 256>>
              \o [i \in DOMAIN p.freqs |-> reducedFreq(p.freqs[i])]

(* Everything a device needs, for a registration; one missing field of one *)
(* entry leaves nothing at all.                                            *)
Complete(p) == {"type", "freqs", "band", "cr", "power", "sf"} \subseteq DOMAIN p

(* Mutant: the halves of a byte are swapped.                               *)
FullEntrySwapped(p) == Freqs(p) \o <<(reducedCR(p.cr) * 16) + reducedBand(p.band),
                                     (p.power % 16) * 16 + reducedSF(p.sf)>>

FullEntry(p) == Freqs(p) \o <<reducedBand(p.band) * 16 + reducedCR(p.cr),
                              (p.power % 16) * 16 + reducedSF(p.sf)>>

(* Only what is given, each field with its own header, for a downlink.     *)
PartEntry(p) ==
  (IF Has(p, "freqs") /\ p.freqs # <<>> THEN Freqs(p) ELSE <<>>)
    \o (IF Has(p, "band") THEN <<Code(p, NET_BAND) + reducedBand(p.band)>> ELSE <<>>)
    \o (IF Has(p, "cr") THEN <<Code(p, NET_CR) + reducedCR(p.cr)>> ELSE <<>>)
    \o (IF Has(p, "power") THEN <<Code(p, NET_PW) + (p.power % 16)>> ELSE <<>>)
    \o (IF Has(p, "sf") THEN <<Code(p, NET_SF) + reducedSF(p.sf)>> ELSE <<>>)

createNetworkData(params, full) ==
  IF ~full THEN FlattenSeq([i \in DOMAIN params |-> PartEntry(params[i])])
  ELSE IF \E i \in DOMAIN params : ~Complete(params[i]) THEN <<>>
  ELSE <<0>> \o FlattenSeq([i \in DOMAIN params |-> FullEntry(params[i])])

-----------------------------------------------------------------------------
(* Frames.                                                                 *)
Cells(bytes) == [i \in DOMAIN bytes |-> <<bytes[i]>>]
Two(n)       == <<n % 256, n \div 256>>
Check(data)  == [i \in 1..4 |-> <<i, data>>]

Whole(n) == IF n < MIN_BLOCK_SIZE THEN MIN_BLOCK_SIZE
            ELSE ((n + BLOCK_SIZE - 1) \div BLOCK_SIZE) * BLOCK_SIZE
Filled(cells) == cells \o [i \in 1..(Whole(Len(cells)) - Len(cells)) |-> <<>>]

Plain(body, full, seq) ==
  LET net  == createNetworkData(body.net_data, full)
      data == Cells(<<Len(net)>> \o net \o <<Len(body.app_data)>> \o body.app_data \o Two(seq))
  IN  Filled(data \o Check(data))

fromStiot(m, key, seq) ==
  LET plain == Plain(m.body, m.type = "REGA", seq)
      front == IF m.type = "REGA" THEN DH_SESSION_KEY_SIZE ELSE 0
  IN  [devId |-> m.devId, rfPower |-> m.body.power, seq |-> seq,
       type |-> IF m.type = "REGA" THEN "REGISTER_DOWN" ELSE "DATA_DOWN",
       ack |-> IF m.type = "REGA" THEN "MANDATORY_ACK" ELSE "NO_ACK",
       size |-> front + Len(plain), closed |-> [key |-> key, plain |-> plain]]

-----------------------------------------------------------------------------
(* Packets of the concentrator.                                            *)
BandOf(code) == CASE code = 1 -> 500000 [] code = 2 -> 250000 [] code = 3 -> 125000
                  [] code = 4 -> 625000 [] code = 5 -> 312000 [] code = 6 -> 156000
                  [] code = 7 -> 780000 [] OTHER -> 0
DatarateOf(code) ==
  IF \E sf \in 7..12 : code = 2^(sf - 6) THEN CHOOSE sf \in 7..12 : code = 2^(sf - 6) ELSE 0
CoderateOf(code) == IF code \in 1..4 THEN <<"4/5", "4/6", "4/7", "4/8">>[code] ELSE "UND"
UpType(b) == LET t == (b \div 32) * 32
             IN  CASE t = 0 -> "REGISTER_UP" [] t = 64 -> "HELLO_UP" [] t = 96 -> "EMERGENCY_UP"
                   [] t = 128 -> "REGISTER_DOWN" [] t = 160 -> "DATA_DOWN" [] OTHER -> "DATA_UP"
UpAck(b)  == CASE b % 8 = 6 -> "MANDATORY_ACK" [] b % 8 = 2 -> "OPTIONAL_ACK"
               [] OTHER -> "NO_ACK"

(* receiveHal passes on what came with a good CRC and more than a header.  *)
Passed(p) == p.status = "STAT_CRC_OK" /\ p.size > 4

fromHal(p) ==
  [devId |-> p.devId, type |-> UpType(p.typeAck), ack |-> UpAck(p.typeAck),
   size |-> p.size - 4, closed |-> p.closed, frequency |-> p.freq_hz, rfChain |-> p.rf_chain,
   bandwidth |-> BandOf(p.bandwidth), datarate |-> DatarateOf(p.datarate),
   coderate |-> CoderateOf(p.coderate)]

BandCode(b) == CASE b = 125000 -> 3 [] b = 250000 -> 2 [] b = 500000 -> 1 [] OTHER -> 0
CoderateCode(cr) == CASE cr = "4/5" -> 1 [] cr = "4/6" -> 2 [] cr = "4/7" -> 3
                      [] cr = "4/8" -> 4 [] OTHER -> 0
DownType(p) == (IF p.type = "REGISTER_DOWN" THEN 128 ELSE 160)
               + (CASE p.ack = "MANDATORY_ACK" -> 6 [] p.ack = "OPTIONAL_ACK" -> 2 [] OTHER -> 0)

(* A packet with settings the chip does not send stays empty, and lgw_send *)
(* refuses it.                                                             *)
toHal(p, s) ==
  IF \/ BandCode(s.bandwidth) = 0 \/ s.datarate \notin 7..12
     \/ CoderateCode(s.coderate) = 0
  THEN [size |-> 0]
  ELSE [freq_hz |-> s.frequency, rf_chain |-> s.rfChain, rf_power |-> p.rfPower,
        bandwidth |-> BandCode(s.bandwidth), datarate |-> 2^(s.datarate - 6),
        coderate |-> CoderateCode(s.coderate), size |-> p.size + 4,
        devId |-> p.devId, typeAck |-> DownType(p), closed |-> p.closed]

-----------------------------------------------------------------------------
(* What a device puts into a frame and makes of one: not this repository's *)
(* code, but the other end of it.                                          *)
DeviceFrame(data, seq) ==
  LET cells == Cells(<<Len(data)>> \o data \o Two(seq)) IN Filled(cells \o Check(cells))

FieldOf(code) == <<"band", "cr", "freqs", "power", "sf">>[code]
TypeOf(n)     == <<"NORMAL", "REG", "EMER">>[n + 1]
ValueOf(field, v) ==
  CASE field = "band" -> IF v < 3 THEN <<500000, 250000, 125000>>[v + 1] ELSE 0
    [] field = "cr" -> IF v < 4 THEN <<"4/5", "4/6", "4/7", "4/8">>[v + 1] ELSE None
    [] field = "sf" -> IF v < 6 THEN v + 7 ELSE 0
    [] OTHER -> v
FreqsAt(bytes, i, n) == [k \in 1..n |-> NET_MIN_FREQ + 100000 * bytes[i + k]]

DeviceFull(bytes) ==
  LET n(i)  == bytes[i] % 16
      At(i) == [type  |-> TypeOf((bytes[i] - NET_FR) \div NET_TYPE_DIFF),
                freqs |-> FreqsAt(bytes, i, n(i)),
                band  |-> ValueOf("band", bytes[i + n(i) + 1] \div 16),
                cr    |-> ValueOf("cr", bytes[i + n(i) + 1] % 16),
                power |-> bytes[i + n(i) + 2] \div 16,
                sf    |-> ValueOf("sf", bytes[i + n(i) + 2] % 16)]
      read[i \in 2..(Len(bytes) + 20)] ==
        IF i > Len(bytes) THEN <<>> ELSE <<At(i)>> \o read[i + n(i) + 3]
  IN  read[2]

DevicePart(bytes) ==
  LET field(i) == FieldOf((((bytes[i] \div 16) - 1) % 5) + 1)
      type(i)  == TypeOf(((bytes[i] \div 16) - 1) \div 5)
      low(i)   == bytes[i] % 16
      read[i \in 1..(Len(bytes) + 16)] ==
        IF i > Len(bytes) THEN <<>>
        ELSE IF field(i) = "freqs"
        THEN <<<<type(i), "freqs", FreqsAt(bytes, i, low(i))>>>> \o read[i + low(i) + 1]
        ELSE <<<<type(i), field(i), ValueOf(field(i), low(i))>>>> \o read[i + 1]
  IN  read[1]

(* The parts of an opened downlink, and whether its check agrees.          *)
DeviceOpens(plain) ==
  LET n    == plain[1][1]
      a    == plain[n + 2][1]
      data == SubSeq(plain, 1, n + a + 4)
  IN  [net |-> [i \in 1..n |-> plain[i + 1][1]],
       app |-> [i \in 1..a |-> plain[n + 2 + i][1]],
       seq |-> plain[n + a + 3][1] + 256 * plain[n + a + 4][1],
       ok  |-> SubSeq(plain, n + a + 5, n + a + 8) = Check(data)]

-----------------------------------------------------------------------------
(* Messages.                                                               *)
MessageType == {"SETR", "SETA", "REGR", "REGA", "KEYS", "KEYR", "KEYA", "RXL", "TXL",
                "CONFIG", "ERROR", "UNK"}
Named == {"SETA", "KEYA", "TXL", "REGA", "ERROR"}
OfDevice == {"KEYA", "TXL", "REGA"}

Address(text) ==
  IF Has(text, "message_name") /\ text.message_name \in OfDevice
  THEN text.message_body.dev_id ELSE ""

(* A name nobody knows leaves the type as the memory was.                  *)
Types(text) ==
  IF Has(text, "conf") THEN {"CONFIG"}
  ELSE IF ~Has(text, "message_name") THEN {"UNK"}
  ELSE IF text.message_name \in Named THEN {text.message_name} ELSE MessageType

fromJsonString(text) ==
  {[type |-> t, devId |-> IF Has(text, "conf") THEN "" ELSE Address(text),
    micOk |-> Has(text, "conf") \/ {"message_name", "message_body"} \subseteq DOMAIN text,
    body |-> IF Has(text, "message_body") THEN text.message_body ELSE <<>>] : t \in Types(text)}

(* at() of a field that is not there throws, and nobody catches.           *)
Throws(text) ==
  /\ ~Has(text, "conf") /\ Has(text, "message_name") /\ text.message_name \in OfDevice
  /\ ~(Has(text, "message_body") /\ Has(text.message_body, "dev_id"))

(* Mutant: the check is compared without the sequence number.              *)
CheckedUpDataOnly(plain) == SubSeq(plain, 1, plain[1][1] + 1)

CheckedUp(plain) == SubSeq(plain, 1, plain[1][1] + 3)

createRXL(p) ==
  LET plain == p.closed.plain
      n     == plain[1][1]
      ok    == /\ p.closed.key = SessionKey
               /\ SubSeq(plain, n + 4, n + 7) = Check(CheckedUp(plain))
  IN  IF ~ok THEN [name |-> "RXL", micOk |-> FALSE]
      ELSE [name |-> "RXL", micOk |-> TRUE, dev_id |-> p.devId,
            sf |-> p.datarate, cr |-> p.coderate, band |-> p.bandwidth,
            conf_need |-> CASE p.type \in {"DATA_UP", "HELLO_UP"} -> FALSE
                            [] p.type = "EMERGENCY_UP" -> TRUE [] OTHER -> None,
            ack |-> CASE p.ack = "NO_ACK" -> "UNSUPPORTED" [] p.ack = "OPTIONAL_ACK" -> "VOLATILE"
                      [] OTHER -> "MANDATORY",
            data |-> [i \in 1..n |-> plain[i + 1][1]],
            seq |-> plain[n + 2][1] + 256 * plain[n + 3][1]]
createREGR(p) == [name |-> "REGR", dev_id |-> p.devId, sf |-> p.datarate, cr |-> p.coderate,
                  band |-> p.bandwidth]
Dropped == [name |-> None]

-----------------------------------------------------------------------------
(* What updateDevice and addDevice keep of a packet, and setPacket returns.*)
SettingsOf(p) == [frequency |-> p.frequency, bandwidth |-> p.bandwidth, datarate |-> p.datarate,
                  coderate |-> p.coderate, rfChain |-> p.rfChain]

Init == /\ input \in Inputs
        /\ settings = Joined
        /\ report = Unset /\ message = Unset /\ packet = Unset /\ sent = Unset /\ fault = None

Believed(r) == r.name = "REGR" \/ (r.name = "RXL" /\ r.micOk)

Receive ==
  /\ fault = None /\ report = Unset
  /\ LET p == fromHal(input.heard)
         r == CASE ~Passed(input.heard) -> Dropped
                [] p.type = "REGISTER_UP" -> createREGR(p)
                [] OTHER -> createRXL(p)
     IN  IF Passed(input.heard) /\ p.type # "REGISTER_UP" /\ p.size < BLOCK_SIZE
         THEN fault' = "no block to decrypt" /\ UNCHANGED <<report, settings>>
         ELSE /\ report' = r
              /\ settings' = IF Believed(r) THEN SettingsOf(p) ELSE settings
              /\ UNCHANGED fault
  /\ UNCHANGED <<input, message, packet, sent>>

Parse ==
  /\ fault = None /\ report # Unset /\ message = Unset
  /\ IF Throws(input.text) THEN fault' = "out of range" /\ UNCHANGED message
     ELSE message' \in fromJsonString(input.text) /\ UNCHANGED fault
  /\ UNCHANGED <<input, settings, report, packet, sent>>

(* A random number for a registration, the next one for a downlink.        *)
SomeSeq == {0, 256, 65535}

(* A TXL needs the key that a registration of just now has taken away.     *)
Build ==
  /\ fault = None /\ message # Unset /\ packet = Unset
  /\ message.micOk /\ message.type \in {"REGA", "TXL"} /\ message.devId = input.heard.devId
  /\ {"power", "net_data", "app_data"} \subseteq DOMAIN message.body
  /\ message.type = "TXL" => report.name # "REGR"
  /\ \E seq \in SomeSeq :
       LET p == fromStiot(message, SessionKey, seq)
       IN  IF p.size > Payload THEN fault' = "past the payload" /\ UNCHANGED packet
           ELSE packet' = p /\ UNCHANGED fault
  /\ UNCHANGED <<input, settings, report, message, sent>>

Send == /\ packet # Unset /\ sent = Unset
        /\ sent' = toHal(packet, settings)
        /\ UNCHANGED <<input, settings, report, message, packet, fault>>

Next == Receive \/ Parse \/ Build \/ Send

-----------------------------------------------------------------------------
(* The parameters a device can be told: what the few bits have room for.   *)
Sound(p) ==
  /\ Has(p, "freqs") => /\ Len(p.freqs) <= 15
                        /\ \A i \in DOMAIN p.freqs :
                             /\ p.freqs[i] % 100000 = 0
                             /\ (p.freqs[i] - NET_MIN_FREQ) \div 100000 \in 0..255
  /\ Has(p, "band") => p.band \in {125000, 250000, 500000}
  /\ Has(p, "cr") => p.cr \in {"4/5", "4/6", "4/7", "4/8"}
  /\ Has(p, "sf") => p.sf \in 7..12
  /\ Has(p, "power") => p.power \in 0..15
Items(p) ==
  LET type == IF Has(p, "type") THEN p.type ELSE "NORMAL"
      given == SelectSeq(<<"freqs", "band", "cr", "power", "sf">>,
                         LAMBDA f : Has(p, f) /\ (f = "freqs" => p.freqs # <<>>))
  IN  [i \in DOMAIN given |-> <<type, given[i], p[given[i]]>>]

(* A frame that is sent is one the device opens: whole blocks, at least    *)
(* two, within what a packet holds, with a check that agrees; and it reads *)
(* the application's data, the sequence number and the network parameters  *)
(* the server has written, for every registration that is complete.        *)
DeviceReads ==
  sent # Unset /\ sent.size # 0 =>
    LET front == IF message.type = "REGA" THEN DH_SESSION_KEY_SIZE ELSE 0
        d     == DeviceOpens(sent.closed.plain)
        net   == message.body.net_data
    IN  /\ sent.size - 4 - front = Len(sent.closed.plain) /\ sent.size <= 255
        /\ Len(sent.closed.plain) % BLOCK_SIZE = 0 /\ Len(sent.closed.plain) >= MIN_BLOCK_SIZE
        /\ d.ok /\ d.app = message.body.app_data /\ d.seq = packet.seq
        /\ (\A i \in DOMAIN net : Sound(net[i])) =>
              IF message.type = "TXL"
              THEN DevicePart(d.net) = FlattenSeq([i \in DOMAIN net |-> Items(net[i])])
              ELSE (\A i \in DOMAIN net : Complete(net[i])) => DeviceFull(d.net) = net

(* The server is told what the device has said, of every frame that the    *)
(* device has closed with the session key, and of no other: its data, its  *)
(* sequence number, and whether it waits for a confirmation.               *)
ServerReads ==
  report # Unset /\ report.name = "RXL" =>
    /\ report.micOk <=> input.heard.closed.key = SessionKey
    /\ report.micOk =>
         /\ report.data = input.heard.data /\ report.seq = input.heard.seq
         /\ report.dev_id = input.heard.devId
         /\ input.heard.typeAck \in 32..127 =>
              (report.conf_need <=> input.heard.typeAck \in 96..127)

(* A device is answered with the settings of its last frame that could be  *)
(* believed, which are what it listens with, or it is not answered.        *)
SameSettings ==
  sent # Unset /\ sent.size # 0 =>
    IF Believed(report)
    THEN \A f \in {"freq_hz", "rf_chain", "bandwidth", "datarate", "coderate"} :
           sent[f] = input.heard[f]
    ELSE sent.freq_hz = Joined.frequency /\ BandOf(sent.bandwidth) = Joined.bandwidth

(* A message with a name that is not the server's reaches no device, even  *)
(* when its type, which was never written, looks like that of one.         *)
StrangerNotServed ==
  packet # Unset => /\ input.text.message_name \in OfDevice
                   /\ message.type = input.text.message_name
                   /\ packet.devId = input.text.message_body.dev_id
=============================================================================
