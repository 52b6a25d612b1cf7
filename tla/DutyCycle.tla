----------------------------- MODULE DutyCycle -----------------------------
(***************************************************************************)
(* The air time the gateway may still use (onAir0, onAir1 and onAir10 of   *)
(* DevicesTable.cpp), and the three threads that meet on it:               *)
(*   fromStiot  takes a device's radio settings into a downlink            *)
(*              (setPacket), then asks for its air time (reduceDutyCycle); *)
(*   the timer  refills the counters once an hour, without mapMutex, and   *)
(*              then flushes silent devices under it;                      *)
(*   fromLora   moves a device to the frequency it was last heard on.      *)
(* A refill and a subtraction that meet race on plain longs: a load and a  *)
(* store of a counter are steps of their own here, in any order.           *)
(***************************************************************************)
EXTENDS Integers

CONSTANTS Device,
          Frequency,     \* channels devices are heard on, in Hz
          Sizes,         \* payload sizes of downlinks, a multiple of BLOCK_SIZE
          Sf, Bw, Cr,    \* the settings they share: spreading factor, kHz, 5..8
          MaxMsg,        \* bound: downlinks
          MaxRefill      \* bound: refills

Absent == 0
ASSUME FrequencyAssumption == Frequency \subseteq Nat \ {Absent}
ASSUME SizeAssumption      == Sizes \subseteq 8..248
ASSUME RadioAssumption     == Sf \in 7..12 /\ Bw \in {125, 250, 500} /\ Cr \in 5..8
ASSUME BoundAssumption     == MaxMsg \in Nat /\ MaxRefill \in Nat

-----------------------------------------------------------------------------
(* Bands, air time.                                                        *)
Band == {"0.1%", "1%", "10%"}

bandOf(f) ==
  IF \/ 865000000 <= f /\ f <= 868600000
     \/ 869700000 <= f /\ f <= 870000000 THEN "1%"
  ELSE IF 869400000 <= f /\ f <= 869650000 THEN "10%"
  ELSE "0.1%"

(* calculateDutyCycle, in ms: a preamble of 12.25 symbols and the payload. *)
(* The unsigned difference does not wrap for the sizes a frame has, and    *)
(* what the code computes in doubles is truncated once, at the return.     *)
symbolChips(sf) ==   \* 2^sf
  IF sf = 7 THEN 128 ELSE IF sf = 8 THEN 256 ELSE IF sf = 9 THEN 512
  ELSE IF sf = 10 THEN 1024 ELSE IF sf = 11 THEN 2048 ELSE 4096
ceilDiv(a, b) == (a + b - 1) \div b
lowRate == IF Sf \in {11, 12} THEN 1 ELSE 0
numSymbols(size) == 8 + ceilDiv(8 * size - 4 * Sf + 28 + 16, 4 * (Sf - 2 * lowRate)) * Cr
airTime(size) == ((49 + 4 * numSymbols(size)) * symbolChips(Sf)) \div (4 * Bw)

(* resetDutyCycle: milliseconds of an hour.                                *)
Full == [b \in Band |-> IF b = "0.1%" THEN 60 * 60
                         ELSE IF b = "1%" THEN 60 * 60 * 10
                         ELSE 60 * 60 * 100]

-----------------------------------------------------------------------------
VARIABLES
  onAir,         \* the counters
  freq,          \* the table: a device's frequency, or Absent
  pc,            \* fromStiot: "idle", "set", "reduce", "subtract"
  dev, out,      \* fromStiot: the downlink's device, and its frequency and size
  messageTime,   \* fromStiot: its air time
  sub, held,     \* fromStiot: how far each subtraction is, the value it loaded
  refill,        \* timer: counters still to be refilled
  flush,         \* timer: the refill is done, the flush is not
  msgs, refills, \* what the bounds count
  charged,       \* history: air time approved against a counter since its refill
  used           \* history: air time of the downlinks sent in a band since then

stiotVars == <<pc, dev, out, messageTime, sub, held>>
timerVars == <<refill, flush, refills>>
dutyVars == <<onAir, freq, stiotVars, timerVars, msgs, charged, used>>

Downlink == [freq : Frequency \cup {Absent}, size : Sizes \cup {0}]
NoDownlink == [freq |-> Absent, size |-> 0]
NoSub == [b \in Band |-> "todo"]

DutyTypeOK ==
  /\ onAir \in [Band -> Int]
  /\ freq \in [Device -> Frequency \cup {Absent}]
  /\ pc \in {"idle", "set", "reduce", "subtract"}
  /\ dev \in Device /\ out \in Downlink
  /\ messageTime \in Nat
  /\ sub \in [Band -> {"todo", "loaded", "done"}] /\ held \in [Band -> Int]
  /\ refill \in SUBSET Band /\ flush \in BOOLEAN
  /\ msgs \in 0..MaxMsg /\ refills \in 0..MaxRefill
  /\ charged \in [Band -> Nat] /\ used \in [Band -> Nat]

DutyInit ==
  /\ onAir = Full
  /\ freq \in [Device -> Frequency \cup {Absent}]
  /\ pc = "idle" /\ dev \in Device /\ out = NoDownlink
  /\ messageTime = 0
  /\ sub = NoSub /\ held = [b \in Band |-> 0]
  /\ refill = {} /\ flush = FALSE
  /\ msgs = 0 /\ refills = 0
  /\ charged = [b \in Band |-> 0] /\ used = [b \in Band |-> 0]

(* reduceDutyCycle holds mapMutex from its test to its last subtraction.   *)
MapFree == pc # "subtract"

-----------------------------------------------------------------------------
(* fromStiot.                                                              *)

(* A downlink for a device of the table; other calls of the table follow   *)
(* before setPacket.                                                       *)
TakeDownlink ==
  /\ pc = "idle" /\ msgs < MaxMsg
  /\ msgs' = msgs + 1
  /\ \E d \in Device, s \in Sizes :
       freq[d] # Absent /\ dev' = d /\ out' = [freq |-> Absent, size |-> s]
  /\ pc' = "set"
  /\ UNCHANGED <<onAir, freq, messageTime, sub, held, timerVars, charged, used>>

(* A device that has gone meanwhile leaves the frequency uninitialised.    *)
setPacket ==
  /\ pc = "set"
  /\ IF freq[dev] # Absent
     THEN out' = [freq |-> freq[dev], size |-> out.size]
     ELSE \E f \in Frequency : out' = [freq |-> f, size |-> out.size]
  /\ pc' = "reduce"
  /\ UNCHANGED <<onAir, freq, dev, messageTime, sub, held, timerVars, msgs, charged, used>>

(* Mutant: the counter is that of the frequency the frame goes out on.     *)
reduceByPacket ==
  LET band == bandOf(freq[dev])
      time == airTime((out.size + 4) % 256)
  IN
  /\ pc = "reduce"
  /\ IF freq[dev] # Absent /\ time <= onAir[bandOf(out.freq)]
     THEN /\ pc' = "subtract" /\ messageTime' = time /\ sub' = NoSub
          /\ charged' = [charged EXCEPT ![band] = @ + time]
          /\ used' = [used EXCEPT ![bandOf(out.freq)] = @ + time]
          /\ UNCHANGED out
     ELSE /\ pc' = "idle" /\ out' = NoDownlink
          /\ UNCHANGED <<messageTime, sub, charged, used>>
  /\ UNCHANGED <<onAir, freq, dev, held, timerVars, msgs>>

(* reduceDutyCycle up to its refusals: the counter is that of the device's *)
(* frequency by now, the frame goes out on the one setPacket has copied.   *)
reduceDutyCycle ==
  LET band == bandOf(freq[dev])
      time == airTime((out.size + 4) % 256)
  IN
  /\ pc = "reduce"
  /\ IF freq[dev] # Absent /\ time <= onAir[band]
     THEN /\ pc' = "subtract" /\ messageTime' = time /\ sub' = NoSub
          /\ charged' = [charged EXCEPT ![band] = @ + time]
          /\ used' = [used EXCEPT ![bandOf(out.freq)] = @ + time]
          /\ UNCHANGED out
     ELSE /\ pc' = "idle" /\ out' = NoDownlink
          /\ UNCHANGED <<messageTime, sub, charged, used>>
  /\ UNCHANGED <<onAir, freq, dev, held, timerVars, msgs>>

(* Its three subtractions, from all the counters.                          *)
Load(b) ==
  /\ pc = "subtract" /\ sub[b] = "todo"
  /\ held' = [held EXCEPT ![b] = onAir[b]]
  /\ sub' = [sub EXCEPT ![b] = "loaded"]
  /\ UNCHANGED <<onAir, freq, pc, dev, out, messageTime, timerVars, msgs, charged, used>>

Store(b) ==
  /\ pc = "subtract" /\ sub[b] = "loaded"
  /\ onAir' = [onAir EXCEPT ![b] = held[b] - messageTime]
  /\ sub' = [sub EXCEPT ![b] = "done"] /\ held' = [held EXCEPT ![b] = 0]
  /\ UNCHANGED <<freq, pc, dev, out, messageTime, timerVars, msgs, charged, used>>

(* The downlink goes to the concentrator.                                  *)
HandOver ==
  /\ pc = "subtract" /\ \A b \in Band : sub[b] = "done"
  /\ pc' = "idle" /\ out' = NoDownlink /\ messageTime' = 0 /\ sub' = NoSub
  /\ UNCHANGED <<onAir, freq, dev, held, timerVars, msgs, charged, used>>

(* What fromLora tells the server is left, in a REGR or an RXL.            *)
remainingDutyCycle(d) == IF freq[d] = Absent THEN 0 ELSE onAir[bandOf(freq[d])]

-----------------------------------------------------------------------------
(* The timer: updateByTimer, when an hour has passed.                      *)
RefillDue ==
  /\ refill = {} /\ ~flush /\ refills < MaxRefill
  /\ refills' = refills + 1
  /\ refill' = Band /\ flush' = TRUE
  /\ UNCHANGED <<onAir, freq, stiotVars, msgs, charged, used>>

resetDutyCycle(b) ==
  /\ b \in refill
  /\ onAir' = [onAir EXCEPT ![b] = Full[b]]
  /\ refill' = refill \ {b}
  /\ charged' = [charged EXCEPT ![b] = 0] /\ used' = [used EXCEPT ![b] = 0]
  /\ UNCHANGED <<freq, stiotVars, flush, refills, msgs>>

Flush ==
  /\ flush /\ refill = {} /\ MapFree
  /\ \E expired \in SUBSET Device :
       freq' = [d \in Device |-> IF d \in expired THEN Absent ELSE freq[d]]
  /\ flush' = FALSE
  /\ UNCHANGED <<onAir, stiotVars, refill, refills, msgs, charged, used>>

-----------------------------------------------------------------------------
(* fromLora: addDevice or updateDevice, for a frame heard on f.            *)
Hear(d, f) ==
  /\ MapFree /\ freq[d] # f
  /\ freq' = [freq EXCEPT ![d] = f]
  /\ UNCHANGED <<onAir, stiotVars, timerVars, msgs, charged, used>>

DutyNext ==
  \/ TakeDownlink \/ setPacket \/ reduceDutyCycle \/ HandOver
  \/ \E b \in Band : Load(b) \/ Store(b) \/ resetDutyCycle(b)
  \/ RefillDue \/ Flush
  \/ \E d \in Device, f \in Frequency : Hear(d, f)

DutySpec == DutyInit /\ [][DutyNext]_dutyVars

-----------------------------------------------------------------------------
(* Properties.                                                             *)

(* Between two refills of a counter, the downlinks approved against it     *)
(* take no more air time than it grants, whatever refill and subtraction   *)
(* do to each other: a subtraction lost to the race would break this.      *)
ChargedWithinBudget == \A b \in Band : charged[b] <= Full[b]

(* The race goes one way only: a refill may be lost, and leave a counter   *)
(* lower than it should be, but no counter offers what is spent already.   *)
(* A subtraction under way has yet to come off it, or off the value loaded.*)
Due(b) == IF pc = "subtract" /\ sub[b] # "done" THEN messageTime ELSE 0
NeverOvergrants == \A b \in Band : onAir[b] <= Full[b] - charged[b] + Due(b)
LoadedBound == \A b \in Band :
  pc = "subtract" /\ sub[b] = "loaded" => held[b] <= Full[b] - charged[b] + messageTime

(* What the server is told is left of a device's band has not been spent:  *)
(* remainingDutyCycle takes the mutex, and so never sees a subtraction     *)
(* under way, though it may meet a refill.                                 *)
ToldIsLeft == MapFree => \A d \in Device : freq[d] # Absent =>
  remainingDutyCycle(d) <= Full[bandOf(freq[d])] - charged[bandOf(freq[d])]
IInv == DutyTypeOK /\ ChargedWithinBudget /\ NeverOvergrants /\ LoadedBound

(* "60*60*1000/1000 for 0.1%" (DevicesTable.cpp:227), per band: the        *)
(* downlinks sent on the band's frequencies between two refills stay       *)
(* within its share of the hour.                                           *)
SentWithinBudget == \A b \in Band : used[b] <= Full[b]
=============================================================================
