---------------------------- MODULE DevicesTable ----------------------------
(***************************************************************************)
(* The gateway's table of end devices (DevicesTable.cpp, DevicesTable.h).  *)
(* Every method takes the one mapMutex for its whole body, so a method is  *)
(* one atomic operation on the table; the module gives each as an operator *)
(* from a table to a table or to an answer.  MessageConverter composes     *)
(* them into the steps of its threads.                                     *)
(*                                                                         *)
(* A Diffie-Hellman half is a number (which registration of the device it  *)
(* comes from, 0 for the bytes of a frame that is no registration) and a   *)
(* session key is what both halves agree on: the device's and the          *)
(* gateway's private exponent.  Sequence numbers are kept as numbers, far  *)
(* from the 16 bits where they would wrap.  Radio parameters are data no   *)
(* property of the key protocol tells apart.                               *)
(***************************************************************************)
EXTENDS Naturals

CONSTANTS Device,   \* device identifiers (dev_id, in base64)
          NoEntry   \* what the map holds for a device it does not know

SessionKey == [dha : Nat, priv : Nat]
NullKey    == [dha |-> 0, priv |-> 0]

EndDevice == [myDevice         : BOOLEAN,
              sessionKeyExists : BOOLEAN,
              sessionKeyCheck  : BOOLEAN,   \* a frame verified under it
              sessionKey       : SessionKey,
              dha              : Nat,
              seq              : Nat,       \* last sequence number
              expired          : BOOLEAN]   \* now - timer > FLUSH_DEVICE

Table == [Device -> EndDevice \cup {NoEntry}]

ASSUME NoEntryAssumption == NoEntry \notin EndDevice
ASSUME DeviceAssumption  == Device # {}

-----------------------------------------------------------------------------
(* Queries.                                                                *)

isInTable(map, d)          == map[d] # NoEntry
isMine(map, d)             == isInTable(map, d) /\ map[d].myDevice
hasSessionKey(map, d)      == isInTable(map, d) /\ map[d].sessionKeyExists
hasSessionKeyCheck(map, d) == isInTable(map, d) /\ map[d].sessionKeyCheck

(* The pointer getSessionKey returns is null without a key; getDh's is     *)
(* null without an entry.  The bytes behind them are the entry's own.      *)
getSessionKeyIsNull(map, d) == ~hasSessionKey(map, d)
getDhIsNull(map, d)         == ~isInTable(map, d)

getSeq(map, d) == IF isInTable(map, d) THEN map[d].seq ELSE 0

-----------------------------------------------------------------------------
(* Updates.                                                                *)

(* addDevice erases a known entry and inserts a fresh one in either case.  *)
addDevice(map, d, half) ==
  [map EXCEPT ![d] = [myDevice         |-> TRUE,
                      sessionKeyExists |-> FALSE,
                      sessionKeyCheck  |-> FALSE,
                      sessionKey       |-> NullKey,
                      dha              |-> half,
                      seq              |-> 0,
                      expired          |-> FALSE]]

(* Mutant: a frame refreshes the timer and leaves the number as it was.    *)
updateDeviceKeepsSeq(map, d, n) ==
  IF isInTable(map, d) THEN [map EXCEPT ![d].expired = FALSE] ELSE map

(* A frame of a known device refreshes its timer and brings its number.    *)
updateDevice(map, d, n) ==
  IF isInTable(map, d) THEN [map EXCEPT ![d].expired = FALSE, ![d].seq = n] ELSE map

setSeq(map, d, n) ==
  IF isInTable(map, d) THEN [map EXCEPT ![d].seq = n] ELSE map

(* Mutant: a new key inherits the check of the old one.                    *)
setSessionkeyKeepsCheck(map, d, key, n) ==
  IF isInTable(map, d)
  THEN [map EXCEPT ![d].sessionKey = key, ![d].sessionKeyExists = TRUE, ![d].seq = n]
  ELSE map

(* A new key comes with a number and has not been checked yet.             *)
setSessionkey(map, d, key, n) ==
  IF isInTable(map, d)
  THEN [map EXCEPT ![d].sessionKey = key,
                   ![d].sessionKeyExists = TRUE,
                   ![d].sessionKeyCheck = FALSE,
                   ![d].seq = n]
  ELSE map

setSessionKeyCheck(map, d, set) ==
  IF hasSessionKey(map, d)
  THEN [map EXCEPT ![d].sessionKeyCheck = set]
  ELSE map

(* The devices the hourly pass of updateByTimer erases, and the erasure.   *)
expiredDevices(map) == {d \in Device : isInTable(map, d) /\ map[d].expired}

(* Mutant: the comparison with FLUSH_DEVICE the wrong way round.           *)
updateByTimerInverted(map) ==
  [d \in Device |-> IF d \in expiredDevices(map) THEN map[d] ELSE NoEntry]

updateByTimer(map) ==
  [d \in Device |-> IF d \in expiredDevices(map) THEN NoEntry ELSE map[d]]

(* A device has been silent for FLUSH_DEVICE seconds.                      *)
silent(map, d) ==
  IF isInTable(map, d) THEN [map EXCEPT ![d].expired = TRUE] ELSE map

=============================================================================
