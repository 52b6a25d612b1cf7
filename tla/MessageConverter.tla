-------------------------- MODULE MessageConverter --------------------------
(***************************************************************************)
(* The two worker threads of MessageConverter.cpp, fromLora and fromStiot, *)
(* and the timer thread, as they meet on the table of devices.             *)
(*                                                                         *)
(* The grain is one call that another thread can observe: a method of      *)
(* DevicesTable, a message handed to the connection or the concentrator,   *)
(* the locking of loraDataMutex, a notification, and the use of a pointer  *)
(* into the table after the call that returned it.                         *)
(*                                                                         *)
(* fromLora holds loraDataMutex from the moment it wakes until it waits    *)
(* again, its one second of sleep included; so "the mutex is free" is      *)
(* loraPc = "wait".  Pushing and notifying are one step here: WorkQueue    *)
(* models that protocol with its locks, and shows why that is enough.      *)
(*                                                                         *)
(* The end devices, the server and the radio are the environment.          *)
(***************************************************************************)
EXTENDS DevicesTable, Sequences, FiniteSetsExt

CONSTANTS MaxReg,    \* bound: registrations of one device
          MaxData,   \* bound: data frames of one device
          MaxTxl,    \* bound: downlinks the server asks for
          RandomSeq, \* the numbers a REGA may draw
          Sleepy     \* devices that may be silent for a day

ASSUME BoundsAssumption == MaxReg \in Nat /\ MaxData \in Nat /\ MaxTxl \in Nat
ASSUME RandomAssumption == RandomSeq \subseteq Nat
ASSUME SleepyAssumption == Sleepy \subseteq Device

VARIABLES
  map,               \* devicesTable
  fromLoraData,      \* received frames, not taken yet
  woken,             \* fromLora's wait has been notified
  loraPc,            \* fromLora: the next step
  inVector,          \* fromLora: frames of this pass, the current one first
  outVector,         \* fromLora: frames to forward at the end of the pass
  oldData,           \* frames that wait for their session key
  historyIterator,   \* fromLora: position in oldData
  loraPtr,           \* fromLora: what it knows of the entry it works on
  fromStiotData,     \* messages of the server, not taken yet
  stiotPc,           \* fromStiot: the next step
  in,                \* fromStiot: the message in work
  stiotPtr,          \* fromStiot: what it knows of the entry it works on
  sessionKey,        \* fromStiot: the key a REGA makes it compute
  out,               \* fromStiot: the key its frame is encrypted under
  seqNum,            \* fromStiot: the sequence number of its frame
  fault,             \* the thread that used a null or dangling pointer
  upQ,               \* messages for the server: the connection's queue, TCP
  air,               \* downlinks handed to the concentrator
  reg, devKey, dataSent,       \* the devices
  srvKeys, txlSent, nextPriv,  \* the server; the source of random exponents
  delivered, discarded, lost,  \* history: the fate of data frames
  raced,             \* history: keys replaced under fromLora's eyes
  verified,          \* history: highest number read under the key in use
  overtaken          \* history: devices whose numbers were read out of order

loraVars  == <<loraPc, inVector, outVector, historyIterator, loraPtr>>
stiotVars == <<stiotPc, in, stiotPtr, sessionKey, out, seqNum>>
envVars   == <<reg, devKey, dataSent, srvKeys, txlSent, nextPriv>>
fateVars  == <<delivered, discarded, lost>>
hist      == <<raced, verified, overtaken>>
vars == <<map, fromLoraData, woken, loraVars, oldData, fromStiotData, stiotVars,
          fault, upQ, air, envVars, fateVars, hist>>

-----------------------------------------------------------------------------
Frame   == [type : {"REGISTER_UP", "DATA_UP"}, dev : Device, n : Nat,
            key : SessionKey]
Message == [type : {"REGR", "RXL", "KEYS", "KEYR", "REGA", "KEYA", "TXL"},
            dev : Device, n : Nat, key : SessionKey]
Msg(type, d, n, key) == [type |-> type, dev |-> d, n |-> n, key |-> key]
RXL(f) == Msg("RXL", f.dev, f.n, f.key)

(* What a thread knows of a table entry: nothing, that it was there, that  *)
(* it was there and has been erased since; or it holds a pointer into it,  *)
(* which dangles once the entry is erased.                                 *)
Pointer == {"none", "seen", "gone", "held", "dangling"}
Erased  == [p \in Pointer |-> CASE p = "seen" -> "gone"
                                [] p = "held" -> "dangling"
                                [] OTHER -> p]

LoraPc  == {"wait", "new", "regr", "getKey", "rxl", "update", "hasCheck", "check",
            "keys", "noKey", "mine", "keyr", "old", "oldKey", "oldRxl", "oldSeq", "oldCheck"}
StiotPc == {"wait", "take", "keyaSet", "keyaSync", "keyaNotify",
            "regaDh", "regaKey", "regaSet", "txlKey", "txlSeq", "get", "encrypt", "setSeq",
            "send"}

NoMessage == Msg("TXL", CHOOSE d \in Device : TRUE, 0, NullKey)

cur == Head(inVector)
old == oldData[historyIterator]
(* The frame fromLora holds a pointer or an answer of the table for.       *)
loraFrame == IF loraPc \in {"old", "oldKey", "oldRxl", "oldSeq", "oldCheck"} THEN old ELSE cur

TypeOK ==
  /\ map \in Table
  /\ fromLoraData \in Seq(Frame) /\ inVector \in Seq(Frame)
  /\ outVector \in Seq(Frame)    /\ oldData \in Seq(Frame)
  /\ woken \in BOOLEAN
  /\ loraPc \in LoraPc /\ loraPtr \in Pointer /\ historyIterator \in Nat \ {0}
  /\ fromStiotData \in Seq(Message)
  /\ stiotPc \in StiotPc /\ stiotPtr \in Pointer
  /\ in \in Message /\ sessionKey \in SessionKey
  /\ fault \in {"no", "lora", "stiot"}
  /\ upQ \in Seq(Message)
  /\ out \in SessionKey
  /\ air \subseteq [type : {"REGA", "TXL"}, dev : Device, half : Nat,
                    key : SessionKey]
  /\ reg \in [Device -> Nat] /\ dataSent \in [Device -> Nat]
  /\ devKey \in [Device -> SessionKey]
  /\ srvKeys \in [Device -> Seq(SessionKey)]
  /\ txlSent \in Nat /\ nextPriv \in Nat
  /\ delivered \subseteq Device \X Nat
  /\ discarded \subseteq Device \X Nat
  /\ lost \subseteq Device \X Nat
  /\ raced \subseteq Device /\ overtaken \subseteq Device
  /\ verified \in [Device -> Nat] /\ seqNum \in Nat

(* A device is new, or it and the server remember a session of an earlier  *)
(* life of this gateway, whose own tables are always empty at the start.   *)
OldKey == [dha |-> 1, priv |-> 0]
InitGateway ==
  /\ map = [d \in Device |-> NoEntry]
  /\ fromLoraData = <<>> /\ woken = TRUE
  /\ loraPc = "wait" /\ inVector = <<>> /\ outVector = <<>>
  /\ historyIterator = 1 /\ loraPtr = "none" /\ oldData = <<>>
  /\ fromStiotData = <<>> /\ stiotPc = "wait" /\ in = NoMessage
  /\ stiotPtr = "none" /\ sessionKey = NullKey /\ out = NullKey
  /\ seqNum = 0
  /\ fault = "no" /\ upQ = <<>>
  /\ raced = {} /\ overtaken = {} /\ verified = [d \in Device |-> 0]

Init ==
  /\ InitGateway
  /\ air = {}
  /\ \E enrolled \in SUBSET Device :
       /\ reg     = [d \in Device |-> IF d \in enrolled THEN 1 ELSE 0]
       /\ devKey  = [d \in Device |-> IF d \in enrolled THEN OldKey ELSE NullKey]
       /\ srvKeys = [d \in Device |-> IF d \in enrolled THEN <<OldKey>> ELSE <<>>]
  /\ dataSent = [d \in Device |-> 0]
  /\ txlSent = 0 /\ nextPriv = 1
  /\ delivered = {} /\ discarded = {} /\ lost = {}

-----------------------------------------------------------------------------
(* The pointers of a thread into the entries of D, when these are erased.  *)
StiotPtrAfterErase(D) ==
  IF stiotPc # "wait" /\ in.dev \in D THEN Erased[stiotPtr] ELSE stiotPtr
LoraPtrAfterErase(D) ==
  IF loraPc # "wait" /\ loraPtr # "none" /\ loraFrame.dev \in D
  THEN Erased[loraPtr] ELSE loraPtr

(* The histories of devices whose key is replaced or goes away; r is what  *)
(* is known of the replacement.                                            *)
ForgetKeys(D, r) ==
  /\ raced' = (raced \ D) \cup r
  /\ verified' = [d \in Device |-> IF d \in D THEN 0 ELSE verified[d]]
  /\ overtaken' = overtaken \ D

(* addDevice as fromLora calls it: it may pull the entry from under        *)
(* fromStiot.                                                              *)
LoraAddDevice(d, half) ==
  /\ map' = addDevice(map, d, half)
  /\ stiotPtr' = StiotPtrAfterErase({d})
  /\ ForgetKeys({d}, {})

Goto(pc) == loraPc' = pc

-----------------------------------------------------------------------------
(* fromLora.                                                               *)

(* A wake-up, notified or spurious: the queue is drained into inVector.    *)
(* With an empty queue the thread goes on only for the cached frames.      *)
LoraWake ==
  /\ loraPc = "wait"
  /\ \/ fromLoraData = <<>> /\ oldData = <<>> /\ woken /\ Goto("wait")
     \/ (fromLoraData # <<>> \/ oldData # <<>>) /\ Goto("new")
  /\ woken' = FALSE
  /\ inVector' = fromLoraData
  /\ fromLoraData' = <<>>
  /\ UNCHANGED <<map, outVector, historyIterator, loraPtr, oldData, fromStiotData,
                 stiotVars, fault, upQ, air, envVars, fateVars, hist>>

LoraRegister ==
  /\ loraPc = "new" /\ inVector # <<>> /\ cur.type = "REGISTER_UP"
  /\ LoraAddDevice(cur.dev, cur.n)
  /\ Goto("regr")
  /\ UNCHANGED <<fromLoraData, woken, inVector, outVector, oldData, historyIterator,
                 loraPtr, fromStiotData, stiotPc, in, sessionKey, out, seqNum, fault, upQ, air,
                 envVars, fateVars>>

LoraRegr ==
  /\ loraPc = "regr"
  /\ upQ' = Append(upQ, Msg("REGR", cur.dev, cur.n, NullKey))
  /\ inVector' = Tail(inVector)
  /\ Goto("new")
  /\ UNCHANGED <<map, fromLoraData, woken, outVector, oldData, historyIterator,
                 loraPtr, fromStiotData, stiotVars, fault, air, envVars, fateVars,
                 hist>>

(* A data frame: is there a key to read it with?                           *)
LoraHasKey ==
  /\ loraPc = "new" /\ inVector # <<>> /\ cur.type = "DATA_UP"
  /\ LET known == hasSessionKey(map, cur.dev) /\ isMine(map, cur.dev)
     IN  /\ Goto(IF known THEN "getKey" ELSE "noKey")
         /\ loraPtr' = IF known THEN "seen" ELSE "none"
  /\ UNCHANGED <<map, fromLoraData, woken, inVector, outVector, oldData,
                 historyIterator, fromStiotData, stiotVars, fault, upQ, air,
                 envVars, fateVars, hist>>

(* getSessionKey, for the frame of this pass or a cached one.              *)
LoraGetKey ==
  /\ loraPc \in {"getKey", "oldKey"}
  /\ IF getSessionKeyIsNull(map, loraFrame.dev)
     THEN fault' = "lora" /\ UNCHANGED <<loraPc, loraPtr>>
     ELSE /\ Goto(IF loraPc = "getKey" THEN "rxl" ELSE "oldRxl")
          /\ loraPtr' = "held" /\ UNCHANGED fault
  /\ UNCHANGED <<map, fromLoraData, woken, inVector, outVector, oldData,
                 historyIterator, fromStiotData, stiotVars, upQ, air, envVars,
                 fateVars, hist>>

(* What createRXL can make of the MIC: it reads the key without a lock, so *)
(* a setSessionkey at the same moment may hand it neither key.             *)
MicOutcomes(f) ==
  {f.key = map[f.dev].sessionKey} \cup
  (IF stiotPc \in {"keyaSet", "regaSet"} /\ in.dev = f.dev THEN {FALSE} ELSE {})

LoraRxl ==
  /\ loraPc = "rxl"
  /\ IF loraPtr = "dangling"
     THEN fault' = "lora" /\ UNCHANGED <<loraPc, loraPtr, inVector, discarded>>
     ELSE /\ UNCHANGED fault
          /\ \E micOk \in MicOutcomes(cur) :
               IF micOk
               THEN /\ Goto("update") /\ loraPtr' = "seen"
                    /\ UNCHANGED <<inVector, discarded>>
               ELSE /\ Goto("new") /\ loraPtr' = "none"
                    /\ inVector' = Tail(inVector)
                    /\ discarded' = discarded \cup {<<cur.dev, cur.n>>}
  /\ UNCHANGED <<map, fromLoraData, woken, outVector, oldData, historyIterator,
                 fromStiotData, stiotVars, upQ, air, envVars, delivered, lost, hist>>

(* fromStiot has read the number of d, or the key it numbers a REGA under, *)
(* and has not written its own number back.                                *)
Numbering(d) == stiotPc \in {"get", "encrypt", "setSeq"} /\ in.dev = d
CachedBefore(d, k) == \E i \in 1..(k - 1) : oldData[i].dev = d
Cached(d) == CachedBefore(d, Len(oldData) + 1)
Verified(f) ==
  verified' = [verified EXCEPT ![f.dev] =
                 IF isInTable(map, f.dev) /\ f.n > @ THEN f.n ELSE @]

(* The frame's number and settings go into the table.                      *)
LoraUpdate ==
  /\ loraPc = "update"
  /\ map' = updateDevice(map, cur.dev, cur.n)
  /\ Verified(cur) /\ UNCHANGED raced
  /\ overtaken' = IF Numbering(cur.dev) \/ Cached(cur.dev)
                  THEN overtaken \cup {cur.dev} ELSE overtaken \ {cur.dev}
  /\ outVector' = Append(outVector, cur)
  /\ Goto("hasCheck")
  /\ UNCHANGED <<fromLoraData, woken, inVector, oldData, historyIterator, loraPtr,
                 fromStiotData, stiotVars, fault, upQ, air, envVars, fateVars>>

(* The first frame under a key makes the gateway announce it; the key may  *)
(* have become another one since the frame was read.                       *)
LoraHasCheck ==
  /\ loraPc = "hasCheck"
  /\ IF hasSessionKeyCheck(map, cur.dev)
     THEN Goto("new") /\ loraPtr' = "none" /\ inVector' = Tail(inVector)
     ELSE Goto("check") /\ UNCHANGED <<loraPtr, inVector>>
  /\ UNCHANGED <<map, fromLoraData, woken, outVector, oldData, historyIterator,
                 fromStiotData, stiotVars, fault, upQ, air, envVars, fateVars, hist>>

LoraSetCheck ==
  /\ loraPc = "check"
  /\ map' = setSessionKeyCheck(map, cur.dev, TRUE)
  /\ Goto("keys")
  /\ UNCHANGED <<fromLoraData, woken, inVector, outVector, oldData, historyIterator,
                 loraPtr, fromStiotData, stiotVars, fault, upQ, air, envVars,
                 fateVars, hist>>

(* KEYS carries the key the table holds by now.                            *)
LoraKeys ==
  /\ loraPc = "keys"
  /\ IF getSessionKeyIsNull(map, cur.dev)
     THEN fault' = "lora" /\ UNCHANGED <<loraPc, loraPtr, inVector, upQ>>
     ELSE /\ upQ' = Append(upQ, Msg("KEYS", cur.dev, getSeq(map, cur.dev),
                                     map[cur.dev].sessionKey))
          /\ inVector' = Tail(inVector)
          /\ Goto("new") /\ loraPtr' = "none" /\ UNCHANGED fault
  /\ UNCHANGED <<map, fromLoraData, woken, outVector, oldData, historyIterator,
                 fromStiotData, stiotVars, air, envVars, fateVars, hist>>

(* A frame nobody can read yet: its device is added without registration,  *)
LoraNoKey ==
  /\ loraPc = "noKey"
  /\ Goto("mine")
  /\ IF isInTable(map, cur.dev)
     THEN UNCHANGED <<map, stiotPtr, hist>>
     ELSE LoraAddDevice(cur.dev, 0)
  /\ UNCHANGED <<fromLoraData, woken, inVector, outVector, oldData, historyIterator,
                 loraPtr, fromStiotData, stiotPc, in, sessionKey, out, seqNum, fault, upQ, air,
                 envVars, fateVars>>

(* ... and unless it vanished meanwhile,                                   *)
LoraMine ==
  /\ loraPc = "mine"
  /\ IF isMine(map, cur.dev)
     THEN Goto("keyr") /\ UNCHANGED <<inVector, discarded>>
     ELSE /\ Goto("new") /\ inVector' = Tail(inVector)
          /\ discarded' = discarded \cup {<<cur.dev, cur.n>>}
  /\ UNCHANGED <<map, fromLoraData, woken, outVector, oldData, historyIterator,
                 loraPtr, fromStiotData, stiotVars, fault, upQ, air, envVars,
                 delivered, lost, hist>>

(* ... the server is asked for the key, one second later, and the frame is *)
(* cached.                                                                 *)
LoraKeyr ==
  /\ loraPc = "keyr"
  /\ upQ' = Append(upQ, Msg("KEYR", cur.dev, 0, NullKey))
  /\ oldData' = Append(oldData, cur)
  /\ inVector' = Tail(inVector)
  /\ Goto("new")
  /\ UNCHANGED <<map, fromLoraData, woken, outVector, historyIterator, loraPtr,
                 fromStiotData, stiotVars, fault, air, envVars, fateVars, hist>>

(* Mutant: the position in the cache starts before its first frame.        *)
LoraOldBeginAtZero ==
  /\ loraPc = "new" /\ inVector = <<>>
  /\ historyIterator' = 0
  /\ Goto("old")
  /\ UNCHANGED <<map, fromLoraData, woken, inVector, outVector, oldData, loraPtr,
                 fromStiotData, stiotVars, fault, upQ, air, envVars, fateVars, hist>>

(* The pass over the cached frames.                                        *)
LoraOldBegin ==
  /\ loraPc = "new" /\ inVector = <<>>
  /\ historyIterator' = 1
  /\ Goto("old")
  /\ UNCHANGED <<map, fromLoraData, woken, inVector, outVector, oldData, loraPtr,
                 fromStiotData, stiotVars, fault, upQ, air, envVars, fateVars, hist>>

LoraOldHasKey ==
  /\ loraPc = "old" /\ historyIterator <= Len(oldData)
  /\ IF hasSessionKey(map, old.dev) /\ isMine(map, old.dev)
     THEN Goto("oldKey") /\ loraPtr' = "seen" /\ UNCHANGED historyIterator
     ELSE historyIterator' = historyIterator + 1 /\ UNCHANGED <<loraPc, loraPtr>>
  /\ UNCHANGED <<map, fromLoraData, woken, inVector, outVector, oldData,
                 fromStiotData, stiotVars, fault, upQ, air, envVars, fateVars, hist>>

(* Mutant: the frame after the one forwarded is erased.                    *)
EraseAfter(seq, i) == SubSeq(seq, 1, i) \o SubSeq(seq, i + 2, Len(seq))

EraseAt(seq, i) == SubSeq(seq, 1, i - 1) \o SubSeq(seq, i + 1, Len(seq))

LoraOldRxl ==
  /\ loraPc = "oldRxl"
  /\ IF loraPtr = "dangling"
     THEN fault' = "lora" /\ UNCHANGED <<loraPc, loraPtr, oldData, discarded>>
     ELSE /\ UNCHANGED fault
          /\ \E micOk \in MicOutcomes(old) :
               IF micOk
               THEN /\ Goto("oldSeq") /\ loraPtr' = "seen"
                    /\ UNCHANGED <<oldData, discarded>>
               ELSE /\ Goto("old") /\ loraPtr' = "none"
                    /\ oldData' = EraseAt(oldData, historyIterator)
                    /\ discarded' = discarded \cup {<<old.dev, old.n>>}
  /\ UNCHANGED <<map, fromLoraData, woken, inVector, outVector, historyIterator,
                 fromStiotData, stiotVars, upQ, air, envVars, delivered, lost, hist>>

(* A cached frame that verified brings its number, which may be older than *)
(* the table's,                                                            *)
LoraOldSeq ==
  /\ loraPc = "oldSeq"
  /\ map' = setSeq(map, old.dev, old.n)
  /\ Verified(old) /\ UNCHANGED raced
  /\ overtaken' = IF Numbering(old.dev) \/ CachedBefore(old.dev, historyIterator)
                  THEN overtaken \cup {old.dev} ELSE overtaken
  /\ Goto("oldCheck")
  /\ UNCHANGED <<fromLoraData, woken, inVector, outVector, historyIterator, loraPtr,
                 oldData, fromStiotData, stiotVars, fault, upQ, air, envVars, fateVars>>

(* ... and marks its key checked, without a KEYS: the key is taken to have *)
(* come from the server.                                                   *)
LoraOldCheck ==
  /\ loraPc = "oldCheck"
  /\ map' = setSessionKeyCheck(map, old.dev, TRUE)
  /\ outVector' = Append(outVector, old)
  /\ oldData' = EraseAt(oldData, historyIterator)
  /\ Goto("old") /\ loraPtr' = "none"
  /\ UNCHANGED <<fromLoraData, woken, inVector, historyIterator, fromStiotData,
                 stiotVars, fault, upQ, air, envVars, fateVars, hist>>

(* addBulk of the connection; then fromLora waits again.                   *)
LoraSendAll ==
  /\ loraPc = "old" /\ historyIterator > Len(oldData)
  /\ upQ' = upQ \o [i \in 1..Len(outVector) |-> RXL(outVector[i])]
  /\ outVector' = <<>>
  /\ Goto("wait")
  /\ historyIterator' = 1
  /\ UNCHANGED <<map, fromLoraData, woken, inVector, oldData, loraPtr, fromStiotData,
                 stiotVars, fault, air, envVars, fateVars, hist>>

LoraPass == \/ LoraRegister \/ LoraRegr \/ LoraHasKey \/ LoraGetKey \/ LoraRxl
            \/ LoraUpdate \/ LoraHasCheck \/ LoraSetCheck \/ LoraKeys \/ LoraNoKey
            \/ LoraMine \/ LoraKeyr \/ LoraOldBegin \/ LoraOldHasKey \/ LoraOldRxl
            \/ LoraOldSeq \/ LoraOldCheck \/ LoraSendAll

-----------------------------------------------------------------------------
(* fromStiot.  Bodies that lack a field are dropped, as if never sent.     *)

StiotGoto(pc) == stiotPc' = pc
StiotDone == stiotPc' = "wait" /\ stiotPtr' = "none"

StiotTake ==
  /\ stiotPc = "wait" /\ fromStiotData # <<>>
  /\ in' = Head(fromStiotData)
  /\ fromStiotData' = Tail(fromStiotData)
  /\ StiotGoto("take")
  /\ UNCHANGED <<map, fromLoraData, woken, loraVars, oldData, stiotPtr, sessionKey,
                 out, seqNum, fault, upQ, air, envVars, fateVars, hist>>

(* All three kinds start with isMine.                                      *)
StiotIsMine ==
  /\ stiotPc = "take"
  /\ IF isMine(map, in.dev)
     THEN /\ StiotGoto(CASE in.type = "KEYA" -> "keyaSet"
                         [] in.type = "REGA" -> "regaDh"
                         [] in.type = "TXL"  -> "txlKey")
          /\ stiotPtr' = "seen"
     ELSE StiotDone
  /\ UNCHANGED <<map, fromLoraData, woken, loraVars, oldData, fromStiotData, in,
                 sessionKey, out, seqNum, fault, upQ, air, envVars, fateVars, hist>>

(* setSessionkey as fromStiot calls it.  The history notes the key that    *)
(* replaces one under which fromLora has just verified a frame, before     *)
(* fromLora has marked it checked.                                         *)
StiotSetSessionkey(d, key, n) ==
  /\ map' = setSessionkey(map, d, key, n)
  /\ ForgetKeys({d}, IF loraPc \in {"oldSeq", "oldCheck"} /\ old.dev = d THEN {d} ELSE {})

StiotKeyaSet ==
  /\ stiotPc = "keyaSet"
  /\ StiotSetSessionkey(in.dev, in.key, in.n)
  /\ StiotGoto("keyaSync")
  /\ UNCHANGED <<fromLoraData, woken, loraVars, oldData, fromStiotData, in, stiotPtr,
                 sessionKey, out, seqNum, fault, upQ, air, envVars, fateVars>>

(* Mutant: the notification without the lock before it.                    *)
StiotKeyaNoSync ==
  /\ stiotPc = "keyaSync"
  /\ StiotGoto("keyaNotify")
  /\ UNCHANGED <<map, fromLoraData, woken, loraVars, oldData, fromStiotData, in,
                 stiotPtr, sessionKey, out, seqNum, fault, upQ, air, envVars, fateVars, hist>>

(* Lock and unlock loraDataMutex: the pass that may have missed the key is *)
(* over.                                                                   *)
StiotKeyaSync ==
  /\ stiotPc = "keyaSync" /\ loraPc = "wait"
  /\ StiotGoto("keyaNotify")
  /\ UNCHANGED <<map, fromLoraData, woken, loraVars, oldData, fromStiotData, in,
                 stiotPtr, sessionKey, out, seqNum, fault, upQ, air, envVars, fateVars, hist>>

(* Mutant: the key is set and nobody told.                                 *)
StiotKeyaSilent ==
  /\ stiotPc = "keyaNotify"
  /\ StiotDone
  /\ UNCHANGED <<map, fromLoraData, woken, loraVars, oldData, fromStiotData, in,
                 sessionKey, out, seqNum, fault, upQ, air, envVars, fateVars, hist>>

(* A notification reaches a waiting thread only.                           *)
StiotKeyaNotify ==
  /\ stiotPc = "keyaNotify"
  /\ woken' = (woken \/ loraPc = "wait")
  /\ StiotDone
  /\ UNCHANGED <<map, fromLoraData, loraVars, oldData, fromStiotData, in, sessionKey,
                 out, seqNum, fault, upQ, air, envVars, fateVars, hist>>

(* REGA: a fresh private exponent; getDh returns a pointer to the half the *)
(* device registered with,                                                 *)
StiotRegaDh ==
  /\ stiotPc = "regaDh"
  /\ IF getDhIsNull(map, in.dev)
     THEN fault' = "stiot" /\ UNCHANGED <<stiotPc, stiotPtr>>
     ELSE StiotGoto("regaKey") /\ stiotPtr' = "held" /\ UNCHANGED fault
  /\ UNCHANGED <<map, fromLoraData, woken, loraVars, oldData, fromStiotData, in,
                 sessionKey, out, seqNum, upQ, air, envVars, fateVars, hist>>

(* ... and the two make the session key.                                   *)
StiotRegaKey ==
  /\ stiotPc = "regaKey"
  /\ IF stiotPtr = "dangling"
     THEN fault' = "stiot" /\ UNCHANGED <<stiotPc, stiotPtr, sessionKey, nextPriv>>
     ELSE /\ sessionKey' = [dha |-> map[in.dev].dha, priv |-> nextPriv]
          /\ nextPriv' = nextPriv + 1
          /\ StiotGoto("regaSet") /\ stiotPtr' = "seen" /\ UNCHANGED fault
  /\ UNCHANGED <<map, fromLoraData, woken, loraVars, oldData, fromStiotData, in,
                 out, seqNum, upQ, air, reg, devKey, dataSent, srvKeys, txlSent, fateVars,
                 hist>>

StiotRegaSet ==
  /\ stiotPc = "regaSet"
  /\ StiotSetSessionkey(in.dev, sessionKey, 0)
  /\ StiotGoto("get")
  /\ UNCHANGED <<fromLoraData, woken, loraVars, oldData, fromStiotData, in, stiotPtr,
                 sessionKey, out, seqNum, fault, upQ, air, envVars, fateVars>>

(* Mutant: the downlink is encrypted without asking whether there is a key.*)
StiotTxlUnasked ==
  /\ stiotPc = "txlKey"
  /\ StiotGoto("txlSeq")
  /\ UNCHANGED <<map, fromLoraData, woken, loraVars, oldData, fromStiotData, in,
                 stiotPtr, sessionKey, out, seqNum, fault, upQ, air, envVars, fateVars, hist>>

(* TXL: without a key the server is asked for it and the message dropped.  *)
StiotTxlKey ==
  /\ stiotPc = "txlKey"
  /\ IF hasSessionKey(map, in.dev)
     THEN StiotGoto("txlSeq") /\ UNCHANGED <<stiotPtr, upQ>>
     ELSE /\ upQ' = Append(upQ, Msg("KEYR", in.dev, 0, NullKey))
          /\ StiotDone
  /\ UNCHANGED <<map, fromLoraData, woken, loraVars, oldData, fromStiotData, in,
                 sessionKey, out, seqNum, fault, air, envVars, fateVars, hist>>

StiotTxlSeq ==
  /\ stiotPc = "txlSeq"
  /\ seqNum' = getSeq(map, in.dev)
  /\ StiotGoto("get")
  /\ UNCHANGED <<map, fromLoraData, woken, loraVars, oldData, fromStiotData, in,
                 stiotPtr, sessionKey, out, fault, upQ, air, envVars, fateVars, hist>>

(* getSessionKey, and Message::fromStiot encrypting with what it returned: *)
(* a TXL takes the number after the one it read, a REGA a random one.      *)
StiotGetKey ==
  /\ stiotPc = "get"
  /\ IF getSessionKeyIsNull(map, in.dev)
     THEN fault' = "stiot" /\ UNCHANGED <<stiotPc, stiotPtr>>
     ELSE StiotGoto("encrypt") /\ stiotPtr' = "held" /\ UNCHANGED fault
  /\ UNCHANGED <<map, fromLoraData, woken, loraVars, oldData, fromStiotData, in,
                 sessionKey, out, seqNum, upQ, air, envVars, fateVars, hist>>

StiotEncrypt ==
  /\ stiotPc = "encrypt"
  /\ IF stiotPtr = "dangling"
     THEN fault' = "stiot" /\ UNCHANGED <<stiotPc, out, seqNum>>
     ELSE /\ StiotGoto("setSeq") /\ out' = map[in.dev].sessionKey /\ UNCHANGED fault
          /\ IF in.type = "REGA" THEN seqNum' \in RandomSeq ELSE seqNum' = seqNum + 1
  /\ UNCHANGED <<map, fromLoraData, woken, loraVars, oldData, fromStiotData, in,
                 stiotPtr, sessionKey, upQ, air, envVars, fateVars, hist>>

StiotSetSeq ==
  /\ stiotPc = "setSeq"
  /\ map' = setSeq(map, in.dev, seqNum)
  /\ StiotGoto("send")
  /\ UNCHANGED <<fromLoraData, woken, loraVars, oldData, fromStiotData, in, stiotPtr,
                 sessionKey, out, seqNum, fault, upQ, air, envVars, fateVars, hist>>

(* setPacket and reduceDutyCycle: the frame goes out while the device is   *)
(* known and the band has air time left (DutyCycle counts it).  A REGA     *)
(* frame also shows the device the gateway's half, in clear.               *)
StiotSend ==
  /\ stiotPc = "send"
  /\ \/ /\ isInTable(map, in.dev)
        /\ air' = air \cup {[type |-> in.type, dev |-> in.dev, key |-> out,
                             half |-> IF in.type = "REGA" THEN sessionKey.priv ELSE 0]}
     \/ UNCHANGED air
  /\ StiotDone
  /\ UNCHANGED <<map, fromLoraData, woken, loraVars, oldData, fromStiotData, in,
                 sessionKey, out, seqNum, fault, upQ, envVars, fateVars, hist>>

StiotStep == \/ StiotTake \/ StiotIsMine \/ StiotKeyaSet \/ StiotKeyaSync
             \/ StiotKeyaNotify \/ StiotRegaDh \/ StiotRegaKey \/ StiotRegaSet
             \/ StiotTxlKey \/ StiotTxlSeq \/ StiotGetKey \/ StiotEncrypt
             \/ StiotSetSeq \/ StiotSend

-----------------------------------------------------------------------------
(* timerFunction: updateByTimer erases the devices silent for a day.       *)
TimerFlush ==
  /\ expiredDevices(map) # {}
  /\ map' = updateByTimer(map)
  /\ stiotPtr' = StiotPtrAfterErase(expiredDevices(map))
  /\ loraPtr' = LoraPtrAfterErase(expiredDevices(map))
  /\ ForgetKeys(expiredDevices(map), {})
  /\ UNCHANGED <<fromLoraData, woken, loraPc, inVector, outVector, historyIterator,
                 oldData, fromStiotData, stiotPc, in, sessionKey, out, seqNum, fault, upQ, air,
                 envVars, fateVars>>

(* The wall clock.                                                         *)
Silence ==
  /\ \E d \in Sleepy : silent(map, d) # map /\ map' = silent(map, d)
  /\ UNCHANGED <<fromLoraData, woken, loraVars, oldData, fromStiotData, stiotVars,
                 fault, upQ, air, envVars, fateVars, hist>>

(* The process dies, of a fault or of anything else, and systemd starts it *)
(* anew: all it held in memory is gone.                                    *)
FramesIn(s)   == {<<s[i].dev, s[i].n>> : i \in {j \in DOMAIN s : s[j].type = "DATA_UP"}}
RXLsIn(s)     == {<<s[i].dev, s[i].n>> : i \in {j \in DOMAIN s : s[j].type = "RXL"}}
InMemory == FramesIn(fromLoraData) \cup FramesIn(inVector) \cup FramesIn(outVector)
            \cup FramesIn(oldData) \cup RXLsIn(upQ)
Restart ==
  /\ map' = [d \in Device |-> NoEntry]
  /\ fromLoraData' = <<>> /\ woken' = TRUE
  /\ loraPc' = "wait" /\ inVector' = <<>> /\ outVector' = <<>>
  /\ historyIterator' = 1 /\ loraPtr' = "none" /\ oldData' = <<>>
  /\ fromStiotData' = <<>> /\ stiotPc' = "wait" /\ in' = NoMessage
  /\ stiotPtr' = "none" /\ sessionKey' = NullKey /\ out' = NullKey
  /\ seqNum' = 0
  /\ fault' = "no" /\ upQ' = <<>> /\ ForgetKeys(Device, {})
  /\ lost' = lost \cup (InMemory \ (delivered \cup discarded))
  /\ UNCHANGED <<air, envVars, delivered, discarded>>

-----------------------------------------------------------------------------
(* addBulk and addToQueue, called by the receiving and the connection      *)
(* thread for what devices and server send.                                *)
(* Mutant: frames are queued without a notification.                       *)
AddBulkSilent(f) ==
  /\ loraPc = "wait"
  /\ fromLoraData' = Append(fromLoraData, f)
  /\ UNCHANGED woken

AddBulk(f) ==
  /\ loraPc = "wait"
  /\ fromLoraData' = Append(fromLoraData, f)
  /\ woken' = TRUE

AddToQueue(m) == fromStiotData' = Append(fromStiotData, m)

(* A device that registers has no session until the REGA reaches it.       *)
DeviceRegister(d) ==
  /\ reg[d] < MaxReg
  /\ reg' = [reg EXCEPT ![d] = @ + 1]
  /\ devKey' = [devKey EXCEPT ![d] = NullKey]
  /\ AddBulk([type |-> "REGISTER_UP", dev |-> d, n |-> reg[d] + 1, key |-> NullKey])
  /\ UNCHANGED <<map, loraVars, oldData, fromStiotData, stiotVars, fault, upQ, air,
                 dataSent, srvKeys, txlSent, nextPriv, fateVars, hist>>

DeviceSend(d) ==
  /\ devKey[d] # NullKey /\ dataSent[d] < MaxData
  /\ dataSent' = [dataSent EXCEPT ![d] = @ + 1]
  /\ AddBulk([type |-> "DATA_UP", dev |-> d, n |-> dataSent[d] + 1, key |-> devKey[d]])
  /\ UNCHANGED <<map, loraVars, oldData, fromStiotData, stiotVars, fault, upQ, air,
                 reg, devKey, srvKeys, txlSent, nextPriv, fateVars, hist>>

(* It takes the REGA it can read: the one made for its latest half.        *)
DeviceReceive(d) ==
  /\ devKey[d] = NullKey
  /\ \E m \in air :
       /\ m.type = "REGA" /\ m.dev = d
       /\ m.key = [dha |-> reg[d], priv |-> m.half]
       /\ devKey' = [devKey EXCEPT ![d] = m.key]
       /\ air' = air \ {m}
  /\ UNCHANGED <<map, fromLoraData, woken, loraVars, oldData, fromStiotData, stiotVars,
                 fault, upQ, reg, dataSent, srvKeys, txlSent, nextPriv, fateVars, hist>>

(* The server takes the next message: it keeps keys it is told, answers a  *)
(* KEYR with the last one it knows, and a REGR when it accepts the device. *)
LastKey(d) == srvKeys[d][Len(srvKeys[d])]
LastSeq(d) == Max({0} \cup {n \in 1..MaxData : <<d, n>> \in delivered})
ServerReceive ==
  /\ upQ # <<>>
  /\ upQ' = Tail(upQ)
  /\ LET m == Head(upQ) IN
     \/ m.type = "RXL" /\ delivered' = delivered \cup {<<m.dev, m.n>>}
        /\ UNCHANGED <<srvKeys, fromStiotData>>
     \/ m.type = "KEYS" /\ srvKeys' = [srvKeys EXCEPT ![m.dev] = Append(@, m.key)]
        /\ UNCHANGED <<delivered, fromStiotData>>
     \/ m.type = "KEYR" /\ srvKeys[m.dev] # <<>>
        /\ AddToQueue(Msg("KEYA", m.dev, LastSeq(m.dev), LastKey(m.dev)))
        /\ UNCHANGED <<delivered, srvKeys>>
     \/ m.type = "REGR" /\ AddToQueue(Msg("REGA", m.dev, 0, NullKey))
        /\ UNCHANGED <<delivered, srvKeys>>
     \/ m.type \in {"KEYR", "REGR"} /\ UNCHANGED <<delivered, srvKeys, fromStiotData>>
  /\ UNCHANGED <<map, fromLoraData, woken, loraVars, oldData, stiotVars, fault, air,
                 reg, devKey, dataSent, txlSent, nextPriv, discarded, lost, hist>>

ServerTxl(d) ==
  /\ txlSent < MaxTxl
  /\ txlSent' = txlSent + 1
  /\ AddToQueue(Msg("TXL", d, 0, NullKey))
  /\ UNCHANGED <<map, fromLoraData, woken, loraVars, oldData, stiotVars, fault, upQ,
                 air, reg, devKey, dataSent, srvKeys, nextPriv, fateVars, hist>>

Environment ==
  \/ Silence \/ ServerReceive
  \/ \E d \in Device : DeviceRegister(d) \/ DeviceSend(d) \/ DeviceReceive(d) \/ ServerTxl(d)

-----------------------------------------------------------------------------
(* A thread that faults takes the process with it.                         *)
Up == fault = "no"
LoraStep == Up /\ (LoraPass \/ LoraWake)
Next == \/ LoraStep
        \/ Up /\ (StiotStep \/ TimerFlush \/ Environment)
        \/ Restart

Spec == Init /\ [][Next]_vars

(* A thread that can run does, a notified thread wakes, the connection     *)
(* drains, and systemd restarts a dead process (Restart=always).  Nothing  *)
(* is assumed of devices, of the clock or of spurious wake-ups.            *)
LoraRuns  == Up /\ (LoraPass \/ (woken /\ LoraWake))
StiotRuns == Up /\ StiotStep
ServerRuns == Up /\ ServerReceive
Revive    == ~Up /\ Restart
Fairness  == /\ WF_vars(LoraRuns) /\ WF_vars(StiotRuns)
             /\ WF_vars(ServerRuns) /\ WF_vars(Revive)
FairSpec == Spec /\ Fairness

-----------------------------------------------------------------------------
(* Properties.                                                             *)

(* The frames fromLora still has to deal with in this pass.                *)
Pending == IF loraPc \in {"hasCheck", "check", "keys"} THEN Tail(inVector) ELSE inVector
Occurrences(s, type, d, n) ==
  Cardinality({i \in DOMAIN s : s[i].type = type /\ s[i].dev = d /\ s[i].n = n})
Places(d, n) ==
  Occurrences(fromLoraData \o Pending \o outVector \o oldData, "DATA_UP", d, n)
  + Occurrences(upQ, "RXL", d, n)
  + Cardinality({s \in {"delivered", "discarded", "lost"} :
        <<d, n>> \in CASE s = "delivered" -> delivered
                       [] s = "discarded" -> discarded
                       [] s = "lost"      -> lost})

(* Every data frame the gateway has received is in exactly one place: a    *)
(* queue, the pass, the cache, on its way to the server, delivered, or     *)
(* given up for a bad MIC, a vanished device or a restart.  fromLora moves *)
(* frames through four containers, erasing while it iterates, and must     *)
(* neither forward one twice nor drop one on the way.                      *)
UplinkConservation ==
  \A d \in Device : \A n \in 1..dataSent[d] : Places(d, n) = 1

(* The server can give back, after a restart, every key under which the    *)
(* gateway counts a device as checked: KEYS for it has arrived, or is on   *)
(* its way, or fromLora is about to send it.  The one way around it is the *)
(* key a REGA sets between a cached frame's verification and the flag set  *)
(* for it (lines 381 and 385).                                             *)
Announced(d, k) ==
  \/ \E i \in DOMAIN srvKeys[d] : srvKeys[d][i] = k
  \/ \E i \in DOMAIN upQ : upQ[i].type = "KEYS" /\ upQ[i].dev = d /\ upQ[i].key = k
  \/ loraPc = "keys" /\ cur.dev = d
CheckedKeyKnownToServer ==
  \A d \in Device \ raced :
    hasSessionKeyCheck(map, d) => Announced(d, map[d].sessionKey)

(* The number the table holds for a device is not behind a frame it has    *)
(* read under the key in use, so that a downlink is not numbered like an   *)
(* old one: except after a frame that arrived while fromStiot was between  *)
(* getSeq and setSeq (lines 273 to 275), or while an older frame of the    *)
(* device was in the cache, whose number is written last (line 384).       *)
SeqNotBehind ==
  \A d \in Device \ overtaken : getSeq(map, d) >= verified[d]

(* When fromLora sleeps, with no notification under way, no frame is left  *)
(* in its cache whose key the server has sent: fromStiot notifies after    *)
(* KEYA, and the lock it takes before makes sure the notification is not   *)
(* spent on a pass that started too early.                                 *)
KeyFromServer(d) == hasSessionKey(map, d) /\ \E i \in DOMAIN srvKeys[d] :
                       srvKeys[d][i] = map[d].sessionKey
NoStrandedCache ==
  loraPc = "wait" /\ ~woken =>
    \A d \in Device : Cached(d) /\ KeyFromServer(d) =>
       stiotPc \in {"keyaSync", "keyaNotify"} /\ in.dev = d

(* No thread uses a null key or a pointer into an erased entry, except     *)
(* when the entry was erased after the thread had looked at it: under      *)
(* fromStiot by a registration or a flush, under fromLora by a flush only. *)
FaultNeedsErase ==
  /\ fault = "stiot" => stiotPtr \in {"gone", "dangling"}
  /\ fault = "lora"  => loraPtr \in {"gone", "dangling"} /\ loraFrame.dev \in Sleepy

(* The server's answer finds its device: whenever a REGR or KEYR is on its *)
(* way to the server, or the REGA or KEYA for it on its way back, the      *)
(* device is in the table, so fromStiot does not drop the answer as not    *)
(* its own - unless the device may be flushed for a day of silence.        *)
AnswerFindsDevice ==
  \A d \in Device \ Sleepy :
    \/ isMine(map, d)
    \/ /\ \A i \in DOMAIN upQ : upQ[i].dev = d => upQ[i].type \notin {"REGR", "KEYR"}
       /\ \A i \in DOMAIN fromStiotData : fromStiotData[i].dev = d =>
             fromStiotData[i].type \notin {"REGA", "KEYA"}

(* A cached frame whose key has come from the server does not stay in the  *)
(* cache: it is forwarded or dropped, or the key goes away again.          *)
CacheServed ==
  \A d \in Device : (Cached(d) /\ KeyFromServer(d)) ~> ~(Cached(d) /\ KeyFromServer(d))

(* A received frame does not stay in the gateway's queue or pass: it       *)
(* reaches the server, is given up, or waits in the cache for its key.     *)
UplinkSettles ==
  \A d \in Device : \A n \in 1..MaxData :
    (<<d, n>> \in FramesIn(fromLoraData \o inVector \o outVector)) ~>
    (<<d, n>> \in delivered \cup discarded \cup lost \cup FramesIn(oldData))
=============================================================================
