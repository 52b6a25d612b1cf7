----------------------- MODULE MessageConverter_proofs -----------------------
(***************************************************************************)
(* Proofs about MessageConverter, for any set of devices and any bounds.   *)
(***************************************************************************)
EXTENDS MessageConverter, SequenceTheorems, FiniteSetTheorems, TLAPS

-----------------------------------------------------------------------------
(* The parts of the inductive invariant.                                   *)

HasFrame  == {"regr", "getKey", "rxl", "update", "hasCheck", "check", "keys", "noKey",
              "mine", "keyr"}
OldPc     == {"oldKey", "oldRxl", "oldSeq", "oldCheck"}
DataFrame == {f \in Frame : f.type = "DATA_UP"}
FromServer == {m \in Message : m.type \in {"REGA", "KEYA", "TXL"}}

(* What fromLora has in hand at each step, and what its containers hold.   *)
InHand ==
  /\ loraPc \in HasFrame => inVector # <<>>
  /\ loraPc = "regr" => cur.type = "REGISTER_UP"
  /\ loraPc \in HasFrame \ {"regr"} => cur.type = "DATA_UP"
  /\ loraPc \in OldPc => historyIterator <= Len(oldData)
  /\ loraPc \in OldPc \cup {"wait", "old"} => inVector = <<>>
  /\ oldData \in Seq(DataFrame) /\ outVector \in Seq(DataFrame)
  /\ fromStiotData \in Seq(FromServer) /\ in \in FromServer

(* Every entry is the gateway's own, a check needs a key, and only a       *)
(* device that may be silent expires.                                      *)
Entries ==
  \A d \in Device : isInTable(map, d) =>
    /\ map[d].myDevice
    /\ map[d].sessionKeyCheck => map[d].sessionKeyExists
    /\ map[d].expired => d \in Sleepy

(* What a thread knows is what the table says.                             *)
LoraPointer ==
  /\ loraPc \in {"wait", "new", "regr", "noKey", "mine", "keyr", "old"} => loraPtr = "none"
  /\ loraPc \in {"getKey", "update", "hasCheck", "check", "keys", "oldKey", "oldSeq", "oldCheck"} =>
       loraPtr \in {"seen", "gone"}
  /\ loraPc \in {"rxl", "oldRxl"} => loraPtr \in {"held", "dangling"}
  /\ loraPtr \in {"seen", "held"} => hasSessionKey(map, loraFrame.dev)
  /\ loraPtr \in {"gone", "dangling"} => loraFrame.dev \in Sleepy
StiotPointer ==
  /\ stiotPc \in {"wait", "take"} => stiotPtr = "none"
  /\ stiotPc \in {"regaKey", "encrypt"} => stiotPtr \in {"held", "dangling"}
  /\ stiotPc \in {"keyaSet", "keyaSync", "keyaNotify", "regaDh", "regaSet", "txlKey",
                  "txlSeq", "get"} => stiotPtr \in {"seen", "gone"}
  /\ stiotPtr \in {"seen", "held"} => isInTable(map, in.dev)
  /\ stiotPc \in {"txlSeq", "get", "encrypt"} /\ stiotPtr \in {"seen", "held"} =>
       hasSessionKey(map, in.dev)
  /\ stiotPc \in {"keyaSet", "keyaSync", "keyaNotify"} => in.type = "KEYA"
  /\ stiotPc \in {"regaDh", "regaKey", "regaSet"} => in.type = "REGA"
  /\ stiotPc \in {"txlKey", "txlSeq"} => in.type = "TXL"
  /\ stiotPc \in {"get", "encrypt", "setSeq", "send"} => in.type \in {"REGA", "TXL"}

Own(d) == d \notin Sleepy => isMine(map, d)
Answering ==
  /\ loraPc \in {"regr", "mine", "keyr"} => Own(cur.dev)
  /\ stiotPc \notin {"wait", "take"} => Own(in.dev)

Base == /\ TypeOK /\ InHand /\ Entries /\ LoraPointer /\ StiotPointer
        /\ FaultNeedsErase /\ Answering /\ AnswerFindsDevice

-----------------------------------------------------------------------------
(* Keys.                                                                   *)

(* No key in use has an exponent that is still to be drawn, nor the one    *)
(* fromStiot has just drawn for the REGA it is about to set.               *)
Unused == IF stiotPc = "regaSet" THEN nextPriv - 1 ELSE nextPriv
UsedFrame == {f \in Frame : f.key.priv < Unused}
UsedMsg   == {m \in Message : m.key.priv < Unused}
UsedKeys ==
  /\ nextPriv >= 1
  /\ stiotPc = "regaSet" => sessionKey.priv = nextPriv - 1 /\ nextPriv >= 2
  /\ fromLoraData \in Seq(UsedFrame) /\ inVector \in Seq(UsedFrame)
  /\ oldData \in Seq(UsedFrame \cap DataFrame) /\ outVector \in Seq(UsedFrame \cap DataFrame)
  /\ upQ \in Seq(UsedMsg) /\ fromStiotData \in Seq(UsedMsg) /\ in \in UsedMsg
  /\ \A m \in air : m.key.priv < Unused
  /\ out.priv < Unused
  /\ \A d \in Device :
       /\ devKey[d].priv < Unused
       /\ \A i \in DOMAIN srvKeys[d] : srvKeys[d][i].priv < Unused
       /\ isInTable(map, d) => map[d].sessionKey.priv < Unused

(* A KEYA carries a key the server keeps.                                  *)
ServerHas(d, k) == \E i \in DOMAIN srvKeys[d] : srvKeys[d][i] = k
AnsweredKeys ==
  /\ \A i \in DOMAIN fromStiotData : fromStiotData[i].type = "KEYA" =>
       ServerHas(fromStiotData[i].dev, fromStiotData[i].key)
  /\ in.type = "KEYA" => ServerHas(in.dev, in.key)

(* A frame is cached while its key is not in the table; when its key is    *)
(* there later, the server has given it.                                   *)
KeyIsIn(f) == hasSessionKey(map, f.dev) /\ map[f.dev].sessionKey = f.key
CachedKeys ==
  /\ \A i \in DOMAIN oldData : KeyIsIn(oldData[i]) => Announced(oldData[i].dev, oldData[i].key)
  /\ loraPc \in {"noKey", "mine", "keyr"} /\ KeyIsIn(cur) => Announced(cur.dev, cur.key)

(* The key a cached frame was verified under is still there, or the        *)
(* device is noted as raced.                                               *)
VerifiedKey ==
  loraPc \in {"oldSeq", "oldCheck"} /\ old.dev \notin raced /\ hasSessionKey(map, old.dev) =>
    KeyIsIn(old)

Keys == UsedKeys /\ AnsweredKeys /\ CachedKeys /\ VerifiedKey /\ CheckedKeyKnownToServer

(* The cached frames this pass has skipped, and those of a fromLora that   *)
(* sleeps, have no key from the server and none on its way there, unless   *)
(* fromStiot has just set it and has its notification still to give.       *)
Skipped(i) == \/ loraPc = "wait" /\ ~woken
              \/ loraPc \in OldPc \cup {"old"} /\ i < historyIterator
NotificationDue(d) ==
  in.dev = d /\ (stiotPc = "keyaSync" \/ (stiotPc = "keyaNotify" /\ loraPc = "wait"))
OnItsWay(d) == \E j \in DOMAIN upQ : upQ[j].type = "KEYS" /\ upQ[j].dev = d
                                       /\ upQ[j].key = map[d].sessionKey
SkippedHasNoKey ==
  \A i \in DOMAIN oldData : LET d == oldData[i].dev IN
    Skipped(i) /\ hasSessionKey(map, d) =>
      /\ KeyFromServer(d) => NotificationDue(d)
      /\ OnItsWay(d) => KeyFromServer(d)

-----------------------------------------------------------------------------
(* Numbers.                                                                *)

(* The data frames of a device stand in the order of their numbers in the  *)
(* cache, then the pass, then the queue, and carry numbers it has used.    *)
Later(f, g) == f.type = "DATA_UP" /\ g.type = "DATA_UP" /\ f.dev = g.dev => f.n < g.n
Ordered(s)  == \A i, j \in 1..Len(s) : i < j => Later(s[i], s[j])
Before(s, t) == \A i \in 1..Len(s), j \in 1..Len(t) : Later(s[i], t[j])
Numbered(f) == f.type = "DATA_UP" => f.n \in 1..dataSent[f.dev]
FrameOrder ==
  /\ Ordered(fromLoraData) /\ Ordered(inVector) /\ Ordered(oldData)
  /\ Before(oldData, inVector) /\ Before(oldData, fromLoraData) /\ Before(inVector, fromLoraData)
  /\ \A i \in 1..Len(fromLoraData) : Numbered(fromLoraData[i])
  /\ \A i \in 1..Len(inVector) : Numbered(inVector[i])
  /\ \A i \in 1..Len(oldData) : Numbered(oldData[i])

(* No frame that is still to be read has been overtaken by what has been   *)
(* read under the key in use, unless its device is noted for it.           *)
Above(f) == f.type = "DATA_UP" => verified[f.dev] < f.n
VerifiedBelow ==
  /\ \A i \in 1..Len(fromLoraData) : Above(fromLoraData[i])
  /\ \A i \in 1..Len(inVector) :
       (loraPc \in {"hasCheck", "check", "keys"} /\ i = 1) \/ Above(inVector[i])
  /\ \A i \in 1..Len(oldData) : oldData[i].dev \notin overtaken =>
       (loraPc = "oldCheck" /\ i = historyIterator) \/ Above(oldData[i])
  /\ \A d \in Device : /\ verified[d] <= dataSent[d]
                       /\ ~isInTable(map, d) => verified[d] = 0

(* The number fromStiot is about to write is not behind either.            *)
NumberInHand ==
  Numbering(in.dev) /\ in.dev \notin overtaken =>
    verified[in.dev] <= IF in.type = "REGA" THEN 0 ELSE seqNum

Numbers == FrameOrder /\ VerifiedBelow /\ NumberInHand /\ SeqNotBehind

-----------------------------------------------------------------------------
(* The table of devices.                                                   *)

(* A device is in a table exactly when the table holds an entry for it.    *)
LEMMA EntryType == \A t \in Table, d \in Device : isInTable(t, d) <=> t[d] \in EndDevice
BY NoEntryAssumption DEF Table, isInTable

(* Every method keeps the table's type and touches the one device alone.   *)
OnlyAt(d, t, u) == u \in Table /\ \A e \in Device \ {d} : u[e] = t[e]

(* No method of DevicesTable touches another device's entry.               *)
LEMMA TableMethods ==
  ASSUME NEW t \in Table, NEW d \in Device
  PROVE  /\ OnlyAt(d, t, setSessionKeyCheck(t, d, TRUE)) /\ OnlyAt(d, t, silent(t, d))
         /\ \A n \in Nat : /\ OnlyAt(d, t, addDevice(t, d, n))
                           /\ OnlyAt(d, t, updateDevice(t, d, n))
                           /\ OnlyAt(d, t, setSeq(t, d, n))
         /\ \A n \in Nat, key \in SessionKey : OnlyAt(d, t, setSessionkey(t, d, key, n))
<1> USE DEF OnlyAt
<1>1. isInTable(t, d) => t[d] \in EndDevice
  BY EntryType
<1>2. ASSUME NEW n \in Nat PROVE OnlyAt(d, t, addDevice(t, d, n))
  BY DEF addDevice, Table, EndDevice, SessionKey, NullKey
<1>3. ASSUME NEW n \in Nat PROVE OnlyAt(d, t, updateDevice(t, d, n))
  BY <1>1 DEF updateDevice, Table, EndDevice
<1>4. ASSUME NEW n \in Nat PROVE OnlyAt(d, t, setSeq(t, d, n))
  BY <1>1 DEF setSeq, Table, EndDevice
<1>5. ASSUME NEW n \in Nat, NEW key \in SessionKey
      PROVE  OnlyAt(d, t, setSessionkey(t, d, key, n))
  BY <1>1 DEF setSessionkey, Table, EndDevice
<1>6. OnlyAt(d, t, setSessionKeyCheck(t, d, TRUE))
  BY <1>1 DEF setSessionKeyCheck, hasSessionKey, Table, EndDevice
<1>7. OnlyAt(d, t, silent(t, d))
  BY <1>1 DEF silent, Table, EndDevice
<1> QED BY <1>2, <1>3, <1>4, <1>5, <1>6, <1>7

(* What each method does to the device it is called for.                   *)
LEMMA AddDeviceEntry ==
  ASSUME NEW t \in Table, NEW d \in Device, NEW n \in Nat
  PROVE  /\ addDevice(t, d, n)[d] \in EndDevice /\ addDevice(t, d, n)[d] # NoEntry
         /\ addDevice(t, d, n)[d] = [myDevice |-> TRUE, sessionKeyExists |-> FALSE,
                                     sessionKeyCheck |-> FALSE, sessionKey |-> NullKey,
                                     dha |-> n, seq |-> 0, expired |-> FALSE]
<1>1. addDevice(t, d, n)[d] \in EndDevice
  BY DEF addDevice, Table, EndDevice, SessionKey, NullKey
<1> QED BY <1>1, NoEntryAssumption DEF addDevice, Table

-----------------------------------------------------------------------------
(* Frames and containers.                                                  *)

(* What vector::erase leaves: the rest, closed up.                         *)
LEMMA EraseAtProperties ==
  ASSUME NEW S, NEW s \in Seq(S), NEW i \in 1..Len(s)
  PROVE  /\ EraseAt(s, i) \in Seq(S)
         /\ Len(EraseAt(s, i)) = Len(s) - 1
         /\ \A j \in 1..(Len(s) - 1) : EraseAt(s, i)[j] = IF j < i THEN s[j] ELSE s[j + 1]
<1> DEFINE a == SubSeq(s, 1, i - 1)
           b == SubSeq(s, i + 1, Len(s))
<1>1. Len(s) \in Nat /\ \A j \in 1..Len(s) : s[j] \in S
  BY LenProperties, ElementOfSeq
<1>2. a \in Seq(S) /\ Len(a) = i - 1 /\ \A j \in 1..(i - 1) : a[j] = s[j]
  <2>1. \A j \in 1..(i - 1) : s[j] \in S
    BY <1>1
  <2>2. /\ a \in Seq(S)
        /\ Len(a) = IF 1 <= i - 1 THEN (i - 1) - 1 + 1 ELSE 0
        /\ \A j \in 1..((i - 1) - 1 + 1) : a[j] = s[1 + j - 1]
    BY <2>1, SubSeqProperties
  <2> HIDE DEF a
  <2> QED BY <1>1, <2>2
<1>3. /\ b \in Seq(S) /\ Len(b) = Len(s) - i
      /\ \A j \in 1..(Len(s) - i) : b[j] = s[i + j]
  <2>1. \A j \in (i + 1)..Len(s) : s[j] \in S
    BY <1>1
  <2>2. /\ b \in Seq(S)
        /\ Len(b) = IF i + 1 <= Len(s) THEN Len(s) - (i + 1) + 1 ELSE 0
        /\ \A j \in 1..(Len(s) - (i + 1) + 1) : b[j] = s[(i + 1) + j - 1]
    BY <1>1, <2>1, SubSeqProperties
  <2> HIDE DEF b
  <2> QED BY <1>1, <2>2
<1>4. EraseAt(s, i) = a \o b
  BY DEF EraseAt
<1> HIDE DEF a, b
<1>5. /\ a \o b \in Seq(S) /\ Len(a \o b) = Len(a) + Len(b)
      /\ \A j \in 1..(Len(a) + Len(b)) :
            (a \o b)[j] = IF j <= Len(a) THEN a[j] ELSE b[j - Len(a)]
  BY <1>2, <1>3, ConcatProperties
<1>6. ASSUME NEW j \in 1..(Len(s) - 1)
      PROVE  (a \o b)[j] = IF j < i THEN s[j] ELSE s[j + 1]
  <2>1. j \in 1..(Len(a) + Len(b))
    BY <1>1, <1>2, <1>3
  <2>2. CASE j < i
    BY <1>2, <1>5, <2>1, <2>2
  <2>3. CASE ~(j < i)
    <3>1. (a \o b)[j] = b[j - (i - 1)] /\ j - (i - 1) \in 1..(Len(s) - i)
      BY <1>1, <1>2, <1>5, <2>1, <2>3
    <3> QED BY <1>3, <2>3, <3>1
  <2> QED BY <2>2, <2>3
<1> QED BY <1>1, <1>2, <1>3, <1>4, <1>5, <1>6

(* The largest of some numbers up to a bound.                              *)
LEMMA MaxOfBounded ==
  ASSUME NEW n \in Nat, NEW S \in SUBSET (0..n), S # {}
  PROVE  Max(S) \in S
<1> DEFINE R == {n - x : x \in S}
<1>1. R \in SUBSET Nat /\ R # {}
  <2>1. \A x \in S : n - x \in Nat
    OBVIOUS
  <2>2. \E x \in S : n - x \in R
    OBVIOUS
  <2> QED BY <2>1, <2>2
<1>2. PICK r \in R : \A y \in R : ~(<<y, r>> \in OpToRel(<, Nat))
  BY <1>1, NatLessThanWellFounded, WFMin
<1>3. PICK x \in S : r = n - x
  OBVIOUS
<1>4. \A y \in S : x >= y
  <2> SUFFICES ASSUME NEW y \in S PROVE x >= y
    OBVIOUS
  <2>1. n - y \in R /\ n - y \in Nat /\ r \in Nat
    BY <1>1
  <2>2. ~(n - y < r)
    BY <1>2, <2>1 DEF OpToRel
  <2> QED BY <1>3, <2>2
<1> QED BY <1>3, <1>4 DEF Max

(* The frame of the pass fromLora works on, while it works on one.         *)
LEMMA CurProperties ==
  ASSUME TypeOK, InHand, loraPc \in HasFrame \/ (loraPc = "new" /\ inVector # <<>>)
  PROVE  /\ cur \in Frame /\ cur = inVector[1] /\ Len(inVector) \in Nat \ {0}
         /\ Tail(inVector) \in Seq(Frame) /\ Len(Tail(inVector)) = Len(inVector) - 1
         /\ \A i \in 1..(Len(inVector) - 1) : Tail(inVector)[i] = inVector[i + 1]
         /\ loraFrame = cur
<1>1. inVector \in Seq(Frame) /\ inVector # <<>>
  BY DEF TypeOK, InHand
<1>2. cur = inVector[1] /\ cur \in Frame
  BY <1>1, HeadTailProperties DEF cur
<1>3. loraFrame = cur
  BY DEF loraFrame, HasFrame
<1> QED BY <1>1, <1>2, <1>3, HeadTailProperties, EmptySeq

(* The cached frame fromLora works on is in the cache, and carries data.   *)
LEMMA OldProperties ==
  ASSUME TypeOK, InHand, loraPc \in OldPc \/ (loraPc = "old" /\ historyIterator <= Len(oldData))
  PROVE  /\ historyIterator \in 1..Len(oldData) /\ Len(oldData) \in Nat
         /\ old \in DataFrame /\ old \in Frame
         /\ loraPc \in OldPc \cup {"old"} => loraFrame = old
<1>1. oldData \in Seq(DataFrame) /\ historyIterator \in Nat \ {0} /\ Len(oldData) \in Nat
  BY DEF TypeOK, InHand
<1>2. historyIterator \in 1..Len(oldData)
  BY <1>1 DEF InHand
<1>3. old \in DataFrame
  BY <1>1, <1>2, ElementOfSeq DEF old
<1> QED BY <1>1, <1>2, <1>3 DEF DataFrame, loraFrame, OldPc

-----------------------------------------------------------------------------
(* The shape of the state.                                                 *)

(* Each step of Next keeps the table a table.                              *)
LEMMA TableStep ==
  ASSUME TypeOK, InHand, [Next]_vars
  PROVE  map' \in Table
<1> USE DEF TypeOK, LoraAddDevice, StiotSetSessionkey
<1>1. CASE LoraRegister
  BY <1>1, CurProperties, TableMethods DEF LoraRegister, HasFrame, Frame, OnlyAt
<1>2. CASE LoraUpdate
  BY <1>2, CurProperties, TableMethods DEF LoraUpdate, HasFrame, Frame, OnlyAt
<1>3. CASE LoraSetCheck
  BY <1>3, CurProperties, TableMethods DEF LoraSetCheck, HasFrame, Frame, OnlyAt
<1>4. CASE LoraNoKey
  <2>1. map' = map \/ map' = addDevice(map, cur.dev, 0)
    BY <1>4 DEF LoraNoKey
  <2>2. cur.dev \in Device
    BY <1>4, CurProperties DEF LoraNoKey, HasFrame, Frame
  <2>3. OnlyAt(cur.dev, map, addDevice(map, cur.dev, 0))
    BY <2>2, TableMethods, Zenon, 0 \in Nat
  <2> QED BY <2>1, <2>3 DEF OnlyAt
<1>5. CASE LoraOldSeq
  BY <1>5, OldProperties, TableMethods DEF LoraOldSeq, OldPc, Frame, OnlyAt
<1>6. CASE LoraOldCheck
  BY <1>6, OldProperties, TableMethods DEF LoraOldCheck, OldPc, Frame, OnlyAt
<1>7. CASE StiotKeyaSet
  BY <1>7, TableMethods DEF StiotKeyaSet, Message, OnlyAt
<1>8. CASE StiotRegaSet
  BY <1>8, TableMethods DEF StiotRegaSet, Message, OnlyAt
<1>9. CASE StiotSetSeq
  BY <1>9, TableMethods DEF StiotSetSeq, Message, OnlyAt
<1>10. CASE TimerFlush
  BY <1>10 DEF TimerFlush, updateByTimer, Table
<1>11. CASE Silence
  <2>1. PICK d \in Sleepy : map' = silent(map, d)
    BY <1>11 DEF Silence
  <2> QED BY <2>1, TableMethods, SleepyAssumption DEF OnlyAt
<1>12. CASE Restart
  BY <1>12 DEF Restart, Table
<1>13. CASE LoraWake \/ LoraRegr \/ LoraHasKey \/ LoraGetKey \/ LoraRxl \/ LoraHasCheck \/
           LoraKeys \/ LoraMine \/ LoraKeyr \/ LoraOldBegin \/ LoraOldHasKey \/ LoraOldRxl \/
           LoraSendAll
  BY <1>13 DEF LoraWake, LoraRegr, LoraHasKey, LoraGetKey, LoraRxl, LoraHasCheck, LoraKeys, LoraMine,
     LoraKeyr, LoraOldBegin, LoraOldHasKey, LoraOldRxl, LoraSendAll, loraVars,
     stiotVars, envVars, fateVars, hist
<1>14. CASE StiotTake \/ StiotIsMine \/ StiotKeyaSync \/ StiotKeyaNotify \/ StiotRegaDh
           \/ StiotRegaKey \/ StiotTxlKey \/ StiotTxlSeq \/ StiotGetKey \/ StiotEncrypt
           \/ StiotSend \/ ServerReceive \/ UNCHANGED vars
  BY <1>14 DEF StiotTake, StiotIsMine, StiotKeyaSync, StiotKeyaNotify, StiotRegaDh,
     StiotRegaKey, StiotTxlKey, StiotTxlSeq, StiotGetKey, StiotEncrypt, StiotSend,
     ServerReceive, vars, loraVars, stiotVars, envVars, fateVars, hist
<1>15. ASSUME NEW d \in Device, DeviceRegister(d) \/ DeviceSend(d) \/ DeviceReceive(d)
            \/ ServerTxl(d)
      PROVE  map' \in Table
  BY <1>15 DEF DeviceRegister, DeviceSend, DeviceReceive, ServerTxl, loraVars,
     stiotVars, envVars, fateVars, hist
<1> QED BY <1>1, <1>2, <1>3, <1>4, <1>5, <1>6, <1>7, <1>8, <1>9, <1>10, <1>11, <1>12,
   <1>13, <1>14, <1>15 DEF Next, LoraStep, LoraPass, StiotStep, Environment

(* Frames move between the containers, and none is made but by a device.   *)
FramesIn4(S) ==
  /\ fromLoraData \in Seq(S) /\ inVector \in Seq(S)
  /\ oldData \in Seq(S \cap DataFrame) /\ outVector \in Seq(S \cap DataFrame)

(* No step makes up a frame: each container holds frames that were in one. *)
LEMMA FramesMove ==
  ASSUME TypeOK, InHand, [Next]_vars, NEW S \in SUBSET Frame, FramesIn4(S)
  PROVE  \/ FramesIn4(S)'
         \/ \E d \in Device : DeviceRegister(d) \/ DeviceSend(d)
<1> USE DEF FramesIn4, DataFrame
<1>e. << >> \in Seq(S) /\ << >> \in Seq(S \cap DataFrame)
  OBVIOUS
<1>1. CASE LoraWake
  BY <1>1, <1>e DEF LoraWake
<1>2. CASE LoraRegr
  <2>1. Tail(inVector) \in Seq(S)
    BY <1>2, HeadTailProperties DEF InHand, HasFrame, LoraRegr
  <2> QED BY <1>2, <2>1 DEF LoraRegr, loraVars, fateVars
<1>3. CASE LoraRxl
  <2>1. Tail(inVector) \in Seq(S)
    BY <1>3, HeadTailProperties DEF InHand, HasFrame, LoraRxl
  <2> QED BY <1>3, <2>1 DEF LoraRxl, loraVars, fateVars
<1>4. CASE LoraUpdate
  <2>1. cur \in S \cap DataFrame
    BY <1>4, HeadTailProperties DEF InHand, HasFrame, LoraUpdate, cur
  <2>2. Append(outVector, cur) \in Seq(S \cap DataFrame)
    BY <2>1, AppendProperties
  <2> QED BY <1>4, <2>1, <2>2 DEF LoraUpdate
<1>5. CASE LoraHasCheck \/ LoraKeys
  <2>1. Tail(inVector) \in Seq(S)
    BY <1>5, HeadTailProperties DEF InHand, HasFrame, LoraHasCheck, LoraKeys
  <2> QED BY <1>5, <2>1 DEF LoraHasCheck, LoraKeys, loraVars, fateVars
<1>6. CASE LoraMine
  <2>1. Tail(inVector) \in Seq(S)
    BY <1>6, HeadTailProperties DEF InHand, HasFrame, LoraMine
  <2> QED BY <1>6, <2>1 DEF LoraMine, loraVars, fateVars
<1>7. CASE LoraKeyr
  <2>1. Tail(inVector) \in Seq(S) /\ cur \in S \cap DataFrame
    BY <1>7, HeadTailProperties DEF InHand, HasFrame, LoraKeyr, cur
  <2>2. Append(oldData, cur) \in Seq(S \cap DataFrame)
    BY <2>1, AppendProperties
  <2> QED BY <1>7, <2>1, <2>2 DEF LoraKeyr
<1>8. CASE LoraOldRxl
  <2>1. historyIterator \in 1..Len(oldData)
    BY <1>8, OldProperties DEF OldPc, LoraOldRxl
  <2>2. EraseAt(oldData, historyIterator) \in Seq(S \cap DataFrame)
    BY <2>1, EraseAtProperties
  <2>3. old \in S \cap DataFrame
    BY <2>1, ElementOfSeq DEF old
  <2>4. Append(outVector, old) \in Seq(S \cap DataFrame)
    BY <2>3, AppendProperties
  <2> QED BY <1>8, <2>2, <2>4 DEF LoraOldRxl
<1>9. CASE LoraOldCheck
  <2>1. historyIterator \in 1..Len(oldData)
    BY <1>9, OldProperties DEF OldPc, LoraOldCheck
  <2>2. EraseAt(oldData, historyIterator) \in Seq(S \cap DataFrame)
    BY <2>1, EraseAtProperties
  <2>3. old \in S \cap DataFrame
    BY <2>1, ElementOfSeq DEF old
  <2>4. Append(outVector, old) \in Seq(S \cap DataFrame)
    BY <2>3, AppendProperties
  <2> QED BY <1>9, <2>2, <2>4 DEF LoraOldCheck
<1>10. CASE LoraSendAll
  BY <1>10, <1>e DEF LoraSendAll
<1>11. CASE Restart
  BY <1>11, <1>e DEF Restart
<1>12. CASE LoraRegister \/ LoraHasKey \/ LoraGetKey \/ LoraSetCheck \/ LoraNoKey \/
           LoraOldBegin \/ LoraOldHasKey \/ LoraOldSeq
  BY <1>12 DEF LoraRegister, LoraHasKey, LoraGetKey, LoraSetCheck, LoraNoKey,
     LoraOldBegin, LoraOldHasKey, LoraOldSeq, loraVars, stiotVars, envVars, fateVars,
     hist
<1>13. CASE StiotTake \/ StiotIsMine \/ StiotKeyaSet \/ StiotKeyaSync \/ StiotKeyaNotify
           \/ StiotRegaDh \/ StiotRegaKey \/ StiotRegaSet \/ StiotTxlKey \/ StiotTxlSeq
           \/ StiotGetKey \/ StiotEncrypt \/ StiotSetSeq \/ StiotSend \/ TimerFlush \/
           Silence \/ ServerReceive \/ UNCHANGED vars
  BY <1>13 DEF StiotTake, StiotIsMine, StiotKeyaSet, StiotKeyaSync, StiotKeyaNotify,
     StiotRegaDh, StiotRegaKey, StiotRegaSet, StiotTxlKey, StiotTxlSeq, StiotGetKey,
     StiotEncrypt, StiotSetSeq, StiotSend, TimerFlush, Silence, ServerReceive, vars,
     loraVars, stiotVars, envVars, fateVars, hist
<1>14. ASSUME NEW d \in Device, DeviceReceive(d) \/ ServerTxl(d)
      PROVE  FramesIn4(S)'
  BY <1>14 DEF DeviceReceive, ServerTxl, loraVars, stiotVars, envVars, fateVars, hist
<1> QED BY <1>1, <1>2, <1>3, <1>4, <1>5, <1>6, <1>7, <1>8, <1>9, <1>10, <1>11, <1>12,
   <1>13, <1>14 DEF Next, LoraStep, LoraPass, StiotStep, Environment

(* Keys and numbers the table gives are of their types.                    *)
LEMMA TableAnswers ==
  ASSUME map \in Table, NEW d \in Device
  PROVE  /\ getSeq(map, d) \in Nat
         /\ hasSessionKey(map, d) => isInTable(map, d)
         /\ isInTable(map, d) => /\ map[d].sessionKey \in SessionKey /\ map[d].dha \in Nat
                                 /\ map[d] \in EndDevice
BY EntryType DEF getSeq, hasSessionKey, EndDevice

(* A message made of a device, a number and a key is a message.            *)
LEMMA MsgType ==
  ASSUME NEW type \in {"REGR", "RXL", "KEYS", "KEYR", "REGA", "KEYA", "TXL"},
         NEW d \in Device, NEW n \in Nat, NEW key \in SessionKey
  PROVE  /\ Msg(type, d, n, key) \in Message
         /\ type \in {"REGA", "KEYA", "TXL"} => Msg(type, d, n, key) \in FromServer
         /\ LET m == Msg(type, d, n, key) IN
              m.type = type /\ m.dev = d /\ m.n = n /\ m.key = key
BY DEF Msg, Message, FromServer

(* The two keys the initial states name are keys.                          *)
LEMMA KeyTypes == NullKey \in SessionKey /\ OldKey \in SessionKey
BY DEF NullKey, OldKey, SessionKey

(* What fromStiot has in hand before its first message.                    *)
LEMMA NoMessageType == NoMessage \in FromServer /\ NoMessage \in Message /\ NoMessage.key = NullKey
<1>1. (CHOOSE d \in Device : TRUE) \in Device
  BY DeviceAssumption
<1> QED BY <1>1, KeyTypes, MsgType DEF NoMessage, FromServer

(* The forwarded frames, as messages.                                      *)
LEMMA ForwardedType ==
  ASSUME NEW S \in SUBSET Message, NEW s \in Seq(DataFrame),
         \A i \in 1..Len(s) : RXL(s[i]) \in S
  PROVE  /\ [i \in 1..Len(s) |-> RXL(s[i])] \in Seq(S)
         /\ Len([i \in 1..Len(s) |-> RXL(s[i])]) = Len(s)
<1>1. Len(s) \in Nat
  BY LenProperties
<1> QED BY <1>1

(* The key the server answers a KEYR with is one it keeps.                 *)
LEMMA LastKeyType ==
  ASSUME TypeOK, NEW d \in Device, srvKeys[d] # <<>>
  PROVE  LastKey(d) \in SessionKey /\ Len(srvKeys[d]) \in DOMAIN srvKeys[d]
<1>1. srvKeys[d] \in Seq(SessionKey)
  BY DEF TypeOK
<1> QED BY <1>1, ElementOfSeq, EmptySeq, LenProperties DEF LastKey

(* The number it answers with is a number.                                 *)
LEMMA LastSeqType == ASSUME NEW d \in Device PROVE LastSeq(d) \in Nat
<1> DEFINE S == {0} \cup {n \in 1..MaxData : <<d, n>> \in delivered}
<1>1. S \in SUBSET (0..MaxData) /\ S # {} /\ MaxData \in Nat
  BY BoundsAssumption
<1>2. Max(S) \in S
  BY <1>1, MaxOfBounded
<1> QED BY <1>1, <1>2 DEF LastSeq

(* Messages move from queue to queue; what S and T must hold for the new   *)
(* ones to be in them.                                                     *)
NewMessages(S, T) ==
  /\ loraPc = "regr" => Msg("REGR", cur.dev, cur.n, NullKey) \in S
  /\ loraPc = "keys" /\ hasSessionKey(map, cur.dev) =>
       Msg("KEYS", cur.dev, getSeq(map, cur.dev), map[cur.dev].sessionKey) \in S
  /\ loraPc = "keyr" => Msg("KEYR", cur.dev, 0, NullKey) \in S
  /\ stiotPc = "txlKey" => Msg("KEYR", in.dev, 0, NullKey) \in S
  /\ \A i \in 1..Len(outVector) : RXL(outVector[i]) \in S
  /\ NoMessage \in T
  /\ \A d \in Device : Msg("TXL", d, 0, NullKey) \in T
  /\ \A m \in S : /\ m.type = "REGR" => Msg("REGA", m.dev, 0, NullKey) \in T
                  /\ m.type = "KEYR" /\ srvKeys[m.dev] # <<>> =>
                       Msg("KEYA", m.dev, LastSeq(m.dev), LastKey(m.dev)) \in T

(* No step makes up a message either: each is one that NewMessages lists.  *)
LEMMA MessagesMove ==
  ASSUME TypeOK, InHand, [Next]_vars, NEW S \in SUBSET Message, NEW T \in SUBSET Message,
         upQ \in Seq(S), fromStiotData \in Seq(T), NewMessages(S, T)
  PROVE  /\ upQ' \in Seq(S) /\ fromStiotData' \in Seq(T)
         /\ in' \in T \/ in' = in
<1> DEFINE Moved == /\ upQ' \in Seq(S) /\ fromStiotData' \in Seq(T)
                    /\ in' \in T \/ in' = in
<1>t. upQ \in Seq(S) /\ fromStiotData \in Seq(T) /\ map \in Table /\ NewMessages(S, T)
  BY DEF TypeOK
<1>1. CASE LoraRegr
  <2>1. Msg("REGR", cur.dev, cur.n, NullKey) \in S
    BY <1>1, <1>t DEF LoraRegr, NewMessages
  <2>2. Append(upQ, Msg("REGR", cur.dev, cur.n, NullKey)) \in Seq(S)
    BY <1>t, <2>1, AppendProperties
  <2> QED BY <1>1, <1>t, <2>2 DEF LoraRegr, stiotVars
<1>2. CASE LoraKeys
  <2> DEFINE m == Msg("KEYS", cur.dev, getSeq(map, cur.dev), map[cur.dev].sessionKey)
  <2>2. CASE getSessionKeyIsNull(map, cur.dev)
    BY <1>2, <1>t, <2>2 DEF LoraKeys, stiotVars
  <2>3. CASE ~getSessionKeyIsNull(map, cur.dev)
    <3>1. m \in S
      BY <1>2, <1>t, <2>3 DEF getSessionKeyIsNull, LoraKeys, NewMessages
    <3>2. Append(upQ, m) \in Seq(S)
      BY <1>t, <3>1, AppendProperties
    <3> QED BY <1>2, <1>t, <2>3, <3>2 DEF LoraKeys, stiotVars
  <2> QED BY <2>2, <2>3
<1>3. CASE LoraKeyr
  <2>1. Msg("KEYR", cur.dev, 0, NullKey) \in S
    BY <1>3, <1>t DEF LoraKeyr, NewMessages
  <2>2. Append(upQ, Msg("KEYR", cur.dev, 0, NullKey)) \in Seq(S)
    BY <1>t, <2>1, AppendProperties
  <2> QED BY <1>3, <1>t, <2>2 DEF LoraKeyr, stiotVars
<1>4. CASE LoraSendAll
  <2> DEFINE r == [i \in 1..Len(outVector) |-> RXL(outVector[i])]
  <2>1. outVector \in Seq(DataFrame)
    BY DEF InHand
  <2>2. \A i \in 1..Len(outVector) : RXL(outVector[i]) \in S
    BY <1>t DEF NewMessages
  <2>3. r \in Seq(S)
    BY <2>1, <2>2, ForwardedType
  <2> HIDE DEF r
  <2>4. upQ \o r \in Seq(S)
    BY <1>t, <2>3, ConcatProperties
  <2> USE DEF r
  <2> QED BY <1>4, <1>t, <2>4 DEF LoraSendAll, stiotVars
<1>5. CASE StiotTake
  <2>1. Head(fromStiotData) \in T /\ Tail(fromStiotData) \in Seq(T)
    BY <1>5, <1>t, HeadTailProperties DEF StiotTake
  <2> QED BY <1>5, <1>t, <2>1 DEF StiotTake
<1>6. CASE StiotTxlKey
  <2>1. Msg("KEYR", in.dev, 0, NullKey) \in S
    BY <1>6, <1>t DEF StiotTxlKey, NewMessages
  <2>2. Append(upQ, Msg("KEYR", in.dev, 0, NullKey)) \in Seq(S)
    BY <1>t, <2>1, AppendProperties
  <2> QED BY <1>6, <1>t, <2>2 DEF StiotTxlKey
<1>7. CASE ServerReceive
  <2> DEFINE m == Head(upQ)
  <2>1. m \in S /\ Tail(upQ) \in Seq(S)
    <3>1. upQ # <<>>
      BY <1>7 DEF ServerReceive
    <3> QED BY <1>t, <3>1, HeadTailProperties
  <2> HIDE DEF m
  <2>2. /\ upQ' = Tail(upQ) /\ in' = in
        /\ \/ fromStiotData' = fromStiotData
           \/ m.type = "KEYR" /\ srvKeys[m.dev] # <<>>
              /\ fromStiotData' =
                   Append(fromStiotData, Msg("KEYA", m.dev, LastSeq(m.dev), LastKey(m.dev)))
           \/ m.type = "REGR"
              /\ fromStiotData' = Append(fromStiotData, Msg("REGA", m.dev, 0, NullKey))
    BY <1>7 DEF ServerReceive, AddToQueue, stiotVars, m
  <2>3. m.type = "REGR" => Msg("REGA", m.dev, 0, NullKey) \in T
    BY <1>t, <2>1 DEF NewMessages
  <2>4. m.type = "KEYR" /\ srvKeys[m.dev] # <<>> =>
          Msg("KEYA", m.dev, LastSeq(m.dev), LastKey(m.dev)) \in T
    BY <1>t, <2>1 DEF NewMessages
  <2>5. fromStiotData' \in Seq(T)
    <3>1. \A x \in T : Append(fromStiotData, x) \in Seq(T)
      BY <1>t, AppendProperties
    <3> QED BY <1>t, <2>2, <2>3, <2>4, <3>1
  <2> QED BY <1>t, <2>1, <2>2, <2>5
<1>8. CASE Restart
  <2>1. fromStiotData' = <<>> /\ in' = NoMessage /\ upQ' = <<>>
    BY <1>8 DEF Restart
  <2> QED BY <1>t, <2>1 DEF NewMessages
<1>9. ASSUME NEW d \in Device, ServerTxl(d) PROVE Moved
  <2>1. Msg("TXL", d, 0, NullKey) \in T
    BY <1>t DEF NewMessages
  <2> QED BY <1>9, <1>t, <2>1, AppendProperties DEF ServerTxl, AddToQueue, stiotVars
<1>10. CASE LoraWake \/ LoraRegister \/ LoraHasKey \/ LoraGetKey \/ LoraRxl \/
           LoraUpdate \/ LoraHasCheck \/ LoraSetCheck \/ LoraNoKey \/ LoraMine \/ LoraOldBegin \/
           LoraOldHasKey \/ LoraOldRxl \/ LoraOldSeq \/ LoraOldCheck
  BY <1>10, <1>t DEF LoraWake, LoraRegister, LoraHasKey, LoraGetKey, LoraRxl, LoraUpdate, LoraHasCheck,
     LoraSetCheck, LoraNoKey, LoraMine, LoraOldBegin, LoraOldHasKey, LoraOldRxl,
     LoraOldSeq, LoraOldCheck, loraVars, stiotVars, envVars, fateVars, hist
<1>11. CASE StiotIsMine \/ StiotKeyaSet \/ StiotKeyaSync \/ StiotKeyaNotify \/
           StiotRegaDh \/ StiotRegaKey \/ StiotRegaSet \/ StiotTxlSeq \/ StiotGetKey \/
           StiotEncrypt \/ StiotSetSeq \/ StiotSend \/ TimerFlush \/ Silence \/
           UNCHANGED vars
  BY <1>11, <1>t DEF StiotIsMine, StiotKeyaSet, StiotKeyaSync, StiotKeyaNotify, StiotRegaDh,
     StiotRegaKey, StiotRegaSet, StiotTxlSeq, StiotGetKey, StiotEncrypt, StiotSetSeq,
     StiotSend, TimerFlush, Silence, vars, loraVars, stiotVars, envVars, fateVars, hist
<1>12. ASSUME NEW d \in Device, DeviceRegister(d) \/ DeviceSend(d) \/ DeviceReceive(d)
      PROVE  Moved
  BY <1>12, <1>t DEF DeviceRegister, DeviceSend, DeviceReceive, loraVars, stiotVars, envVars,
     fateVars, hist
<1> QED BY <1>1, <1>2, <1>3, <1>4, <1>5, <1>6, <1>7, <1>8, <1>9, <1>10, <1>11, <1>12 DEF
   Next, LoraStep, LoraPass, StiotStep, Environment

ServerSeqs == /\ fromStiotData \in Seq(FromServer) /\ in \in FromServer
              /\ upQ \in Seq(Message)

(* The queues of messages keep their types.                                *)
LEMMA ServerSeqsStep ==
  ASSUME TypeOK, InHand, [Next]_vars
  PROVE  ServerSeqs'
<1>t. /\ fromStiotData \in Seq(FromServer) /\ in \in FromServer
      /\ upQ \in Seq(Message) /\ map \in Table /\ FromServer \in SUBSET Message
      /\ in.dev \in Device
  BY DEF TypeOK, InHand, FromServer, Message
<1>1. NewMessages(Message, FromServer)
  <2>1. loraPc \in {"regr", "keys", "keyr"} => cur.dev \in Device /\ cur.n \in Nat
    BY CurProperties DEF HasFrame, Frame
  <2>2. \A i \in 1..Len(outVector) : RXL(outVector[i]) \in Message
    <3>1. outVector \in Seq(DataFrame)
      BY DEF InHand
    <3> QED BY <3>1, ElementOfSeq, MsgType DEF RXL, DataFrame, Frame
  <2>3. loraPc = "keys" /\ hasSessionKey(map, cur.dev) =>
          Msg("KEYS", cur.dev, getSeq(map, cur.dev), map[cur.dev].sessionKey) \in Message
    BY <1>t, <2>1, TableAnswers, MsgType
  <2>4. \A m \in Message :
          /\ Msg("REGA", m.dev, 0, NullKey) \in FromServer
          /\ srvKeys[m.dev] # <<>> =>
               Msg("KEYA", m.dev, LastSeq(m.dev), LastKey(m.dev)) \in FromServer
    <3>1. \A m \in Message : m.dev \in Device
      BY DEF Message
    <3> QED BY <3>1, MsgType, KeyTypes, LastKeyType, LastSeqType
  <2>5. /\ loraPc = "regr" => Msg("REGR", cur.dev, cur.n, NullKey) \in Message
        /\ loraPc = "keyr" => Msg("KEYR", cur.dev, 0, NullKey) \in Message
    BY <2>1, MsgType, KeyTypes
  <2>6. /\ Msg("KEYR", in.dev, 0, NullKey) \in Message
        /\ \A d \in Device : Msg("TXL", d, 0, NullKey) \in FromServer
    BY <1>t, MsgType, KeyTypes
  <2> QED BY <2>2, <2>3, <2>4, <2>5, <2>6, NoMessageType DEF NewMessages
<1> QED BY <1>t, <1>1, MessagesMove DEF ServerSeqs

Controls ==
  /\ loraPc \in LoraPc /\ loraPtr \in Pointer /\ historyIterator \in Nat \ {0}
  /\ stiotPc \in StiotPc /\ stiotPtr \in Pointer
  /\ fault \in {"no", "lora", "stiot"}

(* The program counters and pointers keep their types.                     *)
LEMMA ControlsStep ==
  ASSUME TypeOK, InHand, [Next]_vars
  PROVE  Controls'
<1>t. Controls /\ in \in FromServer
  BY DEF Controls, TypeOK, InHand
<1> USE <1>t DEF Controls, LoraPc, StiotPc, Pointer, Erased, Goto, StiotGoto, StiotDone,
            LoraAddDevice, StiotPtrAfterErase, LoraPtrAfterErase, loraVars, stiotVars
<1>1. CASE LoraWake
  BY <1>1 DEF LoraWake
<1>2. CASE LoraRegister
  BY <1>2 DEF LoraRegister
<1>3. CASE LoraRegr
  BY <1>3 DEF LoraRegr
<1>4. CASE LoraHasKey
  BY <1>4 DEF LoraHasKey
<1>5. CASE LoraGetKey
  BY <1>5 DEF LoraGetKey
<1>6. CASE LoraRxl
  BY <1>6 DEF LoraRxl
<1>7. CASE LoraUpdate
  BY <1>7 DEF LoraUpdate
<1>h. CASE LoraHasCheck
  BY <1>h DEF LoraHasCheck
<1>8. CASE LoraSetCheck
  BY <1>8 DEF LoraSetCheck
<1>9. CASE LoraKeys
  BY <1>9 DEF LoraKeys
<1>10. CASE LoraNoKey
  BY <1>10 DEF LoraNoKey
<1>11. CASE LoraMine
  BY <1>11 DEF LoraMine
<1>12. CASE LoraKeyr
  BY <1>12 DEF LoraKeyr
<1>13. CASE LoraOldBegin
  BY <1>13 DEF LoraOldBegin
<1>14. CASE LoraOldHasKey
  BY <1>14 DEF LoraOldHasKey
<1>15. CASE LoraOldRxl
  BY <1>15 DEF LoraOldRxl
<1>16. CASE LoraOldSeq
  BY <1>16 DEF LoraOldSeq
<1>17. CASE LoraOldCheck
  BY <1>17 DEF LoraOldCheck
<1>18. CASE LoraSendAll
  BY <1>18 DEF LoraSendAll
<1>19. CASE StiotIsMine
  <2>1. in.type \in {"KEYA", "REGA", "TXL"}
    BY DEF FromServer
  <2> QED BY <1>19, <2>1 DEF StiotIsMine
<1>20. CASE TimerFlush
  BY <1>20 DEF TimerFlush
<1>21. ASSUME NEW d \in Device, DeviceRegister(d) PROVE Controls'
  BY <1>21 DEF DeviceRegister, AddBulk, AddToQueue
<1>22. ASSUME NEW d \in Device, DeviceSend(d) PROVE Controls'
  BY <1>22 DEF DeviceSend, AddBulk, AddToQueue
<1>23. CASE StiotTake \/ StiotKeyaSet \/ StiotKeyaSync \/ StiotKeyaNotify \/ StiotRegaDh
           \/ StiotRegaKey \/ StiotRegaSet \/ StiotTxlKey \/ StiotTxlSeq \/ StiotGetKey
           \/ StiotEncrypt \/ StiotSetSeq \/ StiotSend
  BY <1>23 DEF StiotTake, StiotKeyaSet, StiotKeyaSync, StiotKeyaNotify, StiotRegaDh,
     StiotRegaKey, StiotRegaSet, StiotTxlKey, StiotTxlSeq, StiotGetKey, StiotEncrypt,
     StiotSetSeq, StiotSend
<1>24. CASE Silence \/ ServerReceive \/ Restart \/ UNCHANGED vars
  BY <1>24 DEF Silence, ServerReceive, Restart, vars
<1>25. ASSUME NEW d \in Device, DeviceReceive(d) \/ ServerTxl(d)
      PROVE  Controls'
  BY <1>25 DEF DeviceReceive, ServerTxl
<1> QED BY <1>1, <1>2, <1>3, <1>4, <1>5, <1>6, <1>7, <1>h, <1>8, <1>9, <1>10, <1>11, <1>12,
   <1>13, <1>14, <1>15, <1>16, <1>17, <1>18, <1>19, <1>20, <1>21, <1>22, <1>23, <1>24,
   <1>25 DEF Next, LoraStep, LoraPass, StiotStep, Environment

(* The notification flag is a flag.                                        *)
LEMMA WokenStep ==
  ASSUME TypeOK, [Next]_vars
  PROVE  woken' \in BOOLEAN
<1>t. woken \in BOOLEAN
  BY DEF TypeOK
<1>1. CASE LoraWake
  BY <1>1 DEF LoraWake
<1>2. CASE StiotKeyaNotify
  BY <1>2, <1>t, Zenon DEF StiotKeyaNotify
<1>3. CASE Restart
  BY <1>3 DEF Restart
<1>4. ASSUME NEW d \in Device, DeviceRegister(d) PROVE woken' \in BOOLEAN
  BY <1>4 DEF DeviceRegister, AddBulk
<1>5. ASSUME NEW d \in Device, DeviceSend(d) PROVE woken' \in BOOLEAN
  BY <1>5 DEF DeviceSend, AddBulk
<1>6. CASE LoraRegister \/ LoraRegr \/ LoraHasKey \/ LoraGetKey \/ LoraRxl \/ LoraUpdate \/ LoraHasCheck
           \/ LoraSetCheck \/ LoraKeys \/ LoraNoKey \/ LoraMine \/ LoraKeyr \/
           LoraOldBegin \/ LoraOldHasKey \/ LoraOldRxl \/ LoraOldSeq \/ LoraOldCheck \/
           LoraSendAll
  BY <1>6, <1>t DEF LoraRegister, LoraRegr, LoraHasKey, LoraGetKey, LoraRxl, LoraUpdate, LoraHasCheck,
     LoraSetCheck, LoraKeys, LoraNoKey, LoraMine, LoraKeyr, LoraOldBegin, LoraOldHasKey,
     LoraOldRxl, LoraOldSeq, LoraOldCheck, LoraSendAll
<1>7. CASE StiotTake \/ StiotIsMine \/ StiotKeyaSet \/ StiotKeyaSync \/ StiotRegaDh \/
           StiotRegaKey \/ StiotRegaSet \/ StiotTxlKey \/ StiotTxlSeq \/ StiotGetKey \/
           StiotEncrypt \/ StiotSetSeq \/ StiotSend \/ TimerFlush \/ Silence \/
           ServerReceive \/ UNCHANGED vars
  BY <1>7, <1>t DEF StiotTake, StiotIsMine, StiotKeyaSet, StiotKeyaSync, StiotRegaDh,
     StiotRegaKey, StiotRegaSet, StiotTxlKey, StiotTxlSeq, StiotGetKey, StiotEncrypt,
     StiotSetSeq, StiotSend, TimerFlush, Silence, ServerReceive, vars
<1>8. ASSUME NEW d \in Device, DeviceReceive(d) \/ ServerTxl(d)
      PROVE  woken' \in BOOLEAN
  BY <1>8, <1>t DEF DeviceReceive, ServerTxl
<1> QED BY <1>1, <1>2, <1>3, <1>4, <1>5, <1>6, <1>7, <1>8 DEF Next, LoraStep, LoraPass,
   StiotStep, Environment

KeysAndNumbers ==
  /\ sessionKey \in SessionKey /\ out \in SessionKey /\ seqNum \in Nat
  /\ air \subseteq [type : {"REGA", "TXL"}, dev : Device, half : Nat, key : SessionKey]
  /\ reg \in [Device -> Nat] /\ dataSent \in [Device -> Nat]
  /\ devKey \in [Device -> SessionKey] /\ srvKeys \in [Device -> Seq(SessionKey)]
  /\ txlSent \in Nat /\ nextPriv \in Nat

(* Keys, exponents and numbers keep their types.                           *)
LEMMA KeysAndNumbersStep ==
  ASSUME TypeOK, InHand, StiotPointer, [Next]_vars
  PROVE  KeysAndNumbers'
<1> USE DEF KeysAndNumbers
<1>t. KeysAndNumbers /\ map \in Table /\ in \in FromServer /\ in.dev \in Device /\ upQ \in Seq(Message)
  BY DEF TypeOK, InHand, FromServer, Message
<1>1. CASE StiotRegaKey
  <2>1. stiotPtr # "dangling" => map[in.dev].dha \in Nat
    BY <1>1, <1>t, TableAnswers DEF StiotRegaKey, StiotPointer
  <2>2. sessionKey' \in SessionKey /\ nextPriv' \in Nat
    <3>1. sessionKey \in SessionKey /\ nextPriv \in Nat /\ nextPriv + 1 \in Nat
      BY <1>t
    <3>2. CASE stiotPtr = "dangling"
      BY <1>1, <3>1, <3>2 DEF StiotRegaKey
    <3>3. CASE stiotPtr # "dangling"
      <4> DEFINE d == map[in.dev].dha
      <4>1. d \in Nat /\ sessionKey' = [dha |-> d, priv |-> nextPriv] /\ nextPriv' = nextPriv + 1
        BY <1>1, <2>1, <3>3 DEF StiotRegaKey
      <4> HIDE DEF d
      <4> QED BY <3>1, <4>1 DEF SessionKey
    <3> QED BY <3>2, <3>3
  <2> QED BY <1>1, <1>t, <2>2 DEF StiotRegaKey
<1>2. CASE StiotTxlSeq
  BY <1>2, <1>t, TableAnswers DEF StiotTxlSeq, envVars
<1>3. CASE StiotEncrypt
  <2>1. stiotPtr # "dangling" => map[in.dev].sessionKey \in SessionKey
    BY <1>3, <1>t, TableAnswers DEF StiotEncrypt, StiotPointer
  <2>2. seqNum' \in Nat
    <3>1. seqNum \in Nat
      BY <1>t
    <3>2. seqNum' \in RandomSeq \/ seqNum' = seqNum + 1 \/ seqNum' = seqNum
      BY <1>3 DEF StiotEncrypt
    <3>3. \A k \in RandomSeq : k \in Nat
      BY RandomAssumption
    <3>4. seqNum + 1 \in Nat
      BY <3>1
    <3> QED BY <3>1, <3>2, <3>3, <3>4
  <2>3. out' \in SessionKey
    BY <1>3, <1>t, <2>1 DEF StiotEncrypt
  <2> QED BY <1>3, <1>t, <2>2, <2>3 DEF StiotEncrypt, envVars
<1>4. CASE StiotSend
  <2>1. in.type \in {"REGA", "TXL"}
    BY <1>4 DEF StiotSend, StiotPointer
  <2> QED BY <1>4, <1>t, <2>1 DEF StiotSend, SessionKey, envVars
<1>5. CASE ServerReceive
  <2> DEFINE m == Head(upQ)
  <2>1. m \in Message
    <3>1. upQ # <<>>
      BY <1>5 DEF ServerReceive
    <3> QED BY <1>t, <3>1, HeadTailProperties
  <2> HIDE DEF m
  <2>2. srvKeys' = srvKeys \/ srvKeys' = [srvKeys EXCEPT ![m.dev] = Append(srvKeys[m.dev], m.key)]
    BY <1>5 DEF ServerReceive, m
  <2>3. m.dev \in Device /\ m.key \in SessionKey
    BY <2>1 DEF Message
  <2>4. Append(srvKeys[m.dev], m.key) \in Seq(SessionKey)
    BY <1>t, <2>3, AppendProperties
  <2>5. srvKeys' \in [Device -> Seq(SessionKey)]
    <3>1. srvKeys \in [Device -> Seq(SessionKey)]
      BY <1>t
    <3> QED BY <2>2, <2>3, <2>4, <3>1
  <2> QED BY <1>5, <1>t, <2>5 DEF ServerReceive, stiotVars
<1>6. CASE Restart
  BY <1>6, <1>t, KeyTypes DEF Restart, envVars
<1>7. ASSUME NEW d \in Device, DeviceRegister(d) PROVE KeysAndNumbers'
  BY <1>7, <1>t, KeyTypes DEF DeviceRegister, stiotVars
<1>8. ASSUME NEW d \in Device, DeviceSend(d) PROVE KeysAndNumbers'
  BY <1>8, <1>t DEF DeviceSend, stiotVars
<1>9. ASSUME NEW d \in Device, DeviceReceive(d) PROVE KeysAndNumbers'
  BY <1>9, <1>t DEF DeviceReceive, stiotVars
<1>10. ASSUME NEW d \in Device, ServerTxl(d) PROVE KeysAndNumbers'
  BY <1>10, <1>t DEF ServerTxl, stiotVars
<1>11. CASE LoraWake \/ LoraRegister \/ LoraRegr \/ LoraHasKey \/ LoraGetKey \/ LoraRxl
           \/ LoraUpdate \/ LoraHasCheck \/ LoraSetCheck \/ LoraKeys \/ LoraNoKey \/ LoraMine \/
           LoraKeyr \/ LoraOldBegin \/ LoraOldHasKey \/ LoraOldRxl \/ LoraOldSeq \/
           LoraOldCheck \/ LoraSendAll
  BY <1>11, <1>t DEF LoraWake, LoraRegister, LoraRegr, LoraHasKey, LoraGetKey, LoraRxl,
     LoraUpdate, LoraHasCheck, LoraSetCheck, LoraKeys, LoraNoKey, LoraMine, LoraKeyr, LoraOldBegin,
     LoraOldHasKey, LoraOldRxl, LoraOldSeq, LoraOldCheck, LoraSendAll, loraVars,
     stiotVars, envVars, fateVars, hist
<1>12. CASE StiotTake \/ StiotIsMine \/ StiotKeyaSet \/ StiotKeyaSync \/ StiotKeyaNotify
           \/ StiotRegaDh \/ StiotRegaSet \/ StiotTxlKey \/ StiotGetKey \/ StiotSetSeq
           \/ TimerFlush \/ Silence \/ UNCHANGED vars
  BY <1>12, <1>t DEF StiotTake, StiotIsMine, StiotKeyaSet, StiotKeyaSync, StiotKeyaNotify,
     StiotRegaDh, StiotRegaSet, StiotTxlKey, StiotGetKey, StiotSetSeq, TimerFlush,
     Silence, vars, loraVars, stiotVars, envVars, fateVars, hist
<1> QED BY <1>1, <1>2, <1>3, <1>4, <1>5, <1>6, <1>7, <1>8, <1>9, <1>10, <1>11, <1>12 DEF
   Next, LoraStep, LoraPass, StiotStep, Environment

Histories ==
  /\ delivered \subseteq Device \X Nat /\ discarded \subseteq Device \X Nat
  /\ lost \subseteq Device \X Nat
  /\ raced \subseteq Device /\ overtaken \subseteq Device /\ verified \in [Device -> Nat]

(* The histories are of devices and numbers.                               *)
LEMMA HistoriesStep ==
  ASSUME TypeOK, InHand, [Next]_vars
  PROVE  Histories'
<1> USE DEF Histories
<1>t. Histories /\ in.dev \in Device /\ upQ \in Seq(Message)
  BY DEF TypeOK, InHand, FromServer, Message
<1>f. ASSUME NEW f \in Frame PROVE <<f.dev, f.n>> \in Device \X Nat
  BY DEF Frame
<1>1. CASE LoraRegister
  BY <1>1, <1>t, CurProperties DEF LoraRegister, HasFrame, LoraAddDevice, ForgetKeys,
     Frame, hist, fateVars
<1>2. CASE LoraRxl
  <2>1. cur \in Frame
    BY <1>2, CurProperties DEF HasFrame, LoraRxl
  <2>2. <<cur.dev, cur.n>> \in Device \X Nat
    BY <1>f, <2>1
  <2> QED BY <1>2, <1>t, <2>2 DEF LoraRxl, hist
<1>3. CASE LoraUpdate
  BY <1>3, <1>t, CurProperties DEF LoraUpdate, HasFrame, Verified, Frame, fateVars
<1>4. CASE LoraNoKey
  <2>1. cur.dev \in Device
    BY <1>4, CurProperties DEF HasFrame, Frame, LoraNoKey
  <2>2. UNCHANGED hist \/ ForgetKeys({cur.dev}, {})
    BY <1>4 DEF LoraNoKey, LoraAddDevice
  <2>3. raced' \subseteq Device /\ overtaken' \subseteq Device /\ verified' \in [Device -> Nat]
    BY <1>t, <2>1, <2>2 DEF ForgetKeys, hist
  <2> QED BY <1>4, <1>t, <2>3 DEF LoraNoKey, fateVars
<1>5. CASE LoraMine
  <2>1. cur \in Frame
    BY <1>5, CurProperties DEF HasFrame, LoraMine
  <2>2. <<cur.dev, cur.n>> \in Device \X Nat
    BY <1>f, <2>1
  <2> QED BY <1>5, <1>t, <2>2 DEF LoraMine, hist
<1>6. CASE LoraOldRxl
  <2>1. old \in Frame
    BY <1>6, OldProperties DEF OldPc, LoraOldRxl
  <2>2. <<old.dev, old.n>> \in Device \X Nat
    BY <1>f, <2>1
  <2> QED BY <1>6, <1>t, <2>2 DEF LoraOldRxl, hist
<1>7. CASE LoraOldSeq
  BY <1>7, <1>t, OldProperties DEF LoraOldSeq, OldPc, Verified, Frame, fateVars
<1>8. CASE StiotKeyaSet
  BY <1>8, <1>t DEF StiotKeyaSet, StiotSetSessionkey, ForgetKeys, fateVars
<1>9. CASE StiotRegaSet
  BY <1>9, <1>t DEF StiotRegaSet, StiotSetSessionkey, ForgetKeys, fateVars
<1>10. CASE TimerFlush
  BY <1>10, <1>t DEF TimerFlush, ForgetKeys, fateVars
<1>11. CASE ServerReceive
  <2>1. Head(upQ) \in Message
    <3>1. upQ # <<>>
      BY <1>11 DEF ServerReceive
    <3> QED BY <1>t, <3>1, HeadTailProperties
  <2>2. <<Head(upQ).dev, Head(upQ).n>> \in Device \X Nat
    BY <2>1 DEF Message
  <2> QED BY <1>11, <1>t, <2>2 DEF ServerReceive, hist
<1>12. CASE Restart
  <2>1. \A s \in {fromLoraData, inVector, outVector, oldData} : FramesIn(s) \subseteq Device \X Nat
    <3>1. ASSUME NEW s \in Seq(Frame) PROVE FramesIn(s) \subseteq Device \X Nat
      <4>1. \A i \in DOMAIN s : s[i] \in Frame
        BY LenProperties, ElementOfSeq
      <4> QED BY <1>f, <4>1 DEF FramesIn
    <3> QED BY <3>1 DEF TypeOK
  <2>2. RXLsIn(upQ) \subseteq Device \X Nat
    <3>1. \A i \in DOMAIN upQ : upQ[i] \in Message
      BY <1>t, LenProperties, ElementOfSeq
    <3> QED BY <3>1 DEF RXLsIn, Message
  <2>3. InMemory \subseteq Device \X Nat
    BY <2>1, <2>2 DEF InMemory
  <2> QED BY <1>12, <1>t, <2>3 DEF Restart, ForgetKeys
<1>13. CASE LoraWake \/ LoraRegr \/ LoraHasKey \/ LoraGetKey \/ LoraHasCheck \/ LoraSetCheck
           \/ LoraKeys \/ LoraKeyr \/ LoraOldBegin \/ LoraOldHasKey \/ LoraOldCheck \/ LoraSendAll
  BY <1>13, <1>t DEF LoraWake, LoraRegr, LoraHasKey, LoraGetKey, LoraHasCheck, LoraSetCheck,
     LoraKeys,
     LoraKeyr, LoraOldBegin, LoraOldHasKey, LoraOldCheck, LoraSendAll, loraVars,
     stiotVars, envVars, fateVars, hist
<1>14. CASE StiotTake \/ StiotIsMine \/ StiotKeyaSync \/ StiotKeyaNotify \/ StiotRegaDh
           \/ StiotRegaKey \/ StiotTxlKey \/ StiotTxlSeq \/ StiotGetKey \/ StiotEncrypt
           \/ StiotSetSeq \/ StiotSend \/ Silence \/ UNCHANGED vars
  BY <1>14, <1>t DEF StiotTake, StiotIsMine, StiotKeyaSync, StiotKeyaNotify, StiotRegaDh,
     StiotRegaKey, StiotTxlKey, StiotTxlSeq, StiotGetKey, StiotEncrypt, StiotSetSeq,
     StiotSend, Silence, vars, loraVars, stiotVars, envVars, fateVars, hist
<1>15. ASSUME NEW d \in Device, DeviceRegister(d) \/ DeviceSend(d) \/ DeviceReceive(d)
            \/ ServerTxl(d)
      PROVE  Histories'
  BY <1>15, <1>t DEF DeviceRegister, DeviceSend, DeviceReceive, ServerTxl, loraVars,
     stiotVars, envVars, fateVars, hist
<1> QED BY <1>1, <1>2, <1>3, <1>4, <1>5, <1>6, <1>7, <1>8, <1>9, <1>10, <1>11, <1>12,
   <1>13, <1>14, <1>15 DEF Next, LoraStep, LoraPass, StiotStep, Environment

(* The containers of frames keep their types.                              *)
LEMMA FramesStep == ASSUME TypeOK, InHand, [Next]_vars PROVE FramesIn4(Frame)'
<1>1. FramesIn4(Frame)
  BY SeqMonotonic DEF TypeOK, InHand, FramesIn4, DataFrame
<1>2. FramesIn4(Frame)' \/ \E d \in Device : DeviceRegister(d) \/ DeviceSend(d)
  BY <1>1, FramesMove
<1>3. ASSUME NEW d \in Device, DeviceRegister(d) \/ DeviceSend(d) PROVE FramesIn4(Frame)'
  <2> DEFINE r == [type |-> "REGISTER_UP", dev |-> d, n |-> reg[d] + 1, key |-> NullKey]
             s == [type |-> "DATA_UP", dev |-> d, n |-> dataSent[d] + 1, key |-> devKey[d]]
  <2>1. r \in Frame /\ s \in Frame
    BY KeyTypes DEF TypeOK, Frame
  <2>2. /\ UNCHANGED <<inVector, outVector, oldData>>
        /\ fromLoraData' = Append(fromLoraData, r) \/ fromLoraData' = Append(fromLoraData, s)
    BY <1>3 DEF DeviceRegister, DeviceSend, AddBulk, loraVars
  <2> HIDE DEF r, s
  <2>3. fromLoraData \in Seq(Frame)
    BY DEF TypeOK
  <2>4. fromLoraData' \in Seq(Frame)
    BY <2>1, <2>2, <2>3, AppendProperties
  <2> QED BY <1>1, <2>2, <2>4 DEF FramesIn4
<1> QED BY <1>2, <1>3

InHandPc ==
  /\ loraPc \in HasFrame => inVector # <<>>
  /\ loraPc = "regr" => cur.type = "REGISTER_UP"
  /\ loraPc \in HasFrame \ {"regr"} => cur.type = "DATA_UP"
  /\ loraPc \in OldPc => historyIterator <= Len(oldData)
  /\ loraPc \in OldPc \cup {"wait", "old"} => inVector = <<>>

(* What fromLora has in hand fits the step it goes to.                     *)
LEMMA InHandPcStep == ASSUME TypeOK, InHand, [Next]_vars PROVE InHandPc'
<1> USE DEF InHandPc, HasFrame, OldPc, Goto, cur, loraVars
<1>t. InHandPc /\ inVector \in Seq(Frame)
  BY DEF InHand, TypeOK
<1>1. CASE LoraWake
  BY <1>1, <1>t DEF LoraWake
<1>2. CASE LoraRegister
  BY <1>2, <1>t DEF LoraRegister
<1>3. CASE LoraRegr
  BY <1>3, <1>t DEF LoraRegr
<1>4. CASE LoraHasKey
  BY <1>4, <1>t DEF LoraHasKey
<1>5. CASE LoraGetKey
  BY <1>5, <1>t DEF LoraGetKey
<1>6. CASE LoraRxl
  BY <1>6, <1>t DEF LoraRxl
<1>7. CASE LoraUpdate
  BY <1>7, <1>t DEF LoraUpdate
<1>h. CASE LoraHasCheck
  BY <1>h, <1>t DEF LoraHasCheck
<1>8. CASE LoraSetCheck
  BY <1>8, <1>t DEF LoraSetCheck
<1>9. CASE LoraKeys
  BY <1>9, <1>t DEF LoraKeys
<1>10. CASE LoraNoKey
  BY <1>10, <1>t DEF LoraNoKey
<1>11. CASE LoraMine
  BY <1>11, <1>t DEF LoraMine
<1>12. CASE LoraKeyr
  BY <1>12, <1>t DEF LoraKeyr
<1>13. CASE LoraOldBegin
  BY <1>13, <1>t DEF LoraOldBegin
<1>14. CASE LoraOldHasKey
  BY <1>14, <1>t DEF LoraOldHasKey
<1>15. CASE LoraOldRxl
  BY <1>15, <1>t DEF LoraOldRxl
<1>16. CASE LoraOldSeq
  BY <1>16, <1>t DEF LoraOldSeq
<1>17. CASE LoraOldCheck
  BY <1>17, <1>t DEF LoraOldCheck
<1>18. CASE LoraSendAll
  BY <1>18, <1>t DEF LoraSendAll
<1>19. CASE Restart
  BY <1>19 DEF Restart
<1>20. CASE StiotTake \/ StiotIsMine \/ StiotKeyaSet \/ StiotKeyaSync \/ StiotKeyaNotify
           \/ StiotRegaDh \/ StiotRegaKey \/ StiotRegaSet \/ StiotTxlKey \/ StiotTxlSeq
           \/ StiotGetKey \/ StiotEncrypt \/ StiotSetSeq \/ StiotSend \/ TimerFlush \/
           Silence \/ ServerReceive \/ UNCHANGED vars
  BY <1>20, <1>t DEF StiotTake, StiotIsMine, StiotKeyaSet, StiotKeyaSync, StiotKeyaNotify,
     StiotRegaDh, StiotRegaKey, StiotRegaSet, StiotTxlKey, StiotTxlSeq, StiotGetKey,
     StiotEncrypt, StiotSetSeq, StiotSend, TimerFlush, Silence, ServerReceive, vars
<1>21. ASSUME NEW d \in Device, DeviceRegister(d) \/ DeviceSend(d) \/ DeviceReceive(d)
            \/ ServerTxl(d)
      PROVE  InHandPc'
  BY <1>21, <1>t DEF DeviceRegister, DeviceSend, DeviceReceive, ServerTxl
<1> QED BY <1>1, <1>2, <1>3, <1>4, <1>5, <1>6, <1>7, <1>h, <1>8, <1>9, <1>10, <1>11, <1>12,
   <1>13, <1>14, <1>15, <1>16, <1>17, <1>18, <1>19, <1>20, <1>21 DEF Next, LoraStep,
   LoraPass, StiotStep, Environment

(* The shape of the state is kept by every step.                           *)
LEMMA ShapeStep == ASSUME TypeOK, InHand, StiotPointer, [Next]_vars PROVE TypeOK' /\ InHand'
<1>1. FramesIn4(Frame)'
  BY FramesStep
<1>2. map' \in Table /\ ServerSeqs' /\ Controls' /\ KeysAndNumbers' /\ Histories'
      /\ woken' \in BOOLEAN /\ InHandPc'
  BY TableStep, ServerSeqsStep, ControlsStep, KeysAndNumbersStep, HistoriesStep, WokenStep,
     InHandPcStep
<1>3. oldData' \in Seq(DataFrame) /\ outVector' \in Seq(DataFrame)
  <2>1. Frame \cap DataFrame = DataFrame
    BY DEF DataFrame
  <2> QED BY <1>1, <2>1 DEF FramesIn4
<1>4. InHand'
  BY <1>2, <1>3 DEF InHand, InHandPc, ServerSeqs
<1>5. oldData' \in Seq(Frame) /\ outVector' \in Seq(Frame) /\ fromStiotData' \in Seq(Message)
      /\ in' \in Message
  BY <1>2, <1>3, SeqMonotonic DEF ServerSeqs, DataFrame, FromServer
<1> QED BY <1>1, <1>2, <1>4, <1>5 DEF TypeOK, FramesIn4, ServerSeqs, Controls, KeysAndNumbers,
        Histories

-----------------------------------------------------------------------------
(* What each step does to the entry of a device e.                         *)

EntryKept(e)    == map'[e] = map[e]
EntryAdded(e) ==
    /\ map'[e] \in EndDevice /\ map'[e] # NoEntry
    /\ map'[e].myDevice = TRUE /\ map'[e].sessionKeyExists = FALSE
    /\ map'[e].sessionKeyCheck = FALSE /\ map'[e].expired = FALSE
    /\ map'[e].sessionKey = NullKey /\ map'[e].seq = 0
EntryKeyed(e, key) ==
    /\ isInTable(map, e)
    /\ map'[e] \in EndDevice /\ map'[e] # NoEntry
    /\ map'[e].myDevice = map[e].myDevice /\ map'[e].sessionKeyExists = TRUE
    /\ map'[e].sessionKeyCheck = FALSE /\ map'[e].expired = map[e].expired
    /\ map'[e].sessionKey = key
EntryNumbered(e, n) ==
    /\ isInTable(map, e)
    /\ map'[e] \in EndDevice /\ map'[e] # NoEntry
    /\ map'[e].myDevice = map[e].myDevice
    /\ map'[e].sessionKeyExists = map[e].sessionKeyExists
    /\ map'[e].sessionKeyCheck = map[e].sessionKeyCheck
    /\ map'[e].expired \in {map[e].expired, FALSE}
    /\ map'[e].sessionKey = map[e].sessionKey
    /\ map'[e].seq = n
EntryChecked(e) ==
    /\ hasSessionKey(map, e)
    /\ map'[e] \in EndDevice /\ map'[e] # NoEntry
    /\ map'[e].myDevice = map[e].myDevice /\ map'[e].sessionKeyExists = TRUE
    /\ map'[e].sessionKeyCheck = TRUE /\ map'[e].expired = map[e].expired
    /\ map'[e].sessionKey = map[e].sessionKey /\ map'[e].seq = map[e].seq
EntryAged(e) ==
    /\ isInTable(map, e) /\ e \in Sleepy
    /\ map'[e] \in EndDevice /\ map'[e] # NoEntry
    /\ map'[e].myDevice = map[e].myDevice
    /\ map'[e].sessionKeyExists = map[e].sessionKeyExists
    /\ map'[e].sessionKeyCheck = map[e].sessionKeyCheck
    /\ map'[e].sessionKey = map[e].sessionKey /\ map'[e].seq = map[e].seq
EntryErased(e) == map'[e] = NoEntry

(* What each step that writes the table does to the entry of a device.     *)
LEMMA EntrySteps ==
  ASSUME TypeOK, InHand, NEW e \in Device
  PROVE  /\ LoraRegister => IF e = cur.dev THEN EntryAdded(e) ELSE EntryKept(e)
         /\ LoraNoKey =>
              IF e = cur.dev /\ ~isInTable(map, e) THEN EntryAdded(e) ELSE EntryKept(e)
         /\ LoraUpdate =>
              IF e = cur.dev /\ isInTable(map, e) THEN EntryNumbered(e, cur.n) ELSE EntryKept(e)
         /\ LoraOldSeq =>
              IF e = old.dev /\ isInTable(map, e) THEN EntryNumbered(e, old.n) ELSE EntryKept(e)
         /\ StiotSetSeq =>
              IF e = in.dev /\ isInTable(map, e) THEN EntryNumbered(e, seqNum) ELSE EntryKept(e)
         /\ LoraSetCheck =>
              IF e = cur.dev /\ hasSessionKey(map, e) THEN EntryChecked(e) ELSE EntryKept(e)
         /\ LoraOldCheck =>
              IF e = old.dev /\ hasSessionKey(map, e) THEN EntryChecked(e) ELSE EntryKept(e)
         /\ StiotKeyaSet =>
              IF e = in.dev /\ isInTable(map, e) THEN EntryKeyed(e, in.key) ELSE EntryKept(e)
         /\ StiotRegaSet =>
              IF e = in.dev /\ isInTable(map, e) THEN EntryKeyed(e, sessionKey) ELSE EntryKept(e)
         /\ Silence => EntryKept(e) \/ EntryAged(e)
         /\ TimerFlush => IF isInTable(map, e) /\ map[e].expired THEN EntryErased(e) ELSE EntryKept(e)
         /\ Restart => EntryErased(e)
<1>t. /\ map \in Table /\ in.dev \in Device /\ in.key \in SessionKey /\ in.n \in Nat
      /\ sessionKey \in SessionKey /\ seqNum \in Nat
  BY DEF TypeOK, Message
<1>e. isInTable(map, e) => map[e] \in EndDevice
  BY <1>t, EntryType
<1>c. ASSUME LoraRegister \/ LoraNoKey \/ LoraUpdate \/ LoraSetCheck
      PROVE  cur.dev \in Device /\ cur.n \in Nat
  BY <1>c, CurProperties DEF LoraRegister, LoraNoKey, LoraUpdate, LoraSetCheck, HasFrame, Frame
<1>o. ASSUME LoraOldSeq \/ LoraOldCheck PROVE old.dev \in Device /\ old.n \in Nat
  BY <1>o, OldProperties DEF LoraOldSeq, LoraOldCheck, OldPc, Frame
<1>1. ASSUME NEW d \in Device, NEW n \in Nat, map' = addDevice(map, d, n)
      PROVE  IF e = d THEN EntryAdded(e) ELSE EntryKept(e)
  <2>1. OnlyAt(d, map, map')
    BY <1>t, <1>1, TableMethods
  <2>2. ASSUME e = d PROVE EntryAdded(e)
    <3>1. /\ map'[d] \in EndDevice /\ map'[d] # NoEntry
          /\ map'[d] = [myDevice |-> TRUE, sessionKeyExists |-> FALSE,
                        sessionKeyCheck |-> FALSE, sessionKey |-> NullKey,
                        dha |-> n, seq |-> 0, expired |-> FALSE]
      BY <1>t, <1>1, AddDeviceEntry
    <3> QED BY <2>2, <3>1 DEF EntryAdded
  <2> QED BY <2>1, <2>2 DEF EntryKept, OnlyAt
<1>2. ASSUME NEW d \in Device, NEW n \in Nat,
             map' = updateDevice(map, d, n) \/ map' = setSeq(map, d, n)
      PROVE  IF e = d /\ isInTable(map, e) THEN EntryNumbered(e, n) ELSE EntryKept(e)
  <2>1. CASE map' = updateDevice(map, d, n)
    <3>1. CASE e = d /\ isInTable(map, e)
      BY <1>t, <1>e, <2>1, <3>1, NoEntryAssumption
         DEF EntryNumbered, updateDevice, Table, isInTable, EndDevice
    <3>2. CASE e # d \/ ~isInTable(map, e)
      BY <1>t, <1>e, <2>1, <3>2, NoEntryAssumption
         DEF EntryKept, updateDevice, Table, isInTable
    <3> QED BY <3>1, <3>2
  <2>2. CASE map' = setSeq(map, d, n)
    BY <1>t, <1>e, <2>2, NoEntryAssumption
       DEF EntryNumbered, EntryKept, setSeq, Table, isInTable, EndDevice
  <2> QED BY <1>2, <2>1, <2>2
<1>3. ASSUME NEW d \in Device, map' = setSessionKeyCheck(map, d, TRUE)
      PROVE  IF e = d /\ hasSessionKey(map, e) THEN EntryChecked(e) ELSE EntryKept(e)
  BY <1>t, <1>e, <1>3, NoEntryAssumption
     DEF EntryChecked, EntryKept, setSessionKeyCheck, hasSessionKey, Table, isInTable, EndDevice
<1>4. ASSUME NEW d \in Device, NEW key \in SessionKey, NEW n \in Nat,
             map' = setSessionkey(map, d, key, n)
      PROVE  IF e = d /\ isInTable(map, e) THEN EntryKeyed(e, key) ELSE EntryKept(e)
  <2>1. CASE e = d /\ isInTable(map, e)
    BY <1>t, <1>e, <1>4, <2>1, NoEntryAssumption
       DEF EntryKeyed, setSessionkey, Table, isInTable, EndDevice
  <2>2. CASE e # d \/ ~isInTable(map, e)
    BY <1>t, <1>e, <1>4, <2>2, NoEntryAssumption
       DEF EntryKept, setSessionkey, Table, isInTable
  <2> QED BY <2>1, <2>2
<1>5. ASSUME Silence PROVE EntryKept(e) \/ EntryAged(e)
  <2>1. PICK d \in Sleepy : map' = silent(map, d)
    BY <1>5 DEF Silence
  <2> QED BY <1>t, <1>e, <2>1, NoEntryAssumption, SleepyAssumption
          DEF EntryAged, EntryKept, silent, Table, isInTable, EndDevice
<1>6. ASSUME TimerFlush
      PROVE  IF isInTable(map, e) /\ map[e].expired THEN EntryErased(e) ELSE EntryKept(e)
  BY <1>6 DEF TimerFlush, updateByTimer, expiredDevices, EntryErased, EntryKept
<1>7. ASSUME Restart PROVE EntryErased(e)
  BY <1>7 DEF Restart, EntryErased
<1>8. /\ LoraRegister => IF e = cur.dev THEN EntryAdded(e) ELSE EntryKept(e)
      /\ LoraNoKey => IF e = cur.dev /\ ~isInTable(map, e) THEN EntryAdded(e) ELSE EntryKept(e)
  <2>1. LoraRegister => map' = addDevice(map, cur.dev, cur.n)
    BY DEF LoraRegister, LoraAddDevice
  <2>2. LoraNoKey => IF isInTable(map, cur.dev) THEN map' = map
                     ELSE map' = addDevice(map, cur.dev, 0)
    BY DEF LoraNoKey, LoraAddDevice
  <2>3. 0 \in Nat
    OBVIOUS
  <2> QED BY <1>1, <1>c, <2>1, <2>2, <2>3 DEF EntryKept
<1>9. /\ LoraUpdate => IF e = cur.dev /\ isInTable(map, e) THEN EntryNumbered(e, cur.n) ELSE EntryKept(e)
      /\ LoraOldSeq => IF e = old.dev /\ isInTable(map, e) THEN EntryNumbered(e, old.n) ELSE EntryKept(e)
      /\ StiotSetSeq => IF e = in.dev /\ isInTable(map, e) THEN EntryNumbered(e, seqNum) ELSE EntryKept(e)
  <2>1. /\ LoraUpdate => map' = updateDevice(map, cur.dev, cur.n)
        /\ LoraOldSeq => map' = setSeq(map, old.dev, old.n)
        /\ StiotSetSeq => map' = setSeq(map, in.dev, seqNum)
    BY DEF LoraUpdate, LoraOldSeq, StiotSetSeq
  <2> QED BY <1>t, <1>2, <1>c, <1>o, <2>1
<1>10. /\ LoraSetCheck => IF e = cur.dev /\ hasSessionKey(map, e) THEN EntryChecked(e) ELSE EntryKept(e)
       /\ LoraOldCheck => IF e = old.dev /\ hasSessionKey(map, e) THEN EntryChecked(e) ELSE EntryKept(e)
  BY <1>3, <1>c, <1>o DEF LoraSetCheck, LoraOldCheck
<1>11. /\ StiotKeyaSet => IF e = in.dev /\ isInTable(map, e) THEN EntryKeyed(e, in.key) ELSE EntryKept(e)
       /\ StiotRegaSet => IF e = in.dev /\ isInTable(map, e) THEN EntryKeyed(e, sessionKey) ELSE EntryKept(e)
  <2>1. /\ StiotKeyaSet => map' = setSessionkey(map, in.dev, in.key, in.n)
        /\ StiotRegaSet => map' = setSessionkey(map, in.dev, sessionKey, 0)
    BY DEF StiotKeyaSet, StiotRegaSet, StiotSetSessionkey
  <2>2. 0 \in Nat
    OBVIOUS
  <2> QED BY <1>t, <1>4, <2>1, <2>2
<1> QED BY <1>5, <1>6, <1>7, <1>8, <1>9, <1>10, <1>11

(* All other steps leave the table alone.                                  *)
MapStep == \/ LoraRegister \/ LoraNoKey \/ LoraUpdate \/ LoraOldSeq \/ StiotSetSeq
           \/ LoraSetCheck \/ LoraOldCheck \/ StiotKeyaSet \/ StiotRegaSet
           \/ Silence \/ TimerFlush \/ Restart

(* The steps that do not write the table.                                  *)
LEMMA OtherSteps == ASSUME [Next]_vars, ~MapStep PROVE map' = map
<1> USE DEF MapStep
<1>1. CASE LoraWake \/ LoraRegr \/ LoraHasKey \/ LoraGetKey \/ LoraRxl \/ LoraHasCheck \/
           LoraKeys \/ LoraMine \/ LoraKeyr \/ LoraOldBegin \/ LoraOldHasKey \/ LoraOldRxl \/
           LoraSendAll
  BY <1>1 DEF LoraWake, LoraRegr, LoraHasKey, LoraGetKey, LoraRxl, LoraHasCheck, LoraKeys, LoraMine,
     LoraKeyr, LoraOldBegin, LoraOldHasKey, LoraOldRxl, LoraSendAll, loraVars,
     stiotVars, envVars, fateVars, hist
<1>2. CASE StiotTake \/ StiotIsMine \/ StiotKeyaSync \/ StiotKeyaNotify \/ StiotRegaDh
           \/ StiotRegaKey \/ StiotTxlKey \/ StiotTxlSeq \/ StiotGetKey \/ StiotEncrypt
           \/ StiotSend \/ ServerReceive \/ UNCHANGED vars
  BY <1>2 DEF StiotTake, StiotIsMine, StiotKeyaSync, StiotKeyaNotify, StiotRegaDh,
     StiotRegaKey, StiotTxlKey, StiotTxlSeq, StiotGetKey, StiotEncrypt, StiotSend,
     ServerReceive, vars, loraVars, stiotVars, envVars, fateVars, hist
<1>3. ASSUME NEW d \in Device, DeviceRegister(d) \/ DeviceSend(d) \/ DeviceReceive(d) \/
            ServerTxl(d)
      PROVE  map' = map
  BY <1>3 DEF DeviceRegister, DeviceSend, DeviceReceive, ServerTxl, loraVars, stiotVars,
     envVars, fateVars, hist
<1> QED BY <1>1, <1>2, <1>3 DEF Next, LoraStep, LoraPass, StiotStep, Environment

(* An entry stays, with its key and its owner, unless it is registered     *)
(* anew, flushed, or lost in a restart.                                    *)
LEMMA EntryPersists ==
  ASSUME TypeOK, InHand, [Next]_vars, NEW e \in Device,
         ~(LoraRegister /\ e = cur.dev), ~(TimerFlush /\ map[e].expired), ~Restart
  PROVE  /\ isInTable(map, e) => isInTable(map', e)
         /\ isMine(map, e) => isMine(map', e)
         /\ hasSessionKey(map, e) => hasSessionKey(map', e)
<1> DEFINE Persists == /\ isInTable(map, e) => isInTable(map', e)
                       /\ isMine(map, e) => isMine(map', e)
                       /\ hasSessionKey(map, e) => hasSessionKey(map', e)
<1> SUFFICES Persists
  OBVIOUS
<1> USE DEF isInTable, isMine, hasSessionKey
<1>1. CASE EntryKept(e)
  BY <1>1 DEF EntryKept
<1>2. ASSUME NEW n, EntryNumbered(e, n)
      PROVE  Persists
  BY <1>2 DEF EntryNumbered
<1>3. CASE EntryChecked(e) \/ EntryAged(e)
  BY <1>3 DEF EntryChecked, EntryAged
<1>4. ASSUME NEW k, EntryKeyed(e, k)
      PROVE  Persists
  BY <1>4 DEF EntryKeyed
<1>5. CASE LoraNoKey /\ EntryAdded(e) /\ ~isInTable(map, e)
  BY <1>5 DEF EntryAdded
<1>6. CASE ~MapStep
  BY <1>6, OtherSteps
<1> HIDE DEF Persists
<1>7. CASE MapStep
  <2>1. \/ EntryKept(e) \/ (\E n : EntryNumbered(e, n)) \/ EntryChecked(e) \/ EntryAged(e)
        \/ (\E k : EntryKeyed(e, k)) \/ (LoraNoKey /\ EntryAdded(e) /\ ~isInTable(map, e))
    BY <1>7, EntrySteps DEF MapStep
  <2> QED BY <1>1, <1>2, <1>3, <1>4, <1>5, <2>1
<1> QED BY <1>6, <1>7

(* Entries is kept by every step.                                          *)
LEMMA EntriesStep ==
  ASSUME TypeOK, InHand, Entries, [Next]_vars
  PROVE  Entries'
<1> DEFINE EntryFine(e) == /\ map'[e].myDevice
                           /\ map'[e].sessionKeyCheck => map'[e].sessionKeyExists
                           /\ map'[e].expired => e \in Sleepy
<1>1. SUFFICES ASSUME NEW e \in Device, isInTable(map', e) PROVE EntryFine(e)
  BY DEF Entries
<1>2. isInTable(map, e) => /\ map[e].myDevice
                           /\ map[e].sessionKeyCheck => map[e].sessionKeyExists
                           /\ map[e].expired => e \in Sleepy
  BY DEF Entries
<1> USE DEF isInTable, hasSessionKey
<1>3. CASE EntryKept(e)
  BY <1>1, <1>2, <1>3 DEF EntryKept
<1>4. CASE EntryAdded(e)
  BY <1>4 DEF EntryAdded
<1>5. ASSUME NEW n, EntryNumbered(e, n) PROVE EntryFine(e)
  BY <1>2, <1>5 DEF EntryNumbered
<1>6. CASE EntryChecked(e) \/ EntryAged(e)
  BY <1>2, <1>6 DEF EntryChecked, EntryAged
<1>7. ASSUME NEW k, EntryKeyed(e, k) PROVE EntryFine(e)
  BY <1>2, <1>7 DEF EntryKeyed
<1>8. CASE EntryErased(e)
  BY <1>1, <1>8 DEF EntryErased
<1>9. CASE ~MapStep
  BY <1>1, <1>2, <1>9, OtherSteps
<1>10. CASE MapStep
  BY <1>3, <1>4, <1>5, <1>6, <1>7, <1>8, <1>10, EntrySteps DEF MapStep
<1> QED BY <1>9, <1>10

-----------------------------------------------------------------------------
(* What fromStiot knows of its entry.                                      *)
LEMMA StiotPointerStep ==
  ASSUME TypeOK, InHand, StiotPointer, [Next]_vars
  PROVE  StiotPointer'
<1>t. in.dev \in Device /\ in \in FromServer /\ stiotPtr \in Pointer /\ stiotPc \in StiotPc
  BY DEF TypeOK, InHand, Message
<1>p. ASSUME ~(LoraRegister /\ in.dev = cur.dev), ~(TimerFlush /\ map[in.dev].expired), ~Restart
      PROVE  /\ isInTable(map, in.dev) => isInTable(map', in.dev)
             /\ hasSessionKey(map, in.dev) => hasSessionKey(map', in.dev)
  BY <1>t, <1>p, EntryPersists
<1>k. ASSUME in' = in, stiotPc' = stiotPc, stiotPtr' = stiotPtr,
             ~(LoraRegister /\ in.dev = cur.dev), ~(TimerFlush /\ map[in.dev].expired), ~Restart
      PROVE  StiotPointer'
  BY <1>p, <1>k DEF StiotPointer
<1>g. ASSUME in' = in, stiotPc' = stiotPc,
             stiotPtr' = IF stiotPc # "wait" THEN Erased[stiotPtr] ELSE stiotPtr
      PROVE  StiotPointer'
  BY <1>t, <1>g DEF StiotPointer, Erased, Pointer
<1>1. CASE Restart
  BY <1>1 DEF Restart, StiotPointer
<1>x. SUFFICES ASSUME ~Restart PROVE StiotPointer'
  BY <1>1
<1>2. CASE LoraRegister
  <2>1. in' = in /\ stiotPc' = stiotPc /\ stiotPtr' = StiotPtrAfterErase({cur.dev})
    BY <1>2 DEF LoraRegister, LoraAddDevice
  <2>2. CASE in.dev # cur.dev
    BY <1>2, <1>k, <1>x, <2>1, <2>2 DEF StiotPtrAfterErase, LoraRegister, TimerFlush, Goto
  <2>3. CASE in.dev = cur.dev
    BY <1>t, <1>g, <2>1, <2>3 DEF StiotPtrAfterErase
  <2> QED BY <2>2, <2>3
<1>3. CASE TimerFlush
  <2>1. in' = in /\ stiotPc' = stiotPc /\ stiotPtr' = StiotPtrAfterErase(expiredDevices(map))
    BY <1>3 DEF TimerFlush
  <2>2. CASE in.dev \notin expiredDevices(map)
    <3>1. ~map[in.dev].expired \/ ~isInTable(map, in.dev)
      BY <1>t, <2>2 DEF expiredDevices
    <3>2. stiotPtr' = stiotPtr
      BY <2>1, <2>2 DEF StiotPtrAfterErase
    <3>3. CASE ~map[in.dev].expired
      BY <1>3, <1>k, <1>x, <2>1, <3>2, <3>3 DEF LoraRegister, TimerFlush, Goto
    <3>4. CASE ~isInTable(map, in.dev)
      BY <2>1, <3>2, <3>4 DEF StiotPointer, hasSessionKey
    <3> QED BY <3>1, <3>3, <3>4
  <2>3. CASE in.dev \in expiredDevices(map)
    BY <1>t, <1>g, <2>1, <2>3 DEF StiotPtrAfterErase
  <2> QED BY <2>2, <2>3
<1>d. SUFFICES ASSUME ~LoraRegister, ~TimerFlush PROVE StiotPointer'
  BY <1>x, <1>2, <1>3
<1>4. CASE LoraNoKey
  <2>1. /\ in' = in /\ stiotPc' = stiotPc
        /\ (stiotPtr' = stiotPtr \/ stiotPtr' = StiotPtrAfterErase({cur.dev}))
    BY <1>4 DEF LoraNoKey, LoraAddDevice, hist
  <2>2. CASE stiotPtr' = stiotPtr
    BY <1>4, <1>k, <1>x, <1>d, <2>1, <2>2
  <2>3. CASE stiotPtr' # stiotPtr
    BY <1>t, <1>g, <2>1, <2>3 DEF StiotPtrAfterErase
  <2> QED BY <2>2, <2>3
<1>5. CASE StiotTake
  BY <1>5, <1>t DEF StiotTake, StiotGoto, StiotDone, StiotPointer, getSessionKeyIsNull,
     getDhIsNull, hasSessionKey
<1>6. CASE StiotIsMine
  <2>1. in.type \in {"REGA", "KEYA", "TXL"}
    BY <1>t DEF FromServer
  <2> QED BY <1>6, <2>1 DEF StiotIsMine, StiotGoto, StiotDone, StiotPointer, isMine
<1>7. CASE StiotKeyaSet
  BY <1>7, <1>p, <1>x, <1>d DEF StiotKeyaSet, StiotPointer, StiotGoto
<1>8. CASE StiotKeyaSync
  BY <1>8, <1>t DEF StiotKeyaSync, StiotGoto, StiotDone, StiotPointer,
     getSessionKeyIsNull, getDhIsNull, hasSessionKey
<1>9. CASE StiotKeyaNotify
  BY <1>9, <1>t DEF StiotKeyaNotify, StiotGoto, StiotDone, StiotPointer,
     getSessionKeyIsNull, getDhIsNull, hasSessionKey
<1>10. CASE StiotRegaDh
  BY <1>10, <1>t DEF StiotRegaDh, StiotGoto, StiotDone, StiotPointer,
     getSessionKeyIsNull, getDhIsNull, hasSessionKey
<1>11. CASE StiotRegaKey
  BY <1>11, <1>t DEF StiotRegaKey, StiotGoto, StiotDone, StiotPointer,
     getSessionKeyIsNull, getDhIsNull, hasSessionKey
<1>12. CASE StiotRegaSet
  <2>1. isInTable(map, in.dev) => EntryKeyed(in.dev, sessionKey)
    BY <1>12, <1>t, EntrySteps
  <2>2. isInTable(map, in.dev) => hasSessionKey(map', in.dev) /\ isInTable(map', in.dev)
    BY <2>1 DEF EntryKeyed, hasSessionKey, isInTable
  <2> QED BY <1>12, <2>2 DEF StiotRegaSet, StiotGoto, StiotPointer
<1>13. CASE StiotTxlKey
  BY <1>13, <1>t DEF StiotTxlKey, StiotGoto, StiotDone, StiotPointer,
     getSessionKeyIsNull, getDhIsNull, hasSessionKey
<1>14. CASE StiotTxlSeq
  BY <1>14, <1>t DEF StiotTxlSeq, StiotGoto, StiotDone, StiotPointer,
     getSessionKeyIsNull, getDhIsNull, hasSessionKey
<1>15. CASE StiotGetKey
  BY <1>15, <1>t DEF StiotGetKey, StiotGoto, StiotDone, StiotPointer,
     getSessionKeyIsNull, getDhIsNull, hasSessionKey
<1>16. CASE StiotEncrypt
  BY <1>16, <1>t DEF StiotEncrypt, StiotGoto, StiotDone, StiotPointer,
     getSessionKeyIsNull, getDhIsNull, hasSessionKey
<1>17. CASE StiotSetSeq
  BY <1>17, <1>p, <1>x, <1>d DEF StiotSetSeq, StiotPointer, StiotGoto
<1>18. CASE StiotSend
  BY <1>18, <1>t DEF StiotSend, StiotGoto, StiotDone, StiotPointer, getSessionKeyIsNull,
     getDhIsNull, hasSessionKey
<1>19. CASE LoraWake \/ LoraRegr \/ LoraHasKey \/ LoraGetKey \/ LoraRxl \/ LoraUpdate \/ LoraHasCheck \/
           LoraSetCheck \/ LoraKeys \/ LoraMine \/ LoraKeyr \/ LoraOldBegin \/
           LoraOldHasKey \/ LoraOldRxl \/ LoraOldSeq \/ LoraOldCheck \/ LoraSendAll
  BY <1>19, <1>k, <1>x, <1>d DEF LoraWake, LoraRegr, LoraHasKey, LoraGetKey, LoraRxl,
     LoraUpdate, LoraHasCheck,
     LoraSetCheck, LoraKeys, LoraMine, LoraKeyr, LoraOldBegin, LoraOldHasKey,
     LoraOldRxl, LoraOldSeq, LoraOldCheck, LoraSendAll, loraVars, stiotVars, envVars,
     fateVars, hist, Goto
<1>20. CASE ServerReceive \/ Silence \/ UNCHANGED vars
  BY <1>20, <1>k, <1>x, <1>d DEF ServerReceive, Silence, vars, loraVars, stiotVars, envVars,
     fateVars,
     hist, Goto
<1>21. ASSUME NEW d \in Device, DeviceRegister(d) \/ DeviceSend(d) \/ DeviceReceive(d)
            \/ ServerTxl(d)
      PROVE  StiotPointer'
  BY <1>21, <1>k, <1>x, <1>d DEF DeviceRegister, DeviceSend, DeviceReceive, ServerTxl, loraVars,
     stiotVars, envVars, fateVars, hist, Goto
<1> QED BY <1>x, <1>d, <1>4, <1>5, <1>6, <1>7, <1>8, <1>9, <1>10, <1>11, <1>12, <1>13,
   <1>14, <1>15, <1>16, <1>17, <1>18, <1>19, <1>20, <1>21 DEF Next, LoraStep, LoraPass,
   StiotStep, Environment

(* What fromLora knows of its entry.                                       *)
LEMMA LoraPointerStep ==
  ASSUME TypeOK, InHand, Entries, LoraPointer, [Next]_vars
  PROVE  LoraPointer'
<1>t. /\ loraPtr \in Pointer /\ loraPc \in LoraPc
      /\ loraPtr # "none" => loraFrame.dev \in Device
  <2>1. loraPtr \in Pointer /\ loraPc \in LoraPc
    BY DEF TypeOK
  <2>2. loraPtr # "none" => loraPc \in HasFrame \cup OldPc
    BY <2>1 DEF LoraPc, LoraPointer, HasFrame, OldPc
  <2>3. loraPc \in HasFrame => loraFrame \in Frame
    BY CurProperties
  <2>4. loraPc \in OldPc => loraFrame \in Frame
    BY OldProperties
  <2> QED BY <2>1, <2>2, <2>3, <2>4 DEF Frame
<1>r. ~(LoraRegister /\ loraPtr # "none")
  BY DEF LoraRegister, LoraPointer
<1>p. ASSUME ~TimerFlush, ~Restart, loraPtr \in {"seen", "held"}
      PROVE  hasSessionKey(map, loraFrame.dev) => hasSessionKey(map', loraFrame.dev)
  BY <1>t, <1>r, <1>p, EntryPersists
<1>k. ASSUME loraPc' = loraPc, inVector' = inVector, oldData' = oldData,
             historyIterator' = historyIterator, loraPtr' = loraPtr,
             loraPtr \in {"seen", "held"} =>
               (hasSessionKey(map, loraFrame.dev) => hasSessionKey(map', loraFrame.dev))
      PROVE  LoraPointer'
  <2>1. loraFrame' = loraFrame
    BY <1>k DEF loraFrame, cur, old
  <2> QED BY <1>k, <2>1 DEF LoraPointer
<1>1. CASE Restart
  BY <1>1 DEF Restart, LoraPointer
<1>x. SUFFICES ASSUME ~Restart PROVE LoraPointer'
  BY <1>1
<1>2. CASE TimerFlush
  <2>1. /\ loraPc' = loraPc /\ inVector' = inVector /\ oldData' = oldData
        /\ historyIterator' = historyIterator
        /\ loraPtr' = LoraPtrAfterErase(expiredDevices(map))
    BY <1>2 DEF TimerFlush
  <2>2. loraFrame' = loraFrame
    BY <2>1 DEF loraFrame, cur, old
  <2>3. CASE loraPc = "wait" \/ loraPtr = "none"
    BY <2>1, <2>3 DEF LoraPtrAfterErase, LoraPointer
  <2>4. CASE loraPtr # "none" /\ loraFrame.dev \notin expiredDevices(map)
    <3>1. ~map[loraFrame.dev].expired \/ ~isInTable(map, loraFrame.dev)
      BY <1>t, <2>4 DEF expiredDevices
    <3>2. hasSessionKey(map, loraFrame.dev) => hasSessionKey(map', loraFrame.dev)
      <4>1. CASE ~map[loraFrame.dev].expired
        BY <1>t, <1>r, <1>x, <2>4, <4>1, EntryPersists
      <4>2. CASE ~isInTable(map, loraFrame.dev)
        BY <4>2 DEF hasSessionKey
      <4> QED BY <3>1, <4>1, <4>2
    <3>3. loraPtr' = loraPtr
      BY <2>1, <2>4 DEF LoraPtrAfterErase
    <3> QED BY <1>k, <2>1, <3>2, <3>3
  <2>5. CASE loraPc # "wait" /\ loraPtr # "none" /\ loraFrame.dev \in expiredDevices(map)
    <3>1. loraFrame.dev \in Sleepy
      BY <2>5 DEF expiredDevices, Entries
    <3>2. loraPtr' = Erased[loraPtr]
      BY <2>1, <2>5 DEF LoraPtrAfterErase
    <3> QED BY <1>t, <2>1, <2>2, <2>5, <3>1, <3>2 DEF LoraPointer, Erased, Pointer
  <2> QED BY <2>3, <2>4, <2>5
<1>d. SUFFICES ASSUME ~TimerFlush PROVE LoraPointer'
  BY <1>x, <1>2
<1>3. CASE LoraWake
  BY <1>3 DEF LoraWake, LoraPointer, loraFrame, cur, old, Goto, getSessionKeyIsNull
<1>4. CASE LoraRegister
  BY <1>4 DEF LoraRegister, LoraPointer, loraFrame, cur, old, Goto, getSessionKeyIsNull
<1>5. CASE LoraRegr
  BY <1>5 DEF LoraRegr, LoraPointer, loraFrame, cur, old, Goto, getSessionKeyIsNull
<1>6. CASE LoraHasKey
  BY <1>6 DEF LoraHasKey, LoraPointer, loraFrame, cur, old, Goto, getSessionKeyIsNull
<1>7. CASE LoraGetKey
  BY <1>7 DEF LoraGetKey, LoraPointer, loraFrame, cur, old, Goto, getSessionKeyIsNull
<1>8. CASE LoraRxl
  BY <1>8 DEF LoraRxl, LoraPointer, loraFrame, cur, old, Goto, getSessionKeyIsNull
<1>9. CASE LoraUpdate
  <2>1. inVector' = inVector /\ oldData' = oldData /\ historyIterator' = historyIterator
    BY <1>9 DEF LoraUpdate, Goto
  <2>2. loraPtr \in {"seen", "held"} =>
          hasSessionKey(map, loraFrame.dev) /\ hasSessionKey(map', loraFrame.dev)
    BY <1>9, <1>p, <1>x, <1>d DEF LoraUpdate, LoraRegister, LoraPointer, Goto
  <2> QED BY <1>9, <2>1, <2>2 DEF LoraUpdate, LoraPointer, loraFrame, cur, old, Goto
<1>h. CASE LoraHasCheck
  BY <1>h DEF LoraHasCheck, LoraPointer, loraFrame, cur, old, Goto, getSessionKeyIsNull
<1>10. CASE LoraSetCheck
  <2>1. /\ inVector' = inVector \/ (loraPc' = "new" /\ loraPtr' = "none")
        /\ oldData' = oldData /\ historyIterator' = historyIterator
    BY <1>10 DEF LoraSetCheck, Goto
  <2>2. loraPtr \in {"seen", "held"} =>
          hasSessionKey(map, loraFrame.dev) /\ hasSessionKey(map', loraFrame.dev)
    BY <1>10, <1>p, <1>x, <1>d DEF LoraSetCheck, LoraRegister, LoraPointer, Goto
  <2> QED BY <1>10, <2>1, <2>2 DEF LoraSetCheck, LoraPointer, loraFrame, cur, old, Goto
<1>11. CASE LoraKeys
  BY <1>11 DEF LoraKeys, LoraPointer, loraFrame, cur, old, Goto, getSessionKeyIsNull
<1>12. CASE LoraNoKey
  BY <1>12 DEF LoraNoKey, LoraPointer, loraFrame, cur, old, Goto, getSessionKeyIsNull
<1>13. CASE LoraMine
  BY <1>13 DEF LoraMine, LoraPointer, loraFrame, cur, old, Goto, getSessionKeyIsNull
<1>14. CASE LoraKeyr
  BY <1>14 DEF LoraKeyr, LoraPointer, loraFrame, cur, old, Goto, getSessionKeyIsNull
<1>15. CASE LoraOldBegin
  BY <1>15 DEF LoraOldBegin, LoraPointer, loraFrame, cur, old, Goto, getSessionKeyIsNull
<1>16. CASE LoraOldHasKey
  BY <1>16 DEF LoraOldHasKey, LoraPointer, loraFrame, cur, old, Goto,
     getSessionKeyIsNull
<1>17. CASE LoraOldRxl
  BY <1>17 DEF LoraOldRxl, LoraPointer, loraFrame, cur, old, Goto, getSessionKeyIsNull
<1>18. CASE LoraOldSeq
  <2>1. /\ inVector' = inVector \/ (loraPc' = "new" /\ loraPtr' = "none")
        /\ oldData' = oldData /\ historyIterator' = historyIterator
    BY <1>18 DEF LoraOldSeq, Goto
  <2>2. loraPtr \in {"seen", "held"} =>
          hasSessionKey(map, loraFrame.dev) /\ hasSessionKey(map', loraFrame.dev)
    BY <1>18, <1>p, <1>x, <1>d DEF LoraOldSeq, LoraRegister, LoraPointer, Goto
  <2> QED BY <1>18, <2>1, <2>2 DEF LoraOldSeq, LoraPointer, loraFrame, cur, old, Goto
<1>19. CASE LoraOldCheck
  BY <1>19 DEF LoraOldCheck, LoraPointer, loraFrame, cur, old, Goto, getSessionKeyIsNull
<1>20. CASE LoraSendAll
  BY <1>20 DEF LoraSendAll, LoraPointer, loraFrame, cur, old, Goto, getSessionKeyIsNull
<1>21. CASE StiotTake \/ StiotIsMine \/ StiotKeyaSet \/ StiotKeyaSync \/ StiotKeyaNotify
           \/ StiotRegaDh \/ StiotRegaKey \/ StiotRegaSet \/ StiotTxlKey \/ StiotTxlSeq
           \/ StiotGetKey \/ StiotEncrypt \/ StiotSetSeq \/ StiotSend
  BY <1>21, <1>k, <1>p, <1>x, <1>d DEF StiotTake, StiotIsMine, StiotKeyaSet, StiotKeyaSync,
     StiotKeyaNotify,
     StiotRegaDh, StiotRegaKey, StiotRegaSet, StiotTxlKey, StiotTxlSeq, StiotGetKey,
     StiotEncrypt, StiotSetSeq, StiotSend, loraVars, stiotVars, envVars, fateVars, hist,
     Goto
<1>22. CASE ServerReceive \/ Silence \/ UNCHANGED vars
  BY <1>22, <1>k, <1>p, <1>x, <1>d DEF ServerReceive, Silence, vars, loraVars, stiotVars,
     envVars, fateVars,
     hist, Goto
<1>23. ASSUME NEW d \in Device, DeviceRegister(d) \/ DeviceSend(d) \/ DeviceReceive(d)
            \/ ServerTxl(d)
      PROVE  LoraPointer'
  BY <1>23, <1>k, <1>p, <1>x, <1>d DEF DeviceRegister, DeviceSend, DeviceReceive, ServerTxl,
     loraVars,
     stiotVars, envVars, fateVars, hist, Goto
<1> QED BY <1>x, <1>d, <1>3, <1>4, <1>5, <1>6, <1>7, <1>8, <1>9, <1>h, <1>10, <1>11, <1>12,
   <1>13, <1>14, <1>15, <1>16, <1>17, <1>18, <1>19, <1>20, <1>21, <1>22, <1>23 DEF Next,
   LoraStep, LoraPass, StiotStep, Environment

(* A step that faults found its pointer taken away.                        *)
LEMMA FaultStep ==
  ASSUME TypeOK, InHand, Entries, LoraPointer, StiotPointer, FaultNeedsErase, [Next]_vars
  PROVE  FaultNeedsErase'
<1>n. fault' = "no" => FaultNeedsErase'
  BY DEF FaultNeedsErase
<1>1. CASE Restart
  BY <1>1 DEF Restart, FaultNeedsErase
<1>2. CASE UNCHANGED vars
  BY <1>2 DEF vars, FaultNeedsErase, loraVars, stiotVars, loraFrame, cur, old
<1>d. SUFFICES ASSUME Up, ~Restart, ~UNCHANGED vars PROVE FaultNeedsErase'
  BY <1>1, <1>2 DEF Next, LoraStep
<1>u. fault = "no"
  BY <1>d DEF Up
<1>3. CASE LoraGetKey
  BY <1>3, <1>u, <1>n DEF LoraGetKey, FaultNeedsErase, LoraPointer, loraFrame, cur, old,
     getSessionKeyIsNull
<1>4. CASE LoraRxl
  BY <1>4, <1>u, <1>n DEF LoraRxl, FaultNeedsErase, LoraPointer, loraFrame, cur, old,
     getSessionKeyIsNull
<1>5. CASE LoraKeys
  BY <1>5, <1>u, <1>n DEF LoraKeys, FaultNeedsErase, LoraPointer, loraFrame, cur, old,
     getSessionKeyIsNull
<1>6. CASE LoraOldRxl
  BY <1>6, <1>u, <1>n DEF LoraOldRxl, FaultNeedsErase, LoraPointer, loraFrame, cur, old,
     getSessionKeyIsNull
<1>7. CASE StiotRegaDh
  BY <1>7, <1>u, <1>n DEF StiotRegaDh, FaultNeedsErase, StiotPointer, getDhIsNull
<1>8. CASE StiotRegaKey
  BY <1>8, <1>u, <1>n DEF StiotRegaKey, FaultNeedsErase, StiotPointer
<1>9. CASE StiotGetKey
  BY <1>9, <1>u, <1>n DEF StiotGetKey, FaultNeedsErase, StiotPointer,
     getSessionKeyIsNull
<1>10. CASE StiotEncrypt
  BY <1>10, <1>u, <1>n DEF StiotEncrypt, FaultNeedsErase, StiotPointer, stiotVars
<1>11. CASE LoraWake \/ LoraRegister \/ LoraRegr \/ LoraHasKey \/ LoraUpdate \/ LoraHasCheck \/
           LoraSetCheck \/ LoraNoKey \/ LoraMine \/ LoraKeyr \/ LoraOldBegin \/
           LoraOldHasKey \/ LoraOldSeq \/ LoraOldCheck \/ LoraSendAll
  BY <1>11, <1>u, <1>n DEF LoraWake, LoraRegister, LoraRegr, LoraHasKey, LoraUpdate, LoraHasCheck,
     LoraSetCheck,
     LoraNoKey, LoraMine, LoraKeyr, LoraOldBegin, LoraOldHasKey, LoraOldSeq,
     LoraOldCheck, LoraSendAll, loraVars, stiotVars, envVars, fateVars, hist
<1>12. CASE StiotTake \/ StiotIsMine \/ StiotKeyaSet \/ StiotKeyaSync \/ StiotKeyaNotify
           \/ StiotRegaSet \/ StiotTxlKey \/ StiotTxlSeq \/ StiotSetSeq \/ StiotSend \/
           TimerFlush \/ Silence \/ ServerReceive
  BY <1>12, <1>u, <1>n DEF StiotTake, StiotIsMine, StiotKeyaSet, StiotKeyaSync, StiotKeyaNotify,
     StiotRegaSet, StiotTxlKey, StiotTxlSeq, StiotSetSeq, StiotSend, TimerFlush,
     Silence, ServerReceive, loraVars, stiotVars, envVars, fateVars, hist
<1>13. ASSUME NEW d \in Device, DeviceRegister(d) \/ DeviceSend(d) \/ DeviceReceive(d)
            \/ ServerTxl(d)
      PROVE  FaultNeedsErase'
  BY <1>13, <1>u, <1>n DEF DeviceRegister, DeviceSend, DeviceReceive, ServerTxl, loraVars,
     stiotVars, envVars, fateVars, hist
<1> QED BY <1>d, <1>3, <1>4, <1>5, <1>6, <1>7, <1>8, <1>9, <1>10, <1>11, <1>12, <1>13
   DEF Next, LoraStep, LoraPass, StiotStep, Environment

-----------------------------------------------------------------------------
(* A device that cannot be flushed stays the gateway's own.                *)
LEMMA OwnPersists ==
  ASSUME TypeOK, InHand, Entries, [Next]_vars, ~Restart, NEW e \in Device, Own(e)
  PROVE  e \notin Sleepy => isMine(map', e)
<1>1. CASE LoraRegister /\ e = cur.dev
  <2>1. EntryAdded(e)
    BY <1>1, EntrySteps
  <2> QED BY <2>1 DEF EntryAdded, isMine, isInTable
<1>2. CASE TimerFlush /\ map[e].expired
  BY <1>2 DEF Own, Entries, isMine
<1>3. CASE ~(LoraRegister /\ e = cur.dev) /\ ~(TimerFlush /\ map[e].expired)
  BY <1>3, EntryPersists DEF Own
<1> QED BY <1>1, <1>2, <1>3

(* Answering is kept: an entry fromLora or fromStiot has found stays.      *)
LEMMA AnsweringStep ==
  ASSUME TypeOK, InHand, Entries, Answering, [Next]_vars
  PROVE  Answering'
<1> DEFINE LoraAnswering  == loraPc \in {"regr", "mine", "keyr"} => Own(cur.dev)
           StiotAnswering == stiotPc \notin {"wait", "take"} => Own(in.dev)
<1>t. /\ in.dev \in Device /\ loraPc \in LoraPc
      /\ loraPc \in {"regr", "noKey", "mine", "keyr"} => cur.dev \in Device
  BY CurProperties DEF TypeOK, Message, Frame, HasFrame
<1>0. CASE Restart
  BY <1>0 DEF Restart, Answering
<1>d. SUFFICES ASSUME ~Restart PROVE Answering'
  BY <1>0
<1>p. \A e \in Device : Own(e) /\ e \notin Sleepy => isMine(map', e)
  BY <1>d, OwnPersists
<1>l. ASSUME loraPc' = loraPc, inVector' = inVector PROVE LoraAnswering'
  BY <1>t, <1>l, <1>p DEF Answering, Own, cur
<1>s. ASSUME in' = in, stiotPc' = stiotPc \/ stiotPc \notin {"wait", "take"} PROVE StiotAnswering'
  BY <1>t, <1>s, <1>p DEF Answering, Own
<1> HIDE DEF LoraAnswering, StiotAnswering
<1>1. SUFFICES LoraAnswering' /\ StiotAnswering'
  BY DEF LoraAnswering, StiotAnswering, Answering
<1>2. CASE LoraRegister
  <2>1. EntryAdded(cur.dev)
    <3>1. cur.dev \in Device
      BY <1>2, CurProperties DEF LoraRegister, HasFrame, Frame
    <3> QED BY <1>2, <3>1, EntrySteps
  <2>2. cur' = cur /\ isMine(map', cur.dev) /\ stiotPc' = stiotPc /\ in' = in
    BY <1>2, <2>1 DEF LoraRegister, EntryAdded, isMine, isInTable, cur
  <2> QED BY <1>s, <2>2 DEF LoraAnswering, Own
<1>3. CASE LoraNoKey
  <2>1. isMine(map', cur.dev)
    <3>1. CASE isInTable(map, cur.dev)
      <4>1. isMine(map, cur.dev) /\ EntryKept(cur.dev)
        BY <1>t, <1>3, <3>1, EntrySteps DEF LoraNoKey, Entries, isMine
      <4> QED BY <4>1 DEF EntryKept, isMine, isInTable
    <3>2. CASE ~isInTable(map, cur.dev)
      <4>1. EntryAdded(cur.dev)
        BY <1>t, <1>3, <3>2, EntrySteps DEF LoraNoKey
      <4> QED BY <4>1 DEF EntryAdded, isMine, isInTable
    <3> QED BY <3>1, <3>2
  <2>2. cur' = cur /\ stiotPc' = stiotPc /\ in' = in
    BY <1>3 DEF LoraNoKey, cur
  <2> QED BY <1>s, <2>1, <2>2 DEF LoraAnswering, Own
<1>4. CASE LoraMine
  <2>1. stiotPc' = stiotPc /\ in' = in
    BY <1>4 DEF LoraMine, stiotVars
  <2>2. \/ loraPc' = "new"
        \/ loraPc' = "keyr" /\ inVector' = inVector /\ isMine(map, cur.dev) /\ map' = map
    BY <1>4 DEF LoraMine, Goto
  <2> QED BY <1>s, <2>1, <2>2 DEF LoraAnswering, Own, cur
<1>5. CASE StiotIsMine
  <2>1. loraPc' = loraPc /\ inVector' = inVector /\ in' = in /\ map' = map
    BY <1>5 DEF StiotIsMine, loraVars
  <2>2. stiotPc' = "wait" \/ isMine(map, in.dev)
    BY <1>5 DEF StiotIsMine, StiotDone
  <2> QED BY <1>l, <2>1, <2>2 DEF StiotAnswering, Own
<1>6. CASE LoraWake \/ LoraRegr \/ LoraHasKey \/ LoraGetKey \/ LoraRxl \/ LoraUpdate \/ LoraHasCheck \/
           LoraSetCheck \/ LoraKeys \/ LoraKeyr \/ LoraOldBegin \/ LoraOldHasKey \/
           LoraOldRxl \/ LoraOldSeq \/ LoraOldCheck \/ LoraSendAll
  BY <1>6, <1>l, <1>s DEF LoraWake, LoraRegr, LoraHasKey, LoraGetKey, LoraRxl,
     LoraUpdate, LoraHasCheck, LoraSetCheck, LoraKeys, LoraKeyr, LoraOldBegin, LoraOldHasKey,
     LoraOldRxl, LoraOldSeq, LoraOldCheck, LoraSendAll, LoraAnswering, Goto, loraVars,
     stiotVars, envVars, fateVars, hist
<1>7. CASE StiotKeyaSet \/ StiotKeyaSync \/ StiotKeyaNotify \/ StiotRegaDh \/
           StiotRegaKey \/ StiotRegaSet \/ StiotTxlKey \/ StiotTxlSeq \/ StiotGetKey \/
           StiotEncrypt \/ StiotSetSeq \/ StiotSend
  BY <1>7, <1>l, <1>s DEF StiotKeyaSet, StiotKeyaSync, StiotKeyaNotify, StiotRegaDh,
     StiotRegaKey, StiotRegaSet, StiotTxlKey, StiotTxlSeq, StiotGetKey, StiotEncrypt,
     StiotSetSeq, StiotSend, StiotAnswering, StiotGoto, StiotDone, loraVars, stiotVars,
     envVars, fateVars, hist
<1>10. CASE StiotTake
  BY <1>10, <1>l DEF StiotTake, StiotAnswering, StiotGoto, loraVars, stiotVars, envVars,
     fateVars, hist
<1>8. CASE TimerFlush \/ Silence \/ ServerReceive \/ UNCHANGED vars
  BY <1>8, <1>l, <1>s DEF TimerFlush, Silence, ServerReceive, vars, loraVars, stiotVars,
     envVars, fateVars, hist
<1>9. ASSUME NEW d \in Device, DeviceRegister(d) \/ DeviceSend(d) \/ DeviceReceive(d) \/
            ServerTxl(d)
      PROVE  LoraAnswering' /\ StiotAnswering'
  BY <1>9, <1>l, <1>s DEF DeviceRegister, DeviceSend, DeviceReceive, ServerTxl,
     loraVars, stiotVars, envVars, fateVars, hist
<1> QED BY <1>d, <1>2, <1>3, <1>4, <1>5, <1>6, <1>7, <1>8, <1>9, <1>10
       DEF Next, LoraStep, LoraPass, StiotStep, Environment

(* The messages that ask for, or are, an answer to a device of the table.  *)
Asking(t)  == {m \in Message : m.type \in {"REGR", "KEYR"} /\ m.dev \notin Sleepy =>
                                 isMine(t, m.dev)}
Answers(t) == {m \in Message : m.type \in {"REGA", "KEYA"} /\ m.dev \notin Sleepy =>
                                 isMine(t, m.dev)}
FindsDevice(t, u, f) ==
  \A d \in Device \ Sleepy :
    \/ isMine(t, d)
    \/ /\ \A i \in DOMAIN u : u[i].dev = d => u[i].type \notin {"REGR", "KEYR"}
       /\ \A i \in DOMAIN f : f[i].dev = d => f[i].type \notin {"REGA", "KEYA"}

(* AnswerFindsDevice says of two queues what holds of their elements.      *)
LEMMA AnswerSets ==
  ASSUME NEW t, NEW u \in Seq(Message), NEW f \in Seq(Message)
  PROVE  FindsDevice(t, u, f) <=> u \in Seq(Asking(t)) /\ f \in Seq(Answers(t))
<1>0. /\ \A i \in DOMAIN u : u[i] \in Message
      /\ \A i \in DOMAIN f : f[i] \in Message
  BY ElementOfSeq, LenProperties
<1>1. /\ \A i \in DOMAIN u : u[i] \in Message /\ u[i].dev \in Device
      /\ \A i \in DOMAIN f : f[i] \in Message /\ f[i].dev \in Device
  BY <1>0 DEF Message
<1>2. u \in Seq(Asking(t)) <=> \A i \in DOMAIN u : u[i] \in Asking(t)
  BY ElementOfSeq, LenProperties, IsASeq
<1>3. f \in Seq(Answers(t)) <=> \A i \in DOMAIN f : f[i] \in Answers(t)
  BY ElementOfSeq, LenProperties, IsASeq
<1> QED BY <1>1, <1>2, <1>3 DEF FindsDevice, Asking, Answers

(* AnswerFindsDevice is kept by every step.                                *)
LEMMA AnswerFindsDeviceStep ==
  ASSUME TypeOK, TypeOK', InHand, Entries, Answering, AnswerFindsDevice, [Next]_vars
  PROVE  AnswerFindsDevice'
<1>t. /\ map \in Table /\ upQ \in Seq(Message) /\ fromStiotData \in Seq(Message)
      /\ upQ' \in Seq(Message) /\ fromStiotData' \in Seq(Message)
      /\ in.dev \in Device
  BY DEF TypeOK, Message
<1>1. upQ \in Seq(Asking(map)) /\ fromStiotData \in Seq(Answers(map))
  BY <1>t, AnswerSets DEF FindsDevice, AnswerFindsDevice
<1>2. NewMessages(Asking(map), Answers(map))
  <2>1. loraPc \in {"regr", "keys", "keyr"} => cur.dev \in Device /\ cur.n \in Nat
    BY CurProperties DEF HasFrame, Frame
  <2>2. \A i \in 1..Len(outVector) : RXL(outVector[i]) \in Asking(map)
    <3>1. outVector \in Seq(DataFrame)
      BY DEF InHand
    <3>2. ASSUME NEW f \in DataFrame PROVE RXL(f) \in Asking(map)
      <4>1. f.dev \in Device /\ f.n \in Nat /\ f.key \in SessionKey
        BY DEF DataFrame, Frame
      <4>2. RXL(f) \in Message /\ RXL(f).type = "RXL"
        BY <4>1, MsgType DEF RXL
      <4> QED BY <4>2 DEF Asking
    <3>3. \A i \in 1..Len(outVector) : outVector[i] \in DataFrame
      BY <3>1, ElementOfSeq
    <3> QED BY <3>2, <3>3
  <2>3. loraPc = "keys" /\ hasSessionKey(map, cur.dev) =>
          Msg("KEYS", cur.dev, getSeq(map, cur.dev), map[cur.dev].sessionKey) \in Asking(map)
    BY <1>t, <2>1, TableAnswers, MsgType DEF Asking
  <2>4. /\ loraPc = "regr" => Msg("REGR", cur.dev, cur.n, NullKey) \in Asking(map)
        /\ loraPc = "keyr" => Msg("KEYR", cur.dev, 0, NullKey) \in Asking(map)
        /\ stiotPc = "txlKey" => Msg("KEYR", in.dev, 0, NullKey) \in Asking(map)
    <3>1. ASSUME NEW type \in {"REGR", "KEYR"}, NEW d \in Device, NEW n \in Nat,
                 d \notin Sleepy => isMine(map, d)
          PROVE  Msg(type, d, n, NullKey) \in Asking(map)
      BY <3>1, MsgType, KeyTypes DEF Asking
    <3>2. /\ loraPc \in {"regr", "keyr"} /\ cur.dev \notin Sleepy => isMine(map, cur.dev)
          /\ stiotPc = "txlKey" /\ in.dev \notin Sleepy => isMine(map, in.dev)
      BY DEF Answering, Own
    <3>3. 0 \in Nat
      OBVIOUS
    <3> QED BY <1>t, <2>1, <3>1, <3>2, <3>3
  <2>5. /\ NoMessage \in Answers(map)
        /\ \A d \in Device : Msg("TXL", d, 0, NullKey) \in Answers(map)
    BY NoMessageType, MsgType, KeyTypes DEF Answers, NoMessage, Msg
  <2>6. ASSUME NEW m \in Asking(map)
        PROVE  /\ m.type = "REGR" => Msg("REGA", m.dev, 0, NullKey) \in Answers(map)
               /\ m.type = "KEYR" /\ srvKeys[m.dev] # <<>> =>
                    Msg("KEYA", m.dev, LastSeq(m.dev), LastKey(m.dev)) \in Answers(map)
    <3>1. m.dev \in Device
      BY DEF Asking, Message
    <3>2. Msg("REGA", m.dev, 0, NullKey) \in Message
      BY <3>1, MsgType, KeyTypes
    <3>3. srvKeys[m.dev] # <<>> => Msg("KEYA", m.dev, LastSeq(m.dev), LastKey(m.dev)) \in Message
      BY <3>1, MsgType, LastKeyType, LastSeqType
    <3> QED BY <3>2, <3>3 DEF Asking, Answers, Msg
  <2> QED BY <2>2, <2>3, <2>4, <2>5, <2>6 DEF NewMessages
<1>3. upQ' \in Seq(Asking(map)) /\ fromStiotData' \in Seq(Answers(map))
  BY <1>1, <1>2, MessagesMove DEF Asking, Answers
<1>4. CASE Restart
  <2>1. upQ' = <<>> /\ fromStiotData' = <<>>
    BY <1>4 DEF Restart
  <2> QED BY <2>1 DEF AnswerFindsDevice
<1>5. CASE ~Restart
  <2>1. Asking(map) \subseteq Asking(map') /\ Answers(map) \subseteq Answers(map')
    <3>1. \A e \in Device : e \notin Sleepy /\ isMine(map, e) => isMine(map', e)
      BY <1>5, OwnPersists DEF Own
    <3>2. \A m \in Message : m.dev \in Device
      BY DEF Message
    <3> QED BY <3>1, <3>2 DEF Asking, Answers
  <2>2. upQ' \in Seq(Asking(map')) /\ fromStiotData' \in Seq(Answers(map'))
    BY <1>3, <2>1, SeqMonotonic
  <2>3. FindsDevice(map', upQ', fromStiotData')
    BY <1>t, <2>2, AnswerSets
  <2> QED BY <2>3 DEF FindsDevice, AnswerFindsDevice
<1> QED BY <1>4, <1>5

-----------------------------------------------------------------------------
(* The first invariant: types, pointers and answers.                       *)
LEMMA InitBase == Init => Base
<1> SUFFICES ASSUME Init PROVE Base
  OBVIOUS
<1> PICK enrolled \in SUBSET Device :
      /\ reg     = [d \in Device |-> IF d \in enrolled THEN 1 ELSE 0]
      /\ devKey  = [d \in Device |-> IF d \in enrolled THEN OldKey ELSE NullKey]
      /\ srvKeys = [d \in Device |-> IF d \in enrolled THEN <<OldKey>> ELSE <<>>]
  BY DEF Init
<1>1. TypeOK
  <2>1. map \in Table /\ verified \in [Device -> Nat] /\ dataSent \in [Device -> Nat]
    BY DEF Init, InitGateway, Table
  <2>2. /\ reg \in [Device -> Nat] /\ devKey \in [Device -> SessionKey]
        /\ srvKeys \in [Device -> Seq(SessionKey)]
    BY KeyTypes
  <2>3. /\ fromLoraData \in Seq(Frame) /\ inVector \in Seq(Frame)
        /\ outVector \in Seq(Frame) /\ oldData \in Seq(Frame)
        /\ fromStiotData \in Seq(Message) /\ upQ \in Seq(Message)
    BY DEF Init, InitGateway
  <2>4. in \in Message /\ sessionKey \in SessionKey /\ out \in SessionKey
    BY NoMessageType, KeyTypes DEF Init, InitGateway
  <2> QED BY <2>1, <2>2, <2>3, <2>4 DEF Init, InitGateway, TypeOK, LoraPc, StiotPc, Pointer
<1>2. InHand
  BY NoMessageType DEF Init, InitGateway, InHand, HasFrame, OldPc
<1>3. Entries /\ LoraPointer /\ StiotPointer
  BY DEF Init, InitGateway, Entries, LoraPointer, StiotPointer, isInTable
<1>4. FaultNeedsErase /\ Answering /\ AnswerFindsDevice
  BY DEF Init, InitGateway, FaultNeedsErase, Answering, AnswerFindsDevice
<1> QED BY <1>1, <1>2, <1>3, <1>4 DEF Base

(* The invariant of shape, entries and pointers is inductive.              *)
LEMMA BaseStep == Base /\ [Next]_vars => Base'
<1> SUFFICES ASSUME Base, [Next]_vars PROVE Base'
  OBVIOUS
<1>1. /\ TypeOK /\ InHand /\ Entries /\ LoraPointer /\ StiotPointer
      /\ FaultNeedsErase /\ Answering /\ AnswerFindsDevice
  BY DEF Base
<1>2. TypeOK' /\ InHand'
  BY <1>1, ShapeStep
<1>3. Entries' /\ LoraPointer' /\ StiotPointer'
  BY <1>1, EntriesStep, LoraPointerStep, StiotPointerStep
<1>4. FaultNeedsErase' /\ Answering' /\ AnswerFindsDevice'
  BY <1>1, <1>2, FaultStep, AnsweringStep, AnswerFindsDeviceStep
<1> QED BY <1>2, <1>3, <1>4 DEF Base

(* What fromLora and fromStiot have in hand, their pointers and the table  *)
(* agree at every moment.                                                  *)
THEOREM BaseInvariant == Spec => []Base
<1> QED BY InitBase, BaseStep, PTL DEF Spec

(* Every variable keeps its type: no key, frame or message is made up, and *)
(* no step reads the head of an empty vector or past the cache's end.      *)
THEOREM TypeCorrect == Spec => []TypeOK
<1>1. Base => TypeOK
  BY DEF Base
<1> QED BY <1>1, BaseInvariant, PTL

(* A thread that used a null or dangling pointer had its entry erased      *)
(* after it had looked: by a registration or a flush for fromStiot, by a   *)
(* flush alone for fromLora.                                               *)
THEOREM FaultsNeedErase == Spec => []FaultNeedsErase
<1>1. Base => FaultNeedsErase
  BY DEF Base
<1> QED BY <1>1, BaseInvariant, PTL

(* A device that cannot be flushed is in the table as long as a question   *)
(* about it is on its way to the server or the answer on its way back.     *)
THEOREM AnswersFindTheirDevice == Spec => []AnswerFindsDevice
<1>1. Base => AnswerFindsDevice
  BY DEF Base
<1> QED BY <1>1, BaseInvariant, PTL

-----------------------------------------------------------------------------
(* Which keys there are.                                                   *)
Counter == /\ nextPriv >= 1
           /\ stiotPc = "regaSet" => sessionKey.priv = nextPriv - 1 /\ nextPriv >= 2

(* The exponents still to be drawn only become fewer.                      *)
LEMMA UnusedStep ==
  ASSUME TypeOK, InHand, Counter, [Next]_vars
  PROVE  /\ Counter' /\ Unused \in Nat /\ Unused' \in Nat /\ 0 < Unused /\ Unused <= Unused'
         /\ stiotPc = "regaSet" /\ StiotRegaSet => sessionKey.priv < Unused'
<1>t. nextPriv \in Nat /\ in.type \in {"REGA", "KEYA", "TXL"}
  BY DEF TypeOK, InHand, FromServer
<1>1. CASE StiotRegaKey
  BY <1>1, <1>t DEF StiotRegaKey, StiotGoto, Counter, Unused, StiotRegaSet
<1>2. CASE StiotRegaSet
  BY <1>2, <1>t DEF StiotRegaSet, StiotGoto, Counter, Unused, envVars
<1>3. CASE ~StiotRegaKey /\ ~StiotRegaSet
  <2>1. /\ nextPriv' = nextPriv
        /\ stiotPc' = "regaSet" => stiotPc = "regaSet" /\ sessionKey' = sessionKey
    <3>1. CASE LoraWake \/ LoraRegister \/ LoraRegr \/ LoraHasKey \/ LoraGetKey \/
               LoraRxl \/ LoraUpdate \/ LoraHasCheck \/ LoraSetCheck \/ LoraKeys \/ LoraNoKey \/
               LoraMine \/ LoraKeyr \/ LoraOldBegin \/ LoraOldHasKey \/ LoraOldRxl \/
               LoraOldSeq \/ LoraOldCheck \/ LoraSendAll
      BY <3>1 DEF LoraWake, LoraRegister, LoraRegr, LoraHasKey, LoraGetKey, LoraRxl,
         LoraUpdate, LoraHasCheck, LoraSetCheck, LoraKeys, LoraNoKey, LoraMine, LoraKeyr,
         LoraOldBegin, LoraOldHasKey, LoraOldRxl, LoraOldSeq, LoraOldCheck, LoraSendAll,
         LoraAddDevice, loraVars, stiotVars, envVars, fateVars, hist
    <3>2. CASE StiotTake \/ StiotIsMine \/ StiotKeyaSet \/ StiotKeyaSync \/
               StiotKeyaNotify \/ StiotRegaDh \/ StiotTxlKey \/ StiotTxlSeq \/
               StiotGetKey \/ StiotEncrypt \/ StiotSetSeq \/ StiotSend
      BY <3>2, <1>t DEF StiotTake, StiotIsMine, StiotKeyaSet, StiotKeyaSync,
         StiotKeyaNotify, StiotRegaDh, StiotTxlKey, StiotTxlSeq, StiotGetKey,
         StiotEncrypt, StiotSetSeq, StiotSend, StiotGoto, StiotDone, loraVars,
         stiotVars, envVars, fateVars, hist
    <3>3. CASE TimerFlush \/ Silence \/ ServerReceive \/ Restart \/ UNCHANGED vars
      BY <3>3 DEF TimerFlush, Silence, ServerReceive, Restart, vars, loraVars,
         stiotVars, envVars, fateVars, hist
    <3>4. ASSUME NEW d \in Device, DeviceRegister(d) \/ DeviceSend(d) \/ DeviceReceive(d) \/ ServerTxl(d)
          PROVE  nextPriv' = nextPriv /\ stiotPc' = stiotPc /\ sessionKey' = sessionKey
      BY <3>4 DEF DeviceRegister, DeviceSend, DeviceReceive, ServerTxl, loraVars, stiotVars,
         envVars, fateVars, hist
    <3> QED BY <1>3, <3>1, <3>2, <3>3, <3>4 DEF Next, LoraStep, LoraPass, StiotStep, Environment
  <2> QED BY <1>t, <1>3, <2>1 DEF Counter, Unused
<1> QED BY <1>1, <1>2, <1>3

UsedQueues ==
  /\ fromLoraData \in Seq(UsedFrame) /\ inVector \in Seq(UsedFrame)
  /\ oldData \in Seq(UsedFrame \cap DataFrame) /\ outVector \in Seq(UsedFrame \cap DataFrame)
  /\ upQ \in Seq(UsedMsg) /\ fromStiotData \in Seq(UsedMsg) /\ in \in UsedMsg
UsedHere ==
  /\ \A m \in air : m.key.priv < Unused
  /\ out.priv < Unused
  /\ \A d \in Device :
       /\ devKey[d].priv < Unused
       /\ \A i \in DOMAIN srvKeys[d] : srvKeys[d][i].priv < Unused
       /\ isInTable(map, d) => map[d].sessionKey.priv < Unused

(* Frames carry keys that have been drawn.                                 *)
LEMMA UsedFramesStep ==
  ASSUME TypeOK, InHand, Counter, UsedQueues, UsedHere, [Next]_vars
  PROVE  FramesIn4(UsedFrame)'
<1>u. Unused \in Nat /\ Unused' \in Nat /\ 0 < Unused /\ Unused <= Unused'
  BY UnusedStep
<1>1. UsedFrame \subseteq UsedFrame' /\ UsedFrame \in SUBSET Frame
  BY <1>u DEF UsedFrame, Frame, SessionKey
<1>2. FramesIn4(UsedFrame)
  BY DEF UsedQueues, FramesIn4
<1>3. ASSUME NEW d \in Device, DeviceRegister(d) \/ DeviceSend(d) PROVE FramesIn4(UsedFrame)'
  <2> DEFINE r == [type |-> "REGISTER_UP", dev |-> d, n |-> reg[d] + 1, key |-> NullKey]
             s == [type |-> "DATA_UP", dev |-> d, n |-> dataSent[d] + 1, key |-> devKey[d]]
  <2>1. r \in Frame /\ s \in Frame
    BY KeyTypes DEF TypeOK, Frame
  <2>2. r.key.priv < Unused /\ s.key.priv < Unused
    BY <1>u DEF UsedHere, NullKey
  <2>3. r \in UsedFrame /\ s \in UsedFrame
    BY <2>1, <2>2 DEF UsedFrame
  <2> HIDE DEF r, s
  <2>4. Append(fromLoraData, r) \in Seq(UsedFrame) /\ Append(fromLoraData, s) \in Seq(UsedFrame)
    BY <1>2, <2>3, AppendProperties DEF FramesIn4
  <2>5. /\ fromLoraData' = Append(fromLoraData, r) \/ fromLoraData' = Append(fromLoraData, s)
        /\ inVector' = inVector /\ oldData' = oldData /\ outVector' = outVector
    BY <1>3 DEF DeviceRegister, DeviceSend, AddBulk, loraVars, r, s
  <2>6. /\ fromLoraData' \in Seq(UsedFrame) /\ inVector' \in Seq(UsedFrame)
        /\ oldData' \in Seq(UsedFrame \cap DataFrame) /\ outVector' \in Seq(UsedFrame \cap DataFrame)
    BY <1>2, <2>4, <2>5 DEF FramesIn4
  <2>7. (UsedFrame \cap DataFrame) \subseteq (UsedFrame \cap DataFrame)'
    BY <1>1 DEF DataFrame
  <2> QED BY <1>1, <2>6, <2>7, SeqMonotonic DEF FramesIn4
<1>4. CASE \A d \in Device : ~(DeviceRegister(d) \/ DeviceSend(d))
  <2>1. /\ fromLoraData' \in Seq(UsedFrame) /\ inVector' \in Seq(UsedFrame)
        /\ oldData' \in Seq(UsedFrame \cap DataFrame) /\ outVector' \in Seq(UsedFrame \cap DataFrame)
    <3> DEFINE S == UsedFrame
    <3>1. S \in SUBSET Frame /\ FramesIn4(S)
      BY <1>1, <1>2
    <3> HIDE DEF S
    <3>2. /\ fromLoraData' \in Seq(S) /\ inVector' \in Seq(S)
          /\ oldData' \in Seq(S \cap DataFrame) /\ outVector' \in Seq(S \cap DataFrame)
      BY <1>4, <3>1, FramesMove DEF FramesIn4
    <3> QED BY <3>2 DEF S
  <2>2. (UsedFrame \cap DataFrame) \subseteq (UsedFrame \cap DataFrame)'
    BY <1>1 DEF DataFrame
  <2> QED BY <1>1, <2>1, <2>2, SeqMonotonic DEF FramesIn4
<1> QED BY <1>3, <1>4

(* Messages carry keys that have been drawn.                               *)
LEMMA UsedMessagesStep ==
  ASSUME TypeOK, InHand, Counter, UsedQueues, UsedHere, [Next]_vars
  PROVE  (upQ \in Seq(UsedMsg) /\ fromStiotData \in Seq(UsedMsg) /\ in \in UsedMsg)'
<1>u. Unused \in Nat /\ Unused' \in Nat /\ 0 < Unused /\ Unused <= Unused'
  BY UnusedStep
<1>1. UsedMsg \subseteq UsedMsg' /\ UsedMsg \in SUBSET Message
  BY <1>u DEF UsedMsg, Message, SessionKey
<1>t. /\ upQ \in Seq(UsedMsg) /\ fromStiotData \in Seq(UsedMsg) /\ in \in UsedMsg
      /\ map \in Table /\ in.dev \in Device
  BY DEF UsedQueues, TypeOK, Message
<1>2. NewMessages(UsedMsg, UsedMsg)
  <2>1. loraPc \in {"regr", "keys", "keyr"} => cur.dev \in Device /\ cur.n \in Nat
    BY CurProperties DEF HasFrame, Frame
  <2>2. ASSUME NEW type \in {"REGR", "RXL", "KEYS", "KEYR", "REGA", "KEYA", "TXL"},
               NEW d \in Device, NEW n \in Nat, NEW key \in SessionKey, key.priv < Unused
        PROVE  Msg(type, d, n, key) \in UsedMsg
    BY <2>2, MsgType DEF UsedMsg
  <2>3. NullKey \in SessionKey /\ NullKey.priv < Unused /\ 0 \in Nat
    BY <1>u, KeyTypes DEF NullKey
  <2>4. \A i \in 1..Len(outVector) : RXL(outVector[i]) \in UsedMsg
    <3>1. \A i \in 1..Len(outVector) : outVector[i] \in UsedFrame /\ outVector[i] \in Frame
      BY ElementOfSeq DEF UsedQueues, UsedFrame
    <3>2. \A f \in UsedFrame : f.dev \in Device /\ f.n \in Nat /\ f.key \in SessionKey /\ f.key.priv < Unused
      BY DEF UsedFrame, Frame
    <3> QED BY <2>2, <3>1, <3>2 DEF RXL
  <2>5. loraPc = "keys" /\ hasSessionKey(map, cur.dev) =>
          Msg("KEYS", cur.dev, getSeq(map, cur.dev), map[cur.dev].sessionKey) \in UsedMsg
    BY <1>t, <2>1, <2>2, TableAnswers DEF UsedHere
  <2>6. NoMessage \in UsedMsg
    BY <2>3, NoMessageType DEF UsedMsg
  <2>7. ASSUME NEW m \in UsedMsg
        PROVE  /\ Msg("REGA", m.dev, 0, NullKey) \in UsedMsg
               /\ srvKeys[m.dev] # <<>> =>
                    Msg("KEYA", m.dev, LastSeq(m.dev), LastKey(m.dev)) \in UsedMsg
    <3>1. m.dev \in Device
      BY DEF UsedMsg, Message
    <3>2. srvKeys[m.dev] # <<>> => LastKey(m.dev).priv < Unused
      BY <3>1, LastKeyType DEF UsedHere, LastKey
    <3> QED BY <2>2, <2>3, <3>1, <3>2, LastKeyType, LastSeqType
  <2> QED BY <1>t, <2>1, <2>2, <2>3, <2>4, <2>5, <2>6, <2>7 DEF NewMessages
<1>3. /\ upQ' \in Seq(UsedMsg) /\ fromStiotData' \in Seq(UsedMsg)
      /\ in' \in UsedMsg \/ in' = in
  <2> DEFINE S == UsedMsg
  <2>1. S \in SUBSET Message /\ upQ \in Seq(S) /\ fromStiotData \in Seq(S) /\ NewMessages(S, S)
    BY <1>1, <1>2, <1>t
  <2> HIDE DEF S
  <2>2. upQ' \in Seq(S) /\ fromStiotData' \in Seq(S) /\ (in' \in S \/ in' = in)
    BY <2>1, MessagesMove
  <2> QED BY <2>2 DEF S
<1> QED BY <1>1, <1>3, <1>t, SeqMonotonic

(* The table, the devices, the server and the air hold keys that have been *)
(* drawn.                                                                  *)
LEMMA UsedHereStep ==
  ASSUME TypeOK, InHand, StiotPointer, Counter, UsedQueues, UsedHere, [Next]_vars
  PROVE  UsedHere'
<1>u. /\ Unused \in Nat /\ Unused' \in Nat /\ 0 < Unused /\ Unused <= Unused'
      /\ \A k \in SessionKey : k.priv < Unused => k.priv < Unused'
  BY UnusedStep DEF SessionKey
<1>t. /\ map \in Table /\ in.dev \in Device /\ in.key \in SessionKey /\ in.key.priv < Unused
      /\ out \in SessionKey /\ out.priv < Unused /\ devKey \in [Device -> SessionKey]
      /\ srvKeys \in [Device -> Seq(SessionKey)]
      /\ \A m \in air : m.key \in SessionKey /\ m.key.priv < Unused
      /\ NullKey \in SessionKey /\ NullKey.priv < Unused
  BY <1>u, KeyTypes DEF TypeOK, Message, UsedQueues, UsedMsg, UsedHere, NullKey
<1>k. /\ \A d \in Device : isInTable(map, d) => map[d].sessionKey \in SessionKey
                                             /\ map[d].sessionKey.priv < Unused
      /\ \A d \in Device : devKey[d] \in SessionKey /\ devKey[d].priv < Unused
      /\ \A d \in Device : \A i \in DOMAIN srvKeys[d] :
            srvKeys[d][i] \in SessionKey /\ srvKeys[d][i].priv < Unused
  <2>1. \A d \in Device : isInTable(map, d) => map[d].sessionKey \in SessionKey
    BY <1>t, TableAnswers
  <2>2. \A d \in Device : \A i \in DOMAIN srvKeys[d] : srvKeys[d][i] \in SessionKey
    BY <1>t, ElementOfSeq, LenProperties
  <2> QED BY <1>t, <2>1, <2>2 DEF UsedHere
(* The air and the frame of fromStiot.                                     *)
<1> DEFINE Goal == /\ \A m \in air' : m.key \in SessionKey /\ m.key.priv < Unused
                   /\ out' \in SessionKey /\ out'.priv < Unused
<1>1. Goal
  <2>1. CASE StiotEncrypt
    BY <2>1, <1>t, <1>k DEF StiotEncrypt, StiotPointer
  <2>2. CASE StiotSend
    BY <2>2, <1>t DEF StiotSend
  <2>3. CASE Restart
    BY <2>3, <1>t DEF Restart
  <2>4. ASSUME NEW d \in Device, DeviceReceive(d) PROVE Goal
    BY <2>4, <1>t DEF DeviceReceive, stiotVars
  <2>5. CASE LoraWake \/ LoraRegister \/ LoraRegr \/ LoraHasKey \/ LoraGetKey \/ LoraRxl
             \/ LoraUpdate \/ LoraHasCheck \/ LoraSetCheck \/ LoraKeys \/ LoraNoKey \/ LoraMine \/
             LoraKeyr \/ LoraOldBegin \/ LoraOldHasKey \/ LoraOldRxl \/ LoraOldSeq \/
             LoraOldCheck \/ LoraSendAll
    BY <2>5, <1>t DEF LoraWake, LoraRegister, LoraRegr, LoraHasKey, LoraGetKey, LoraRxl,
       LoraUpdate, LoraHasCheck, LoraSetCheck, LoraKeys, LoraNoKey, LoraMine, LoraKeyr, LoraOldBegin,
       LoraOldHasKey, LoraOldRxl, LoraOldSeq, LoraOldCheck, LoraSendAll, loraVars,
       stiotVars, envVars, fateVars, hist
  <2>6. CASE StiotTake \/ StiotIsMine \/ StiotKeyaSet \/ StiotKeyaSync \/ StiotKeyaNotify
             \/ StiotRegaDh \/ StiotRegaKey \/ StiotRegaSet \/ StiotTxlKey \/ StiotTxlSeq
             \/ StiotGetKey \/ StiotSetSeq \/ TimerFlush \/ Silence \/ ServerReceive \/
             UNCHANGED vars
    BY <2>6, <1>t DEF StiotTake, StiotIsMine, StiotKeyaSet, StiotKeyaSync,
       StiotKeyaNotify, StiotRegaDh, StiotRegaKey, StiotRegaSet, StiotTxlKey, StiotTxlSeq,
       StiotGetKey, StiotSetSeq, TimerFlush, Silence, ServerReceive, vars, loraVars,
       stiotVars, envVars, fateVars, hist
  <2>7. ASSUME NEW d \in Device, DeviceRegister(d) \/ DeviceSend(d) \/ ServerTxl(d)
        PROVE  Goal
    BY <2>7, <1>t DEF DeviceRegister, DeviceSend, ServerTxl, loraVars, stiotVars, envVars,
       fateVars, hist
  <2> QED BY <2>1, <2>2, <2>3, <2>4, <2>5, <2>6, <2>7 DEF Next, LoraStep, LoraPass,
     StiotStep, Environment
(* The devices and the server.                                             *)
<1> DEFINE Fine(k) == k \in SessionKey /\ k.priv < Unused
           Kept    == \A e \in Device : /\ Fine(devKey'[e])
                                        /\ \A i \in DOMAIN srvKeys'[e] : Fine(srvKeys'[e][i])
<1>2. Kept
  <2>1. CASE ServerReceive
    <3>1. PICK m \in UsedMsg : \/ srvKeys' = srvKeys
                               \/ srvKeys' = [srvKeys EXCEPT ![m.dev] = Append(srvKeys[m.dev], m.key)]
      <4>1. upQ # <<>> => Head(upQ) \in UsedMsg
        BY HeadTailProperties DEF UsedQueues
      <4> QED BY <2>1, <4>1 DEF ServerReceive
    <3>2. m.dev \in Device /\ m.key \in SessionKey /\ m.key.priv < Unused
      BY DEF UsedMsg, Message
    <3>3. devKey' = devKey
      BY <2>1 DEF ServerReceive
    <3>4. ASSUME NEW e \in Device
          PROVE  \A i \in DOMAIN srvKeys'[e] : Fine(srvKeys'[e][i])
      <4>1. CASE srvKeys'[e] = srvKeys[e]
        BY <1>k, <4>1
      <4>2. CASE e = m.dev /\ srvKeys'[e] = Append(srvKeys[e], m.key)
        <5>1. srvKeys[e] \in Seq(SessionKey)
          BY <1>t
        <5>2. /\ Len(srvKeys'[e]) = Len(srvKeys[e]) + 1 /\ DOMAIN srvKeys'[e] = 1..(Len(srvKeys[e]) + 1)
              /\ \A i \in 1..Len(srvKeys[e]) : srvKeys'[e][i] = srvKeys[e][i]
              /\ srvKeys'[e][Len(srvKeys[e]) + 1] = m.key
          BY <3>2, <4>2, <5>1, AppendProperties, LenProperties
        <5> QED BY <1>k, <3>2, <5>1, <5>2, LenProperties
      <4> QED BY <1>t, <3>1, <3>2, <4>1, <4>2
    <3> QED BY <1>k, <3>3, <3>4
  <2>2. ASSUME NEW d \in Device, DeviceRegister(d) PROVE Kept
    BY <2>2, <1>t, <1>k DEF DeviceRegister
  <2>3. ASSUME NEW d \in Device, DeviceReceive(d) PROVE Kept
    <3>1. PICK k \in SessionKey : k.priv < Unused /\ devKey' = [devKey EXCEPT ![d] = k]
      BY <2>3, <1>t DEF DeviceReceive
    <3>2. srvKeys' = srvKeys
      BY <2>3 DEF DeviceReceive
    <3> QED BY <1>t, <1>k, <3>1, <3>2
  <2>4. CASE LoraWake \/ LoraRegister \/ LoraRegr \/ LoraHasKey \/ LoraGetKey \/ LoraRxl
             \/ LoraUpdate \/ LoraHasCheck \/ LoraSetCheck \/ LoraKeys \/ LoraNoKey \/ LoraMine \/
             LoraKeyr \/ LoraOldBegin \/ LoraOldHasKey \/ LoraOldRxl \/ LoraOldSeq \/
             LoraOldCheck \/ LoraSendAll
    BY <2>4, <1>k DEF LoraWake, LoraRegister, LoraRegr, LoraHasKey, LoraGetKey, LoraRxl,
       LoraUpdate, LoraHasCheck, LoraSetCheck, LoraKeys, LoraNoKey, LoraMine, LoraKeyr, LoraOldBegin,
       LoraOldHasKey, LoraOldRxl, LoraOldSeq, LoraOldCheck, LoraSendAll, loraVars,
       stiotVars, envVars, fateVars, hist
  <2>5. CASE StiotTake \/ StiotIsMine \/ StiotKeyaSet \/ StiotKeyaSync \/ StiotKeyaNotify
             \/ StiotRegaDh \/ StiotRegaKey \/ StiotRegaSet \/ StiotTxlKey \/ StiotTxlSeq
             \/ StiotGetKey \/ StiotEncrypt \/ StiotSetSeq \/ StiotSend \/ TimerFlush \/
             Silence \/ Restart \/ UNCHANGED vars
    BY <2>5, <1>k DEF StiotTake, StiotIsMine, StiotKeyaSet, StiotKeyaSync,
       StiotKeyaNotify, StiotRegaDh, StiotRegaKey, StiotRegaSet, StiotTxlKey, StiotTxlSeq,
       StiotGetKey, StiotEncrypt, StiotSetSeq, StiotSend, TimerFlush, Silence, Restart,
       vars, loraVars, stiotVars, envVars, fateVars, hist
  <2>6. ASSUME NEW d \in Device, DeviceSend(d) \/ ServerTxl(d)
        PROVE  Kept
    BY <2>6, <1>k DEF DeviceSend, ServerTxl, loraVars, stiotVars, envVars, fateVars, hist
  <2> QED BY <2>1, <2>2, <2>3, <2>4, <2>5, <2>6 DEF Next, LoraStep, LoraPass, StiotStep,
     Environment
(* The table.                                                              *)
<1>3. ASSUME NEW e \in Device, isInTable(map', e) PROVE map'[e].sessionKey.priv < Unused'
  <2>1. CASE map'[e] # NoEntry /\ isInTable(map, e) /\ map'[e].sessionKey = map[e].sessionKey
    BY <1>k, <1>u, <2>1
  <2>2. CASE EntryAdded(e)
    BY <1>t, <1>u, <2>2 DEF EntryAdded
  <2>3. CASE EntryKeyed(e, in.key)
    BY <1>t, <1>u, <2>3 DEF EntryKeyed
  <2>4. CASE EntryKeyed(e, sessionKey) /\ StiotRegaSet
    BY <2>4, UnusedStep DEF EntryKeyed, StiotRegaSet
  <2>5. CASE EntryErased(e)
    BY <1>3, <2>5 DEF EntryErased, isInTable
  <2>6. CASE EntryKept(e) \/ (\E n : EntryNumbered(e, n)) \/ EntryChecked(e) \/ EntryAged(e)
    BY <1>3, <2>1, <2>6 DEF EntryKept, EntryNumbered, EntryChecked, EntryAged, isInTable,
       hasSessionKey
  <2>7. CASE ~MapStep
    BY <1>3, <2>1, <2>7, OtherSteps DEF isInTable
  <2>8. CASE MapStep
    BY <2>2, <2>3, <2>4, <2>5, <2>6, <2>8, EntrySteps DEF MapStep
  <2> QED BY <2>7, <2>8
<1>4. /\ \A m \in air' : m.key.priv < Unused'
      /\ out'.priv < Unused'
  BY <1>1, <1>u
<1>5. \A e \in Device : /\ devKey'[e].priv < Unused'
                        /\ \A i \in DOMAIN srvKeys'[e] : srvKeys'[e][i].priv < Unused'
  BY <1>2, <1>u
<1> QED BY <1>3, <1>4, <1>5 DEF UsedHere

(* UsedKeys in three parts.                                                *)
LEMMA UsedKeysParts == UsedKeys <=> Counter /\ UsedQueues /\ UsedHere
BY DEF UsedKeys, Counter, UsedQueues, UsedHere

(* UsedKeys is kept by every step.                                         *)
LEMMA UsedKeysStep ==
  ASSUME TypeOK, InHand, StiotPointer, UsedKeys, [Next]_vars
  PROVE  UsedKeys'
<1>1. Counter /\ UsedQueues /\ UsedHere
  BY UsedKeysParts
<1>2. Counter'
  BY <1>1, UnusedStep
<1>3. UsedHere'
  BY <1>1, UsedHereStep
<1>4. UsedQueues'
  BY <1>1, UsedFramesStep, UsedMessagesStep DEF UsedQueues, FramesIn4
<1> QED BY <1>2, <1>3, <1>4 DEF UsedKeys, Counter, UsedQueues, UsedHere

-----------------------------------------------------------------------------
(* The server forgets no key, and the KEYAs carry keys it keeps.           *)
LEMMA ServerKeysStep ==
  ASSUME TypeOK, InHand, [Next]_vars
  PROVE  \/ srvKeys' = srvKeys
         \/ /\ ServerReceive /\ upQ # <<>> /\ Head(upQ).type = "KEYS"
            /\ srvKeys' = [srvKeys EXCEPT ![Head(upQ).dev] =
                             Append(srvKeys[Head(upQ).dev], Head(upQ).key)]
<1> DEFINE Kept == \/ srvKeys' = srvKeys
                   \/ /\ ServerReceive /\ upQ # <<>> /\ Head(upQ).type = "KEYS"
                      /\ srvKeys' = [srvKeys EXCEPT ![Head(upQ).dev] =
                             Append(srvKeys[Head(upQ).dev], Head(upQ).key)]
<1> SUFFICES Kept
  OBVIOUS
<1>1. CASE ServerReceive
  BY <1>1 DEF ServerReceive
<1>2. CASE LoraWake \/ LoraRegister \/ LoraRegr \/ LoraHasKey \/ LoraGetKey \/ LoraRxl
           \/ LoraUpdate \/ LoraHasCheck \/ LoraSetCheck \/ LoraKeys \/ LoraNoKey \/ LoraMine \/
           LoraKeyr \/ LoraOldBegin \/ LoraOldHasKey \/ LoraOldRxl \/ LoraOldSeq \/
           LoraOldCheck \/ LoraSendAll
  BY <1>2 DEF LoraWake, LoraRegister, LoraRegr, LoraHasKey, LoraGetKey, LoraRxl,
     LoraUpdate, LoraHasCheck, LoraSetCheck, LoraKeys, LoraNoKey, LoraMine, LoraKeyr, LoraOldBegin,
     LoraOldHasKey, LoraOldRxl, LoraOldSeq, LoraOldCheck, LoraSendAll, loraVars,
     stiotVars, envVars, fateVars, hist
<1>3. CASE StiotTake \/ StiotIsMine \/ StiotKeyaSet \/ StiotKeyaSync \/ StiotKeyaNotify
           \/ StiotRegaDh \/ StiotRegaKey \/ StiotRegaSet \/ StiotTxlKey \/ StiotTxlSeq
           \/ StiotGetKey \/ StiotEncrypt \/ StiotSetSeq \/ StiotSend \/ TimerFlush \/
           Silence \/ Restart \/ UNCHANGED vars
  BY <1>3 DEF StiotTake, StiotIsMine, StiotKeyaSet, StiotKeyaSync, StiotKeyaNotify,
     StiotRegaDh, StiotRegaKey, StiotRegaSet, StiotTxlKey, StiotTxlSeq, StiotGetKey,
     StiotEncrypt, StiotSetSeq, StiotSend, TimerFlush, Silence, Restart, vars, loraVars,
     stiotVars, envVars, fateVars, hist
<1>4. ASSUME NEW d \in Device, DeviceRegister(d) \/ DeviceSend(d) \/ DeviceReceive(d) \/
            ServerTxl(d)
      PROVE  Kept
  BY <1>4 DEF DeviceRegister, DeviceSend, DeviceReceive, ServerTxl, loraVars, stiotVars,
     envVars, fateVars, hist
<1> QED BY <1>1, <1>2, <1>3, <1>4 DEF Next, LoraStep, LoraPass, StiotStep, Environment

HasNext(d, k) == \E i \in DOMAIN srvKeys'[d] : srvKeys'[d][i] = k

(* The server forgets no key.                                              *)
LEMMA ServerKeepsKeys ==
  ASSUME TypeOK, InHand, [Next]_vars, NEW d \in Device
  PROVE  /\ \A k : ServerHas(d, k) => HasNext(d, k)
         /\ ServerReceive /\ Head(upQ).type = "KEYS" /\ Head(upQ).dev = d /\ srvKeys' # srvKeys =>
              HasNext(d, Head(upQ).key)
<1>t. srvKeys \in [Device -> Seq(SessionKey)] /\ srvKeys[d] \in Seq(SessionKey)
      /\ upQ \in Seq(Message)
  BY DEF TypeOK
<1>1. CASE srvKeys' = srvKeys
  BY <1>1 DEF ServerHas, HasNext
<1>2. CASE /\ upQ # <<>>
           /\ srvKeys' = [srvKeys EXCEPT ![Head(upQ).dev] =
                             Append(srvKeys[Head(upQ).dev], Head(upQ).key)]
  <2> DEFINE m == Head(upQ)
  <2>1. m.dev \in Device /\ m.key \in SessionKey
    <3>1. m \in Message
      BY <1>t, <1>2, HeadTailProperties
    <3> QED BY <3>1 DEF Message
  <2> HIDE DEF m
  <2>2. CASE d # m.dev
    BY <1>t, <1>2, <2>1, <2>2 DEF ServerHas, HasNext, m
  <2>3. CASE d = m.dev
    <3>1. srvKeys'[d] = Append(srvKeys[d], m.key)
      BY <1>t, <1>2, <2>1, <2>3 DEF m
    <3>2. /\ DOMAIN srvKeys'[d] = 1..(Len(srvKeys[d]) + 1) /\ Len(srvKeys[d]) \in Nat
          /\ \A i \in 1..Len(srvKeys[d]) : srvKeys'[d][i] = srvKeys[d][i]
          /\ srvKeys'[d][Len(srvKeys[d]) + 1] = m.key
      BY <1>t, <2>1, <3>1, AppendProperties, LenProperties
    <3>3. HasNext(d, m.key)
      BY <3>2 DEF HasNext
    <3>4. \A k : ServerHas(d, k) => HasNext(d, k)
      <4>1. \A i \in DOMAIN srvKeys[d] : i \in DOMAIN srvKeys'[d] /\ srvKeys'[d][i] = srvKeys[d][i]
        <5>1. DOMAIN srvKeys[d] = 1..Len(srvKeys[d])
          BY <1>t, LenProperties
        <5> QED BY <3>2, <5>1
      <4> QED BY <4>1 DEF ServerHas, HasNext
    <3> QED BY <3>3, <3>4 DEF m
  <2> QED BY <2>2, <2>3
<1> QED BY <1>1, <1>2, ServerKeysStep

(* AnsweredKeys is kept by every step.                                     *)
LEMMA AnsweredKeysStep ==
  ASSUME TypeOK, InHand, AnsweredKeys, TypeOK', [Next]_vars
  PROVE  AnsweredKeys'
<1> DEFINE T  == {m \in Message : m.type = "KEYA" => ServerHas(m.dev, m.key)}
           T1 == {m \in Message : m.type = "KEYA" => HasNext(m.dev, m.key)}
<1>t. /\ upQ \in Seq(Message) /\ fromStiotData \in Seq(Message) /\ in \in Message
      /\ fromStiotData' \in Seq(Message) /\ map \in Table /\ in.dev \in Device
  BY DEF TypeOK, Message
<1>1. fromStiotData \in Seq(T) /\ in \in T
  <2>1. \A i \in DOMAIN fromStiotData : fromStiotData[i] \in T
    BY <1>t, ElementOfSeq, LenProperties DEF AnsweredKeys
  <2> QED BY <1>t, <2>1, LenProperties, IsASeq DEF AnsweredKeys
<1>2. NewMessages(Message, T)
  <2>1. loraPc \in {"regr", "keys", "keyr"} => cur.dev \in Device /\ cur.n \in Nat
    BY CurProperties DEF HasFrame, Frame
  <2>2. \A i \in 1..Len(outVector) : RXL(outVector[i]) \in Message
    <3>1. outVector \in Seq(DataFrame)
      BY DEF InHand
    <3> QED BY <3>1, ElementOfSeq, MsgType DEF RXL, DataFrame, Frame
  <2>3. loraPc = "keys" /\ hasSessionKey(map, cur.dev) =>
          Msg("KEYS", cur.dev, getSeq(map, cur.dev), map[cur.dev].sessionKey) \in Message
    BY <1>t, <2>1, TableAnswers, MsgType
  <2>4. NoMessage \in T /\ \A d \in Device : Msg("TXL", d, 0, NullKey) \in T
    BY NoMessageType, MsgType, KeyTypes DEF NoMessage, Msg
  <2>5. ASSUME NEW m \in Message
        PROVE  /\ Msg("REGA", m.dev, 0, NullKey) \in T
               /\ srvKeys[m.dev] # <<>> =>
                    Msg("KEYA", m.dev, LastSeq(m.dev), LastKey(m.dev)) \in T
    <3>1. m.dev \in Device
      BY DEF Message
    <3>2. srvKeys[m.dev] # <<>> => ServerHas(m.dev, LastKey(m.dev))
      BY <3>1, LastKeyType DEF ServerHas, LastKey
    <3> QED BY <3>1, <3>2, MsgType, KeyTypes, LastKeyType, LastSeqType
  <2> HIDE DEF T
  <2> QED BY <1>t, <2>1, <2>2, <2>3, <2>4, <2>5, MsgType, KeyTypes DEF NewMessages
<1>3. fromStiotData' \in Seq(T) /\ in' \in T
  <2> HIDE DEF T
  <2>1. T \in SUBSET Message
    BY DEF T
  <2> QED BY <1>t, <1>1, <1>2, <2>1, MessagesMove
<1>4. T \subseteq T1
  <2>1. \A m \in Message : m.dev \in Device
    BY DEF Message
  <2> QED BY <2>1, ServerKeepsKeys
<1>5. \A i \in DOMAIN fromStiotData' : fromStiotData'[i] \in T1
  <2> HIDE DEF T, T1
  <2> QED BY <1>3, <1>4, ElementOfSeq, LenProperties
<1> QED BY <1>3, <1>4, <1>5 DEF AnsweredKeys, HasNext, ServerHas

-----------------------------------------------------------------------------
(* A key the gateway has announced stays announced while the table has it. *)
AnnouncedNext(d, k) ==
  \/ HasNext(d, k)
  \/ \E i \in DOMAIN upQ' : upQ'[i].type = "KEYS" /\ upQ'[i].dev = d /\ upQ'[i].key = k
  \/ loraPc' = "keys" /\ cur'.dev = d

(* A key that is announced stays so: from the step to send it to the       *)
(* queue, from the queue to the server.                                    *)
LEMMA AnnouncedPersists ==
  ASSUME TypeOK, InHand, [Next]_vars, ~Restart, NEW d \in Device,
         isInTable(map, d), Announced(d, map[d].sessionKey)
  PROVE  AnnouncedNext(d, map[d].sessionKey)
<1> DEFINE k == map[d].sessionKey
           Told(u) == \E i \in DOMAIN u : u[i].type = "KEYS" /\ u[i].dev = d /\ u[i].key = k
           Telling == loraPc = "keys" /\ cur.dev = d
<1>t. upQ \in Seq(Message) /\ map \in Table
  BY DEF TypeOK
<1>0. \A m : Len(upQ) \in Nat /\ (m \in Message => /\ DOMAIN Append(upQ, m) = 1..(Len(upQ) + 1)
                                              /\ \A i \in 1..Len(upQ) : Append(upQ, m)[i] = upQ[i]
                                              /\ Append(upQ, m)[Len(upQ) + 1] = m)
  BY <1>t, AppendProperties, LenProperties
<1>a. ASSUME NEW m \in Message, Told(upQ) PROVE Told(Append(upQ, m))
  BY <1>t, <1>0, <1>a, LenProperties
<1>1. CASE ServerHas(d, k)
  BY <1>1, ServerKeepsKeys DEF AnnouncedNext
<1>2. CASE Told(upQ)
  <2>1. CASE upQ' = upQ
    BY <1>2, <2>1 DEF AnnouncedNext
  <2>2. ASSUME NEW m \in Message, upQ' = Append(upQ, m) PROVE AnnouncedNext(d, k)
    <3>1. Told(upQ')
      BY <1>2, <1>a, <2>2
    <3> QED BY <3>1 DEF AnnouncedNext
  <2>3. CASE LoraSendAll
    <3> DEFINE r == [i \in 1..Len(outVector) |-> RXL(outVector[i])]
    <3>1. r \in Seq(Message)
      <4>1. outVector \in Seq(DataFrame)
        BY DEF InHand
      <4>2. \A i \in 1..Len(outVector) : RXL(outVector[i]) \in Message
        BY <4>1, ElementOfSeq, MsgType DEF RXL, DataFrame, Frame
      <4> QED BY <4>1, <4>2, ForwardedType
    <3>2. upQ' = upQ \o r
      BY <2>3 DEF LoraSendAll
    <3> HIDE DEF r
    <3>3. /\ DOMAIN upQ = 1..Len(upQ) /\ Len(upQ) \in Nat /\ Len(r) \in Nat
          /\ DOMAIN upQ' = 1..(Len(upQ) + Len(r))
          /\ \A i \in 1..Len(upQ) : upQ'[i] = upQ[i]
      BY <1>t, <3>1, <3>2, ConcatProperties, LenProperties
    <3>4. Told(upQ')
      BY <1>2, <3>3
    <3> QED BY <3>4 DEF AnnouncedNext
  <2>4. CASE ServerReceive
    <3>1. /\ upQ # <<>> /\ upQ' = Tail(upQ)
          /\ Head(upQ).type = "KEYS" =>
               srvKeys' = [srvKeys EXCEPT ![Head(upQ).dev] = Append(srvKeys[Head(upQ).dev], Head(upQ).key)]
      BY <2>4 DEF ServerReceive
    <3>2. /\ Len(upQ) \in Nat /\ Len(Tail(upQ)) = Len(upQ) - 1 /\ DOMAIN upQ = 1..Len(upQ)
          /\ Head(upQ) = upQ[1] /\ Head(upQ) \in Message
          /\ \A i \in 1..(Len(upQ) - 1) : Tail(upQ)[i] = upQ[i + 1]
          /\ DOMAIN Tail(upQ) = 1..Len(Tail(upQ))
      BY <1>t, <3>1, HeadTailProperties, LenProperties
    <3>3. PICK i \in DOMAIN upQ : upQ[i].type = "KEYS" /\ upQ[i].dev = d /\ upQ[i].key = k
      BY <1>2
    <3>4. CASE i = 1
      <4>1. srvKeys \in [Device -> Seq(SessionKey)] /\ srvKeys[d] \in Seq(SessionKey) /\ k \in SessionKey
        BY <1>t, TableAnswers DEF TypeOK
      <4>2. srvKeys'[d] = Append(srvKeys[d], k)
        BY <3>1, <3>2, <3>3, <3>4, <4>1
      <4>3. DOMAIN srvKeys'[d] = 1..(Len(srvKeys[d]) + 1) /\ srvKeys'[d][Len(srvKeys[d]) + 1] = k
            /\ Len(srvKeys[d]) \in Nat
        BY <4>1, <4>2, AppendProperties, LenProperties
      <4> QED BY <4>3 DEF AnnouncedNext, HasNext
    <3>5. CASE i # 1
      <4>1. i - 1 \in DOMAIN upQ' /\ upQ'[i - 1] = upQ[i]
        BY <3>1, <3>2, <3>5
      <4> QED BY <3>3, <4>1 DEF AnnouncedNext
    <3> QED BY <3>4, <3>5
  <2>5. CASE LoraRegr
    <3>1. Msg("REGR", cur.dev, cur.n, NullKey) \in Message
      BY <2>5, CurProperties, MsgType, KeyTypes DEF LoraRegr, HasFrame, Frame
    <3> QED BY <2>2, <2>5, <3>1 DEF LoraRegr
  <2>6. CASE LoraKeyr
    <3>1. Msg("KEYR", cur.dev, 0, NullKey) \in Message
      BY <2>6, CurProperties, MsgType, KeyTypes DEF LoraKeyr, HasFrame, Frame
    <3> QED BY <2>2, <2>6, <3>1 DEF LoraKeyr
  <2>7. CASE StiotTxlKey
    <3>1. Msg("KEYR", in.dev, 0, NullKey) \in Message
      BY MsgType, KeyTypes DEF TypeOK, Message
    <3> QED BY <2>1, <2>2, <2>7, <3>1 DEF StiotTxlKey
  <2>8. CASE LoraKeys
    <3>1. hasSessionKey(map, cur.dev) =>
            Msg("KEYS", cur.dev, getSeq(map, cur.dev), map[cur.dev].sessionKey) \in Message
      <4>1. cur.dev \in Device
        BY <2>8, CurProperties DEF LoraKeys, HasFrame, Frame
      <4> QED BY <1>t, <4>1, TableAnswers, MsgType
    <3> QED BY <2>1, <2>2, <2>8, <3>1 DEF LoraKeys, getSessionKeyIsNull
  <2>9. upQ' = upQ \/ LoraSendAll \/ ServerReceive \/ LoraRegr \/ LoraKeyr \/ StiotTxlKey \/ LoraKeys
    <3> DEFINE Q == \/ upQ' = upQ \/ LoraSendAll \/ ServerReceive \/ LoraRegr \/ LoraKeyr
                    \/ StiotTxlKey \/ LoraKeys
    <3> SUFFICES Q
      OBVIOUS
    <3>1. CASE LoraWake \/ LoraRegister \/ LoraHasKey \/ LoraGetKey \/ LoraRxl \/ LoraUpdate \/ LoraHasCheck
               \/ LoraSetCheck \/ LoraNoKey \/ LoraMine \/ LoraOldBegin \/ LoraOldHasKey \/
               LoraOldRxl \/ LoraOldSeq \/ LoraOldCheck
      BY <3>1 DEF LoraWake, LoraRegister, LoraHasKey, LoraGetKey, LoraRxl, LoraUpdate, LoraHasCheck,
         LoraSetCheck, LoraNoKey, LoraMine, LoraOldBegin, LoraOldHasKey, LoraOldRxl,
         LoraOldSeq, LoraOldCheck, loraVars, stiotVars, envVars, fateVars, hist
    <3>2. CASE StiotTake \/ StiotIsMine \/ StiotKeyaSet \/ StiotKeyaSync \/ StiotKeyaNotify
               \/ StiotRegaDh \/ StiotRegaKey \/ StiotRegaSet \/ StiotTxlSeq \/ StiotGetKey
               \/ StiotEncrypt \/ StiotSetSeq \/ StiotSend \/ TimerFlush \/ Silence \/
               UNCHANGED vars
      BY <3>2 DEF StiotTake, StiotIsMine, StiotKeyaSet, StiotKeyaSync, StiotKeyaNotify,
         StiotRegaDh, StiotRegaKey, StiotRegaSet, StiotTxlSeq, StiotGetKey, StiotEncrypt,
         StiotSetSeq, StiotSend, TimerFlush, Silence, vars, loraVars, stiotVars, envVars,
         fateVars, hist
    <3>3. ASSUME NEW c \in Device, DeviceRegister(c) \/ DeviceSend(c) \/ DeviceReceive(c) \/
                ServerTxl(c)
          PROVE  Q
      BY <3>3 DEF DeviceRegister, DeviceSend, DeviceReceive, ServerTxl, loraVars, stiotVars,
         envVars, fateVars, hist
    <3> QED BY <3>1, <3>2, <3>3 DEF Next, LoraStep, LoraPass, StiotStep, Environment
  <2> QED BY <2>1, <2>3, <2>4, <2>5, <2>6, <2>7, <2>8, <2>9
<1>3. CASE Telling
  <2>1. CASE loraPc' = loraPc /\ inVector' = inVector
    BY <1>3, <2>1 DEF AnnouncedNext, cur
  <2>2. CASE LoraKeys
    <3>1. CASE ~hasSessionKey(map, cur.dev)
      BY <2>1, <2>2, <3>1 DEF LoraKeys, getSessionKeyIsNull
    <3>2. CASE hasSessionKey(map, cur.dev)
      <4> DEFINE m == Msg("KEYS", cur.dev, getSeq(map, cur.dev), map[cur.dev].sessionKey)
      <4>1. m \in Message /\ m.type = "KEYS" /\ m.dev = d /\ m.key = k
        BY <1>t, <1>3, TableAnswers, MsgType
      <4>2. upQ' = Append(upQ, m)
        BY <2>2, <3>2 DEF LoraKeys, getSessionKeyIsNull
      <4> HIDE DEF m
      <4>3. Len(upQ) + 1 \in DOMAIN upQ' /\ upQ'[Len(upQ) + 1] = m
        BY <1>0, <4>1, <4>2
      <4> QED BY <4>1, <4>3 DEF AnnouncedNext
    <3> QED BY <3>1, <3>2
  <2>3. LoraKeys \/ (loraPc' = loraPc /\ inVector' = inVector)
    <3> DEFINE Q == LoraKeys \/ (loraPc' = loraPc /\ inVector' = inVector)
    <3> SUFFICES Q
      OBVIOUS
    <3>1. CASE LoraKeys
      BY <3>1
    <3>2. CASE LoraWake \/ LoraRegister \/ LoraRegr \/ LoraHasKey \/ LoraGetKey \/ LoraRxl
               \/ LoraUpdate \/ LoraHasCheck \/ LoraSetCheck \/ LoraNoKey \/ LoraMine \/ LoraKeyr \/
               LoraOldBegin \/ LoraOldHasKey \/ LoraOldRxl \/ LoraOldSeq \/ LoraOldCheck \/
               LoraSendAll
      BY <3>2, <1>3 DEF LoraWake, LoraRegister, LoraRegr, LoraHasKey, LoraGetKey, LoraRxl,
         LoraUpdate, LoraHasCheck, LoraSetCheck, LoraNoKey, LoraMine, LoraKeyr, LoraOldBegin,
         LoraOldHasKey, LoraOldRxl, LoraOldSeq, LoraOldCheck, LoraSendAll, loraVars,
         stiotVars, envVars, fateVars, hist
    <3>3. CASE StiotTake \/ StiotIsMine \/ StiotKeyaSet \/ StiotKeyaSync \/ StiotKeyaNotify
               \/ StiotRegaDh \/ StiotRegaKey \/ StiotRegaSet \/ StiotTxlKey \/ StiotTxlSeq
               \/ StiotGetKey \/ StiotEncrypt \/ StiotSetSeq \/ StiotSend \/ ServerReceive
               \/ TimerFlush \/ Silence \/ UNCHANGED vars
      BY <3>3, <1>3 DEF StiotTake, StiotIsMine, StiotKeyaSet, StiotKeyaSync,
         StiotKeyaNotify, StiotRegaDh, StiotRegaKey, StiotRegaSet, StiotTxlKey, StiotTxlSeq,
         StiotGetKey, StiotEncrypt, StiotSetSeq, StiotSend, ServerReceive, TimerFlush,
         Silence, vars, loraVars, stiotVars, envVars, fateVars, hist
    <3>4. ASSUME NEW c \in Device, DeviceRegister(c) \/ DeviceSend(c) \/ DeviceReceive(c) \/
                ServerTxl(c)
          PROVE  Q
      BY <3>4, <1>3 DEF DeviceRegister, DeviceSend, DeviceReceive, ServerTxl, loraVars,
         stiotVars, envVars, fateVars, hist
    <3> QED BY <3>1, <3>2, <3>3, <3>4 DEF Next, LoraStep, LoraPass, StiotStep, Environment
  <2> QED BY <2>1, <2>2, <2>3
<1> QED BY <1>1, <1>2, <1>3 DEF Announced, ServerHas

-----------------------------------------------------------------------------
(* How the key of a device changes: it is kept, it goes away, or fromStiot *)
(* sets another.                                                           *)
KeyKept(e) ==
  /\ isInTable(map', e) = isInTable(map, e)
  /\ isInTable(map, e) => /\ map'[e].sessionKey = map[e].sessionKey
                          /\ map'[e].sessionKeyExists = map[e].sessionKeyExists
                          /\ map'[e].sessionKeyCheck =>
                               \/ map[e].sessionKeyCheck
                               \/ LoraSetCheck /\ e = cur.dev
                               \/ LoraOldCheck /\ e = old.dev /\ hasSessionKey(map, e)
KeyGone(e) == ~hasSessionKey(map', e) /\ ~hasSessionKeyCheck(map', e)
KeySet(e) ==
  /\ e = in.dev /\ isInTable(map, e) /\ isInTable(map', e) /\ ~hasSessionKeyCheck(map', e)
  /\ \/ StiotKeyaSet /\ map'[e].sessionKey = in.key
     \/ StiotRegaSet /\ map'[e].sessionKey = sessionKey

(* The steps that replace a device's key leave it unchecked.               *)
LEMMA KeyChange ==
  ASSUME TypeOK, InHand, [Next]_vars, NEW e \in Device
  PROVE  KeyKept(e) \/ KeyGone(e) \/ KeySet(e)
<1>1. CASE EntryKept(e)
  BY <1>1 DEF EntryKept, KeyKept, isInTable
<1>2. ASSUME NEW n, EntryNumbered(e, n) PROVE KeyKept(e)
  BY <1>2 DEF EntryNumbered, KeyKept, isInTable
<1>3. CASE EntryAged(e)
  BY <1>3 DEF EntryAged, KeyKept, isInTable
<1>4. CASE EntryChecked(e) /\ ((LoraSetCheck /\ e = cur.dev) \/ (LoraOldCheck /\ e = old.dev))
  <2>1. /\ map[e].sessionKeyExists /\ isInTable(map, e) /\ isInTable(map', e)
        /\ map'[e].sessionKeyExists = TRUE
    BY <1>4 DEF EntryChecked, hasSessionKey, isInTable
  <2>2. map[e].sessionKeyExists \in BOOLEAN
    BY <2>1, EntryType DEF TypeOK, EndDevice
  <2>3. map'[e].sessionKey = map[e].sessionKey /\ hasSessionKey(map, e)
    BY <1>4 DEF EntryChecked
  <2> QED BY <1>4, <2>1, <2>2, <2>3 DEF KeyKept
<1>5. CASE EntryAdded(e)
  BY <1>5 DEF EntryAdded, KeyGone, hasSessionKey, hasSessionKeyCheck
<1>6. CASE EntryErased(e)
  BY <1>6 DEF EntryErased, KeyGone, hasSessionKey, hasSessionKeyCheck, isInTable
<1>7. CASE EntryKeyed(e, in.key) /\ StiotKeyaSet /\ e = in.dev
  BY <1>7 DEF EntryKeyed, KeySet, isInTable, hasSessionKeyCheck
<1>8. CASE EntryKeyed(e, sessionKey) /\ StiotRegaSet /\ e = in.dev
  BY <1>8 DEF EntryKeyed, KeySet, isInTable, hasSessionKeyCheck
<1>9. CASE ~MapStep
  BY <1>1, <1>9, OtherSteps DEF EntryKept
<1>10. CASE MapStep
  <2>1. \/ EntryKept(e) \/ (\E n : EntryNumbered(e, n)) \/ EntryAged(e)
        \/ EntryAdded(e) \/ EntryErased(e)
        \/ EntryKeyed(e, in.key) /\ StiotKeyaSet /\ e = in.dev
        \/ EntryKeyed(e, sessionKey) /\ StiotRegaSet /\ e = in.dev
        \/ EntryChecked(e) /\ ((LoraSetCheck /\ e = cur.dev) \/ (LoraOldCheck /\ e = old.dev))
    <3>1. CASE LoraSetCheck \/ LoraOldCheck
      BY <3>1, EntrySteps
    <3>2. CASE StiotKeyaSet \/ StiotRegaSet
      BY <3>2, EntrySteps
    <3>3. CASE LoraUpdate \/ LoraOldSeq \/ StiotSetSeq
      BY <3>3, EntrySteps
    <3>4. CASE LoraRegister \/ LoraNoKey \/ Silence \/ TimerFlush \/ Restart
      BY <3>4, EntrySteps
    <3> QED BY <1>10, <3>1, <3>2, <3>3, <3>4 DEF MapStep
  <2> QED BY <1>1, <1>2, <1>3, <1>4, <1>5, <1>6, <1>7, <1>8, <2>1
<1> QED BY <1>9, <1>10

(* A device stays noted as raced while its entry has a check to lose, and  *)
(* no step but fromStiot's notes one.                                      *)
LEMMA RacedStep ==
  ASSUME TypeOK, InHand, [Next]_vars, NEW e \in Device, e \in raced, e \notin raced'
  PROVE  ~hasSessionKeyCheck(map', e) /\ (~hasSessionKey(map', e) \/ StiotKeyaSet \/ StiotRegaSet)
<1> DEFINE Goal == /\ ~hasSessionKeyCheck(map', e)
                   /\ ~hasSessionKey(map', e) \/ StiotKeyaSet \/ StiotRegaSet
<1> SUFFICES Goal
  OBVIOUS
<1>g. ASSUME EntryAdded(e) \/ EntryErased(e) \/ (EntryKept(e) /\ ~isInTable(map, e)) PROVE Goal
  BY <1>g DEF EntryAdded, EntryErased, EntryKept, hasSessionKey, hasSessionKeyCheck, isInTable
<1>s. ASSUME NEW k, EntryKeyed(e, k), StiotKeyaSet \/ StiotRegaSet PROVE Goal
  BY <1>s DEF EntryKeyed, hasSessionKeyCheck, isInTable
<1>1. CASE LoraRegister
  BY <1>1, <1>g, EntrySteps DEF LoraRegister, LoraAddDevice, ForgetKeys
<1>2. CASE LoraNoKey
  BY <1>2, <1>g, EntrySteps DEF LoraNoKey, LoraAddDevice, ForgetKeys, hist
<1>3. CASE StiotKeyaSet
  <2>1. e = in.dev
    BY <1>3 DEF StiotKeyaSet, StiotSetSessionkey, ForgetKeys
  <2> QED BY <1>3, <1>g, <1>s, <2>1, EntrySteps
<1>4. CASE StiotRegaSet
  <2>1. e = in.dev
    BY <1>4 DEF StiotRegaSet, StiotSetSessionkey, ForgetKeys
  <2> QED BY <1>4, <1>g, <1>s, <2>1, EntrySteps
<1>5. CASE TimerFlush
  <2>1. e \in expiredDevices(map)
    BY <1>5 DEF TimerFlush, ForgetKeys
  <2> QED BY <1>5, <1>g, <2>1, EntrySteps DEF expiredDevices
<1>6. CASE Restart
  BY <1>6, <1>g, EntrySteps
<1>7. CASE LoraWake \/ LoraRegr \/ LoraHasKey \/ LoraGetKey \/ LoraRxl \/ LoraUpdate \/ LoraHasCheck \/
           LoraSetCheck \/ LoraKeys \/ LoraMine \/ LoraKeyr \/ LoraOldBegin \/
           LoraOldHasKey \/ LoraOldRxl \/ LoraOldSeq \/ LoraOldCheck \/ LoraSendAll
  BY <1>7 DEF LoraWake, LoraRegr, LoraHasKey, LoraGetKey, LoraRxl, LoraUpdate, LoraHasCheck,
     LoraSetCheck, LoraKeys, LoraMine, LoraKeyr, LoraOldBegin, LoraOldHasKey,
     LoraOldRxl, LoraOldSeq, LoraOldCheck, LoraSendAll, loraVars, stiotVars, envVars,
     fateVars, hist
<1>8. CASE StiotTake \/ StiotIsMine \/ StiotKeyaSync \/ StiotKeyaNotify \/ StiotRegaDh
           \/ StiotRegaKey \/ StiotTxlKey \/ StiotTxlSeq \/ StiotGetKey \/ StiotEncrypt
           \/ StiotSetSeq \/ StiotSend \/ Silence \/ ServerReceive \/ UNCHANGED vars
  BY <1>8 DEF StiotTake, StiotIsMine, StiotKeyaSync, StiotKeyaNotify, StiotRegaDh,
     StiotRegaKey, StiotTxlKey, StiotTxlSeq, StiotGetKey, StiotEncrypt, StiotSetSeq,
     StiotSend, Silence, ServerReceive, vars, loraVars, stiotVars, envVars, fateVars,
     hist
<1>9. ASSUME NEW d \in Device, DeviceRegister(d) \/ DeviceSend(d) \/ DeviceReceive(d) \/
            ServerTxl(d)
      PROVE  Goal
  BY <1>9 DEF DeviceRegister, DeviceSend, DeviceReceive, ServerTxl, loraVars, stiotVars,
     envVars, fateVars, hist
<1> QED BY <1>1, <1>2, <1>3, <1>4, <1>5, <1>6, <1>7, <1>8, <1>9 DEF Next, LoraStep,
   LoraPass, StiotStep, Environment

(* A key that comes to the table after a frame under it was put aside is   *)
(* one the server has given.                                               *)
KeyIsInNext(f) == hasSessionKey(map', f.dev) /\ map'[f.dev].sessionKey = f.key

(* A key fromStiot sets is the server's, or one it has just drawn.         *)
LEMMA KeyComesFromServer ==
  ASSUME TypeOK, InHand, StiotPointer, UsedKeys, AnsweredKeys, [Next]_vars, ~Restart,
         NEW f \in UsedFrame, KeyIsIn(f) => Announced(f.dev, f.key), KeyIsInNext(f)
  PROVE  AnnouncedNext(f.dev, f.key)
<1>t. f.dev \in Device /\ f.key.priv < Unused /\ f.key \in SessionKey
  BY DEF UsedFrame, Frame
<1>1. CASE KeyKept(f.dev)
  <2>1. KeyIsIn(f)
    BY <1>1 DEF KeyKept, KeyIsIn, KeyIsInNext, hasSessionKey
  <2> QED BY <1>t, <2>1, AnnouncedPersists DEF KeyIsIn, hasSessionKey
<1>2. CASE KeyGone(f.dev)
  BY <1>2 DEF KeyGone, KeyIsInNext
<1>3. CASE KeySet(f.dev) /\ StiotKeyaSet
  <2>1. ~StiotRegaSet /\ in.type = "KEYA"
    BY <1>3 DEF StiotKeyaSet, StiotRegaSet, StiotPointer
  <2>2. ServerHas(f.dev, f.key)
    BY <1>3, <2>1 DEF KeySet, KeyIsInNext, AnsweredKeys
  <2> QED BY <1>t, <2>2, ServerKeepsKeys DEF AnnouncedNext
<1>4. CASE KeySet(f.dev) /\ StiotRegaSet
  <2>1. ~StiotKeyaSet /\ f.key = sessionKey
    BY <1>4 DEF StiotKeyaSet, StiotRegaSet, KeySet, KeyIsInNext
  <2>2. stiotPc = "regaSet"
    BY <1>4 DEF StiotRegaSet
  <2>3. sessionKey.priv = Unused /\ Unused \in Nat
    BY <2>2 DEF UsedKeys, Unused, TypeOK
  <2> QED BY <1>t, <2>1, <2>3 DEF SessionKey
<1> QED BY <1>t, <1>1, <1>2, <1>3, <1>4, KeyChange DEF KeySet

(* VerifiedKey is kept by every step.                                      *)
LEMMA VerifiedKeyStep ==
  ASSUME TypeOK, InHand, LoraPointer, VerifiedKey, [Next]_vars
  PROVE  VerifiedKey'
<1>0. CASE Restart
  BY <1>0 DEF Restart, VerifiedKey
<1>1. CASE LoraOldRxl
  <2>1. CASE loraPc' = "oldSeq"
    <3>1. map' = map /\ old' = old /\ historyIterator' = historyIterator
          /\ \E micOk \in MicOutcomes(old) : micOk
      BY <1>1, <2>1 DEF LoraOldRxl, old, Goto
    <3>2. old.key = map[old.dev].sessionKey
      BY <3>1 DEF MicOutcomes
    <3> QED BY <3>1, <3>2 DEF VerifiedKey, KeyIsIn
  <2>2. CASE loraPc' # "oldSeq"
    BY <1>1, <2>2 DEF LoraOldRxl, VerifiedKey, Goto
  <2> QED BY <2>1, <2>2
<1>2. ASSUME ~Restart, loraPc \in {"oldSeq", "oldCheck"}, old' = old PROVE VerifiedKey'
  <2>1. SUFFICES ASSUME old.dev \notin raced', hasSessionKey(map', old.dev)
                 PROVE  map'[old.dev].sessionKey = old.key
    BY <1>2, <2>1 DEF VerifiedKey, KeyIsIn
  <2>2. old.dev \in Device
    BY <1>2, OldProperties DEF OldPc, Frame
  <2>3. CASE old.dev \in raced
    <3>1. StiotKeyaSet \/ StiotRegaSet
      BY <2>1, <2>2, <2>3, RacedStep
    <3>2. raced' = (raced \ {in.dev}) \cup (IF old.dev = in.dev THEN {in.dev} ELSE {})
      BY <1>2, <3>1 DEF StiotKeyaSet, StiotRegaSet, StiotSetSessionkey, ForgetKeys
    <3> QED BY <2>1, <2>3, <3>2
  <2>4. CASE old.dev \notin raced
    <3>1. CASE KeyKept(old.dev)
      BY <1>2, <2>1, <2>4, <3>1 DEF KeyKept, VerifiedKey, KeyIsIn, hasSessionKey
    <3>2. CASE KeyGone(old.dev)
      BY <2>1, <3>2 DEF KeyGone
    <3>3. CASE KeySet(old.dev)
      <4>1. old.dev \in raced'
        BY <1>2, <3>3 DEF KeySet, StiotKeyaSet, StiotRegaSet, StiotSetSessionkey, ForgetKeys
      <4> QED BY <2>1, <4>1
    <3> QED BY <2>2, <3>1, <3>2, <3>3, KeyChange
  <2> QED BY <2>3, <2>4
<1>3. ASSUME loraPc' \notin {"oldSeq", "oldCheck"} PROVE VerifiedKey'
  BY <1>3 DEF VerifiedKey
<1> DEFINE Away == \/ Restart \/ LoraOldRxl \/ loraPc' \notin {"oldSeq", "oldCheck"}
                   \/ (loraPc \in {"oldSeq", "oldCheck"} /\ old' = old)
<1>4. Away
  <2> SUFFICES ASSUME ~Restart, ~LoraOldRxl PROVE Away
    OBVIOUS
  <2>1. CASE LoraWake \/ LoraRegister \/ LoraRegr \/ LoraHasKey \/ LoraGetKey \/ LoraRxl
             \/ LoraUpdate \/ LoraHasCheck \/ LoraSetCheck \/ LoraKeys \/ LoraNoKey \/ LoraMine \/
             LoraKeyr \/ LoraOldBegin \/ LoraOldHasKey \/ LoraOldSeq \/ LoraOldCheck \/
             LoraSendAll
    BY <2>1 DEF LoraWake, LoraRegister, LoraRegr, LoraHasKey, LoraGetKey, LoraRxl,
       LoraUpdate, LoraHasCheck, LoraSetCheck, LoraKeys, LoraNoKey, LoraMine, LoraKeyr, LoraOldBegin,
       LoraOldHasKey, LoraOldSeq, LoraOldCheck, LoraSendAll, Goto, old, loraVars, stiotVars, envVars,
       fateVars, hist
  <2>2. CASE StiotTake \/ StiotIsMine \/ StiotKeyaSet \/ StiotKeyaSync \/ StiotKeyaNotify
             \/ StiotRegaDh \/ StiotRegaKey \/ StiotRegaSet \/ StiotTxlKey \/ StiotTxlSeq
             \/ StiotGetKey \/ StiotEncrypt \/ StiotSetSeq \/ StiotSend \/ TimerFlush \/
             Silence \/ ServerReceive \/ UNCHANGED vars
    BY <2>2 DEF StiotTake, StiotIsMine, StiotKeyaSet, StiotKeyaSync, StiotKeyaNotify,
       StiotRegaDh, StiotRegaKey, StiotRegaSet, StiotTxlKey, StiotTxlSeq, StiotGetKey,
       StiotEncrypt, StiotSetSeq, StiotSend, TimerFlush, Silence, ServerReceive, vars,
       Goto, old, loraVars, stiotVars, envVars, fateVars, hist
  <2>3. ASSUME NEW d \in Device, DeviceRegister(d) \/ DeviceSend(d) \/ DeviceReceive(d) \/
              ServerTxl(d)
        PROVE  Away
    BY <2>3 DEF DeviceRegister, DeviceSend, DeviceReceive, ServerTxl, Goto, old, loraVars,
       stiotVars,
       envVars, fateVars, hist
  <2> QED BY <2>1, <2>2, <2>3 DEF Next, LoraStep, LoraPass, StiotStep, Environment
<1> QED BY <1>0, <1>1, <1>2, <1>3, <1>4

(* CachedKeys is kept by every step.                                       *)
LEMMA CachedKeysStep ==
  ASSUME TypeOK, InHand, Entries, StiotPointer, UsedKeys, AnsweredKeys, CachedKeys, [Next]_vars
  PROVE  CachedKeys'
<1>0. CASE Restart
  BY <1>0 DEF Restart, CachedKeys
<1>d. SUFFICES ASSUME ~Restart PROVE CachedKeys'
  BY <1>0
<1> DEFINE Waits(f) == f \in UsedFrame /\ (KeyIsIn(f) => Announced(f.dev, f.key))
           Fine(f) == KeyIsInNext(f) => AnnouncedNext(f.dev, f.key)
<1>1. ASSUME NEW f, Waits(f) PROVE Fine(f)
  BY <1>d, <1>1, KeyComesFromServer
<1>2. ASSUME NEW i \in DOMAIN oldData PROVE Waits(oldData[i])
  <2>1. oldData[i] \in UsedFrame
    BY ElementOfSeq, LenProperties DEF UsedKeys
  <2> QED BY <2>1 DEF CachedKeys
<1>3. ASSUME loraPc \in {"noKey", "mine", "keyr"} PROVE Waits(cur)
  <2>1. inVector # <<>> /\ inVector \in Seq(UsedFrame)
    BY <1>3 DEF InHand, HasFrame, UsedKeys
  <2>2. cur \in UsedFrame
    BY <2>1, HeadTailProperties DEF cur
  <2> QED BY <1>3, <2>2 DEF CachedKeys
<1> HIDE DEF Waits
(* The cache.                                                              *)
<1>4. \A i \in DOMAIN oldData' : Fine(oldData'[i])
  <2>1. CASE oldData' = oldData
    BY <1>1, <1>2, <2>1
  <2>2. CASE loraPc = "keyr" /\ oldData' = Append(oldData, cur)
    <3>1. cur \in Frame
      BY <2>2, CurProperties DEF HasFrame
    <3>2. /\ DOMAIN oldData' = 1..(Len(oldData) + 1) /\ Len(oldData) \in Nat
          /\ DOMAIN oldData = 1..Len(oldData)
          /\ \A i \in 1..Len(oldData) : oldData'[i] = oldData[i]
          /\ oldData'[Len(oldData) + 1] = cur
      BY <2>2, <3>1, AppendProperties, LenProperties DEF TypeOK
    <3>3. \A i \in DOMAIN oldData' : Waits(oldData'[i])
      BY <1>2, <1>3, <2>2, <3>2
    <3> QED BY <1>1, <3>3
  <2>3. CASE loraPc \in OldPc /\ oldData' = EraseAt(oldData, historyIterator)
    <3>1. historyIterator \in 1..Len(oldData) /\ Len(oldData) \in Nat /\ oldData \in Seq(Frame)
      BY <2>3, OldProperties DEF TypeOK
    <3>2. /\ DOMAIN oldData' = 1..(Len(oldData) - 1) /\ DOMAIN oldData = 1..Len(oldData)
          /\ \A j \in 1..(Len(oldData) - 1) :
                oldData'[j] = IF j < historyIterator THEN oldData[j] ELSE oldData[j + 1]
      BY <2>3, <3>1, EraseAtProperties, LenProperties
    <3>3. \A i \in DOMAIN oldData' : Waits(oldData'[i])
      BY <1>2, <3>1, <3>2
    <3> QED BY <1>1, <3>3
  <2> DEFINE Moves == \/ oldData' = oldData \/ (loraPc = "keyr" /\ oldData' = Append(oldData, cur))
                      \/ (loraPc \in OldPc /\ oldData' = EraseAt(oldData, historyIterator))
  <2>4. Moves
    <3>1. CASE LoraWake \/ LoraRegister \/ LoraRegr \/ LoraHasKey \/ LoraGetKey \/ LoraRxl
               \/ LoraUpdate \/ LoraHasCheck \/ LoraSetCheck \/ LoraKeys \/ LoraNoKey \/ LoraMine \/
               LoraKeyr \/ LoraOldBegin \/ LoraOldHasKey \/ LoraOldRxl \/ LoraOldSeq \/
               LoraOldCheck \/ LoraSendAll
      BY <3>1 DEF OldPc, LoraWake, LoraRegister, LoraRegr, LoraHasKey, LoraGetKey, LoraRxl,
         LoraUpdate, LoraHasCheck, LoraSetCheck, LoraKeys, LoraNoKey, LoraMine, LoraKeyr, LoraOldBegin,
         LoraOldHasKey, LoraOldRxl, LoraOldSeq, LoraOldCheck, LoraSendAll, loraVars,
         stiotVars, envVars, fateVars, hist
    <3>2. CASE StiotTake \/ StiotIsMine \/ StiotKeyaSet \/ StiotKeyaSync \/ StiotKeyaNotify
               \/ StiotRegaDh \/ StiotRegaKey \/ StiotRegaSet \/ StiotTxlKey \/ StiotTxlSeq
               \/ StiotGetKey \/ StiotEncrypt \/ StiotSetSeq \/ StiotSend \/ TimerFlush \/
               Silence \/ ServerReceive \/ UNCHANGED vars
      BY <3>2 DEF StiotTake, StiotIsMine, StiotKeyaSet, StiotKeyaSync, StiotKeyaNotify,
         StiotRegaDh, StiotRegaKey, StiotRegaSet, StiotTxlKey, StiotTxlSeq, StiotGetKey,
         StiotEncrypt, StiotSetSeq, StiotSend, TimerFlush, Silence, ServerReceive, vars,
         loraVars, stiotVars, envVars, fateVars, hist
    <3>3. ASSUME NEW c \in Device, DeviceRegister(c) \/ DeviceSend(c) \/ DeviceReceive(c) \/
                ServerTxl(c)
          PROVE  Moves
      BY <3>3 DEF DeviceRegister, DeviceSend, DeviceReceive, ServerTxl, loraVars, stiotVars,
         envVars, fateVars, hist
    <3> QED BY <1>d, <3>1, <3>2, <3>3 DEF Next, LoraStep, LoraPass, StiotStep, Environment
  <2> QED BY <2>1, <2>2, <2>3, <2>4
(* The frame fromLora is about to put there.                               *)
<1>5. loraPc' \in {"noKey", "mine", "keyr"} => Fine(cur')
  <2>1. CASE loraPc \in {"noKey", "mine", "keyr"} /\ inVector' = inVector
    BY <1>1, <1>3, <2>1 DEF cur
  <2>2. CASE LoraHasKey /\ loraPc' = "noKey"
    <3>1. map' = map /\ cur' = cur /\ ~(hasSessionKey(map, cur.dev) /\ isMine(map, cur.dev))
      BY <2>2 DEF LoraHasKey, Goto, cur
    <3>2. cur.dev \in Device
      BY <2>2, CurProperties DEF LoraHasKey, Frame
    <3> QED BY <3>1, <3>2 DEF KeyIsInNext, Entries, isMine, hasSessionKey
  <2> DEFINE Stays == \/ loraPc' \notin {"noKey", "mine", "keyr"}
                      \/ (loraPc \in {"noKey", "mine", "keyr"} /\ inVector' = inVector)
                      \/ (LoraHasKey /\ loraPc' = "noKey")
  <2>3. Stays
    <3>1. CASE LoraHasKey
      BY <3>1 DEF LoraHasKey, Goto
    <3>2. CASE LoraWake \/ LoraRegister \/ LoraRegr \/ LoraGetKey \/ LoraRxl \/ LoraUpdate \/ LoraHasCheck
               \/ LoraSetCheck \/ LoraKeys \/ LoraNoKey \/ LoraMine \/ LoraKeyr \/
               LoraOldBegin \/ LoraOldHasKey \/ LoraOldRxl \/ LoraOldSeq \/ LoraOldCheck \/
               LoraSendAll
      BY <3>2 DEF Goto, LoraWake, LoraRegister, LoraRegr, LoraGetKey, LoraRxl, LoraUpdate, LoraHasCheck,
         LoraSetCheck, LoraKeys, LoraNoKey, LoraMine, LoraKeyr, LoraOldBegin, LoraOldHasKey,
         LoraOldRxl, LoraOldSeq, LoraOldCheck, LoraSendAll, loraVars, stiotVars, envVars,
         fateVars, hist
    <3>3. CASE StiotTake \/ StiotIsMine \/ StiotKeyaSet \/ StiotKeyaSync \/ StiotKeyaNotify
               \/ StiotRegaDh \/ StiotRegaKey \/ StiotRegaSet \/ StiotTxlKey \/ StiotTxlSeq
               \/ StiotGetKey \/ StiotEncrypt \/ StiotSetSeq \/ StiotSend \/ TimerFlush \/
               Silence \/ ServerReceive \/ UNCHANGED vars
      BY <3>3 DEF StiotTake, StiotIsMine, StiotKeyaSet, StiotKeyaSync, StiotKeyaNotify,
         StiotRegaDh, StiotRegaKey, StiotRegaSet, StiotTxlKey, StiotTxlSeq, StiotGetKey,
         StiotEncrypt, StiotSetSeq, StiotSend, TimerFlush, Silence, ServerReceive, vars,
         loraVars, stiotVars, envVars, fateVars, hist
    <3>4. ASSUME NEW c \in Device, DeviceRegister(c) \/ DeviceSend(c) \/ DeviceReceive(c) \/
                ServerTxl(c)
          PROVE  Stays
      BY <3>4 DEF DeviceRegister, DeviceSend, DeviceReceive, ServerTxl, loraVars, stiotVars,
         envVars, fateVars, hist
    <3> QED BY <1>d, <3>1, <3>2, <3>3, <3>4 DEF Next, LoraStep, LoraPass, StiotStep, Environment
  <2> QED BY <2>1, <2>2, <2>3
<1> QED BY <1>4, <1>5 DEF CachedKeys, KeyIsIn, KeyIsInNext, Announced, AnnouncedNext, HasNext

(* CheckedKeyKnownToServer is kept, given the other parts of Keys.         *)
LEMMA CheckedKeyStep ==
  ASSUME TypeOK, InHand, Entries, CachedKeys, VerifiedKey, CheckedKeyKnownToServer, [Next]_vars
  PROVE  CheckedKeyKnownToServer'
<1>0. CASE Restart
  BY <1>0 DEF Restart, CheckedKeyKnownToServer, hasSessionKeyCheck, isInTable
<1>d. SUFFICES ASSUME ~Restart, NEW e \in Device, e \notin raced', hasSessionKeyCheck(map', e)
               PROVE  AnnouncedNext(e, map'[e].sessionKey)
  BY <1>0 DEF CheckedKeyKnownToServer, Announced, AnnouncedNext, HasNext
<1>1. e \notin raced
  BY <1>d, RacedStep
<1>2. KeyKept(e)
  BY <1>d, KeyChange DEF KeyGone, KeySet
<1>3. /\ isInTable(map, e) /\ map'[e].sessionKey = map[e].sessionKey
      /\ \/ map[e].sessionKeyCheck
         \/ LoraSetCheck /\ e = cur.dev
         \/ LoraOldCheck /\ e = old.dev /\ hasSessionKey(map, e)
  BY <1>d, <1>2 DEF KeyKept, hasSessionKeyCheck
<1>4. CASE map[e].sessionKeyCheck
  <2>1. Announced(e, map[e].sessionKey)
    BY <1>1, <1>3, <1>4 DEF CheckedKeyKnownToServer, hasSessionKeyCheck
  <2> QED BY <1>d, <1>3, <2>1, AnnouncedPersists
<1>5. CASE LoraSetCheck /\ e = cur.dev
  BY <1>5 DEF LoraSetCheck, AnnouncedNext, cur, Goto
<1>6. CASE LoraOldCheck /\ e = old.dev /\ hasSessionKey(map, e)
  <2>1. historyIterator \in DOMAIN oldData
    BY <1>6, OldProperties, LenProperties DEF LoraOldCheck, OldPc, TypeOK
  <2>2. KeyIsIn(old)
    BY <1>1, <1>6 DEF LoraOldCheck, VerifiedKey
  <2>3. Announced(e, map[e].sessionKey)
    BY <1>6, <2>1, <2>2 DEF CachedKeys, old, KeyIsIn
  <2> QED BY <1>d, <1>3, <2>3, AnnouncedPersists
<1> QED BY <1>3, <1>4, <1>5, <1>6

(* Keys holds when the gateway starts.                                     *)
LEMMA InitKeys == Init => Keys
<1> SUFFICES ASSUME Init PROVE Keys
  OBVIOUS
<1> PICK enrolled \in SUBSET Device :
      /\ devKey  = [d \in Device |-> IF d \in enrolled THEN OldKey ELSE NullKey]
      /\ srvKeys = [d \in Device |-> IF d \in enrolled THEN <<OldKey>> ELSE <<>>]
  BY DEF Init
<1>1. nextPriv = 1 /\ Unused = 1 /\ NullKey.priv = 0 /\ OldKey.priv = 0
  BY DEF Init, InitGateway, Unused, NullKey, OldKey
<1>2. /\ \A d \in Device : devKey[d].priv < Unused
      /\ \A d \in Device : \A i \in DOMAIN srvKeys[d] : srvKeys[d][i].priv < Unused
  BY <1>1
<1>3. UsedHere
  BY <1>1, <1>2 DEF Init, InitGateway, UsedHere, isInTable
<1>4. UsedQueues
  BY <1>1, NoMessageType DEF Init, InitGateway, UsedQueues, UsedMsg
<1>5. UsedKeys
  BY <1>1, <1>3, <1>4 DEF Init, InitGateway, UsedKeys, UsedHere, UsedQueues
<1>6. AnsweredKeys /\ CachedKeys /\ VerifiedKey /\ CheckedKeyKnownToServer
  BY DEF Init, InitGateway, AnsweredKeys, CachedKeys, VerifiedKey, CheckedKeyKnownToServer,
         NoMessage, Msg, hasSessionKeyCheck, isInTable
<1> QED BY <1>5, <1>6 DEF Keys

(* Where the keys of the table, the frames and the messages come from, at  *)
(* every moment of the two threads, the restarts included.                 *)
THEOREM KeysInvariant == Spec => []Keys
<1>1. Base /\ Base' /\ Keys /\ [Next]_vars => Keys'
  BY UsedKeysStep, AnsweredKeysStep, CachedKeysStep, VerifiedKeyStep, CheckedKeyStep DEF Keys,
     Base
<1> QED BY <1>1, InitKeys, BaseInvariant, PTL DEF Spec

(* The server can give back every key under which the gateway counts a     *)
(* device as checked, unless a key was replaced between the verification   *)
(* of a cached frame and the check set for it.                             *)
THEOREM CheckedKeysAreKnown == Spec => []CheckedKeyKnownToServer
<1>1. Keys => CheckedKeyKnownToServer
  BY DEF Keys
<1> QED BY <1>1, KeysInvariant, PTL

-----------------------------------------------------------------------------
(* Which cached frames may be left alone.                                  *)
Sent(u, d, k) == \E i \in DOMAIN u : u[i].type = "KEYS" /\ u[i].dev = d /\ u[i].key = k

(* Only fromLora sends a KEYS, and the server learns a key from no other.  *)
LEMMA OnlyKeysTells ==
  ASSUME TypeOK, TypeOK', InHand, [Next]_vars, NEW d \in Device, NEW k
  PROVE  /\ loraPc # "keys" /\ Sent(upQ', d, k) => Sent(upQ, d, k)
         /\ HasNext(d, k) => ServerHas(d, k) \/ Sent(upQ, d, k)
<1>t. /\ upQ \in Seq(Message) /\ upQ' \in Seq(Message) /\ fromStiotData \in Seq(Message)
      /\ map \in Table /\ in.dev \in Device /\ srvKeys \in [Device -> Seq(SessionKey)]
  BY DEF TypeOK, Message
<1>1. ASSUME loraPc # "keys", ~Sent(upQ, d, k) PROVE ~Sent(upQ', d, k)
  <2> DEFINE S == {m \in Message : ~(m.type = "KEYS" /\ m.dev = d /\ m.key = k)}
  <2>1. upQ \in Seq(S)
    <3>1. \A i \in DOMAIN upQ : upQ[i] \in S
      BY <1>t, <1>1, ElementOfSeq, LenProperties DEF Sent
    <3> QED BY <1>t, <3>1, LenProperties, IsASeq
  <2>2. NewMessages(S, Message)
    <3>1. loraPc \in {"regr", "keyr"} => cur.dev \in Device /\ cur.n \in Nat
      BY CurProperties DEF HasFrame, Frame
    <3>2. ASSUME NEW type \in {"REGR", "RXL", "KEYR"}, NEW e \in Device, NEW n \in Nat,
                 NEW key \in SessionKey
          PROVE  Msg(type, e, n, key) \in S
      BY MsgType
    <3>3. \A i \in 1..Len(outVector) : RXL(outVector[i]) \in S
      <4>1. \A i \in 1..Len(outVector) : outVector[i] \in Frame
        BY ElementOfSeq DEF TypeOK
      <4> QED BY <3>2, <4>1 DEF RXL, Frame
    <3>4. \A m \in Message : /\ Msg("REGA", m.dev, 0, NullKey) \in Message
                             /\ srvKeys[m.dev] # <<>> =>
                                  Msg("KEYA", m.dev, LastSeq(m.dev), LastKey(m.dev)) \in Message
      <4>1. \A m \in Message : m.dev \in Device
        BY DEF Message
      <4> QED BY <4>1, MsgType, KeyTypes, LastKeyType, LastSeqType
    <3>5. 0 \in Nat /\ S \subseteq Message
      OBVIOUS
    <3> HIDE DEF S
    <3> QED BY <1>t, <1>1, <3>1, <3>2, <3>3, <3>4, <3>5, NoMessageType, MsgType, KeyTypes
            DEF NewMessages
  <2>3. upQ' \in Seq(S)
    <3>1. S \in SUBSET Message
      OBVIOUS
    <3> HIDE DEF S
    <3> QED BY <1>t, <2>1, <2>2, <3>1, MessagesMove
  <2>4. \A i \in DOMAIN upQ' : upQ'[i] \in S
    <3> HIDE DEF S
    <3> QED BY <2>3, ElementOfSeq, LenProperties
  <2> QED BY <2>4 DEF Sent
<1>2. ASSUME HasNext(d, k), ~ServerHas(d, k) PROVE Sent(upQ, d, k)
  <2>1. srvKeys'[d] # srvKeys[d]
    BY <1>2 DEF HasNext, ServerHas
  <2>2. /\ upQ # <<>> /\ Head(upQ).type = "KEYS"
        /\ srvKeys' = [srvKeys EXCEPT ![Head(upQ).dev] =
                          Append(srvKeys[Head(upQ).dev], Head(upQ).key)]
    BY <2>1, ServerKeysStep
  <2>3. Head(upQ) = upQ[1] /\ 1 \in DOMAIN upQ /\ Head(upQ) \in Message
    BY <1>t, <2>2, HeadTailProperties, LenProperties, EmptySeq
  <2>4. Head(upQ).dev = d /\ srvKeys'[d] = Append(srvKeys[d], Head(upQ).key)
    BY <1>t, <2>1, <2>2
  <2>5. /\ DOMAIN srvKeys'[d] = 1..(Len(srvKeys[d]) + 1) /\ Len(srvKeys[d]) \in Nat
        /\ DOMAIN srvKeys[d] = 1..Len(srvKeys[d])
        /\ \A i \in 1..Len(srvKeys[d]) : srvKeys'[d][i] = srvKeys[d][i]
        /\ srvKeys'[d][Len(srvKeys[d]) + 1] = Head(upQ).key
    <3>1. srvKeys[d] \in Seq(SessionKey) /\ Head(upQ).key \in SessionKey
      BY <1>t, <2>3 DEF Message
    <3> QED BY <2>4, <3>1, AppendProperties, LenProperties
  <2>6. k = Head(upQ).key
    <3>1. PICK i \in DOMAIN srvKeys'[d] : srvKeys'[d][i] = k
      BY <1>2 DEF HasNext
    <3>2. i \notin DOMAIN srvKeys[d] \/ srvKeys[d][i] # k
      BY <1>2 DEF ServerHas
    <3> QED BY <2>5, <3>1, <3>2
  <2> QED BY <2>2, <2>3, <2>4, <2>6 DEF Sent
<1> QED BY <1>1, <1>2

(* What holds of the device of a skipped frame.                            *)
NoKeyFor(d) ==
  hasSessionKey(map, d) =>
    /\ ServerHas(d, map[d].sessionKey) => NotificationDue(d)
    /\ Sent(upQ, d, map[d].sessionKey) => ServerHas(d, map[d].sessionKey)

(* What SkippedHasNoKey says of one cached frame.                          *)
LEMMA SkippedMeans ==
  SkippedHasNoKey <=> \A i \in DOMAIN oldData : Skipped(i) => NoKeyFor(oldData[i].dev)
BY DEF SkippedHasNoKey, NoKeyFor, KeyFromServer, OnItsWay, Sent, ServerHas

DueNext(d) ==
  in'.dev = d /\ (stiotPc' = "keyaSync" \/ (stiotPc' = "keyaNotify" /\ loraPc' = "wait"))
NoKeyForNext(d) ==
  hasSessionKey(map', d) =>
    /\ HasNext(d, map'[d].sessionKey) => DueNext(d)
    /\ Sent(upQ', d, map'[d].sessionKey) => HasNext(d, map'[d].sessionKey)

(* A device whose cached frame has no key from the server gets it from     *)
(* fromStiot alone, which then has a notification to give.                 *)
LEMMA NoKeyStep ==
  ASSUME TypeOK, TypeOK', InHand, StiotPointer, UsedKeys, AnsweredKeys, [Next]_vars, ~Restart,
         ~LoraWake, ~(StiotKeyaNotify /\ loraPc = "wait"), loraPc # "keys",
         NEW d \in Device, NoKeyFor(d)
  PROVE  NoKeyForNext(d)
<1>t. map \in Table /\ in.dev \in Device
  BY DEF TypeOK, Message
<1>1. NotificationDue(d) => DueNext(d)
  <2> SUFFICES ASSUME NotificationDue(d) PROVE DueNext(d)
    OBVIOUS
  <2>1. in.dev = d /\ (stiotPc = "keyaSync" \/ (stiotPc = "keyaNotify" /\ loraPc = "wait"))
    BY DEF NotificationDue
  <2> DEFINE Due == /\ in'.dev = d
                    /\ stiotPc' = "keyaSync" \/ (stiotPc' = "keyaNotify" /\ loraPc' = "wait")
  <2>2. Due
    <3>1. CASE StiotKeyaSync
      BY <3>1, <2>1 DEF StiotKeyaSync, StiotGoto, loraVars
    <3>2. CASE StiotKeyaNotify
      BY <3>2, <2>1 DEF StiotKeyaNotify
    <3>3. CASE LoraRegister \/ LoraRegr \/ LoraHasKey \/ LoraGetKey \/ LoraRxl \/ LoraUpdate \/ LoraHasCheck
               \/ LoraSetCheck \/ LoraKeys \/ LoraNoKey \/ LoraMine \/ LoraKeyr \/
               LoraOldBegin \/ LoraOldHasKey \/ LoraOldRxl \/ LoraOldSeq \/ LoraOldCheck \/
               LoraSendAll
      BY <3>3, <2>1 DEF LoraRegister, LoraRegr, LoraHasKey, LoraGetKey, LoraRxl, LoraUpdate, LoraHasCheck,
         LoraSetCheck, LoraKeys, LoraNoKey, LoraMine, LoraKeyr, LoraOldBegin, LoraOldHasKey,
         LoraOldRxl, LoraOldSeq, LoraOldCheck, LoraSendAll, loraVars, stiotVars, envVars,
         fateVars, hist
    <3>4. CASE StiotTake \/ StiotIsMine \/ StiotKeyaSet \/ StiotRegaDh \/ StiotRegaKey \/
               StiotRegaSet \/ StiotTxlKey \/ StiotTxlSeq \/ StiotGetKey \/ StiotEncrypt \/
               StiotSetSeq \/ StiotSend \/ TimerFlush \/ Silence \/ ServerReceive \/
               UNCHANGED vars
      BY <3>4, <2>1 DEF StiotTake, StiotIsMine, StiotKeyaSet, StiotRegaDh, StiotRegaKey,
         StiotRegaSet, StiotTxlKey, StiotTxlSeq, StiotGetKey, StiotEncrypt, StiotSetSeq,
         StiotSend, TimerFlush, Silence, ServerReceive, vars, loraVars, stiotVars, envVars,
         fateVars, hist
    <3>5. ASSUME NEW c \in Device, DeviceRegister(c) \/ DeviceSend(c) \/ DeviceReceive(c) \/
                ServerTxl(c)
          PROVE  Due
      BY <3>5, <2>1 DEF DeviceRegister, DeviceSend, DeviceReceive, ServerTxl, loraVars,
         stiotVars, envVars, fateVars, hist
    <3> QED BY <3>1, <3>2, <3>3, <3>4, <3>5 DEF Next, LoraStep, LoraPass, StiotStep,
       Environment
  <2> QED BY <2>2 DEF DueNext
<1>2. CASE KeyKept(d)
  <2>1. CASE hasSessionKey(map, d)
    <3>1. map'[d].sessionKey = map[d].sessionKey
      BY <1>2, <2>1 DEF KeyKept, hasSessionKey
    <3> DEFINE k == map[d].sessionKey
    <3>2. HasNext(d, k) => DueNext(d)
      BY <1>1, <2>1, OnlyKeysTells DEF NoKeyFor
    <3>3. Sent(upQ', d, k) => HasNext(d, k)
      BY <2>1, OnlyKeysTells, ServerKeepsKeys DEF NoKeyFor
    <3> QED BY <3>1, <3>2, <3>3 DEF NoKeyForNext
  <2>2. CASE ~hasSessionKey(map, d)
    BY <1>2, <2>2 DEF KeyKept, hasSessionKey, NoKeyForNext
  <2> QED BY <2>1, <2>2
<1>3. CASE KeyGone(d)
  BY <1>3 DEF KeyGone, NoKeyForNext
<1>4. CASE KeySet(d) /\ StiotKeyaSet
  <2>1. ~StiotRegaSet /\ in.type = "KEYA"
    BY <1>4 DEF StiotKeyaSet, StiotRegaSet, StiotPointer
  <2>2. d = in.dev /\ map'[d].sessionKey = in.key
    BY <1>4, <2>1 DEF KeySet
  <2>3. HasNext(d, in.key)
    BY <2>1, <2>2, ServerKeepsKeys DEF AnsweredKeys
  <2>4. DueNext(d)
    BY <1>4, <2>2 DEF StiotKeyaSet, StiotGoto, DueNext
  <2> QED BY <2>2, <2>3, <2>4 DEF NoKeyForNext
<1>5. CASE KeySet(d) /\ StiotRegaSet
  <2>1. ~StiotKeyaSet /\ map'[d].sessionKey = sessionKey
    BY <1>5 DEF StiotKeyaSet, StiotRegaSet, KeySet
  <2>2. stiotPc = "regaSet"
    BY <1>5 DEF StiotRegaSet
  <2>3. sessionKey.priv = Unused /\ Unused \in Nat /\ sessionKey \in SessionKey
    BY <2>2 DEF UsedKeys, Unused, TypeOK
  <2>4. ~ServerHas(d, sessionKey)
    BY <2>3 DEF UsedKeys, ServerHas
  <2>5. ~Sent(upQ, d, sessionKey)
    <3>1. \A i \in DOMAIN upQ : upQ[i] \in UsedMsg
      BY ElementOfSeq, LenProperties DEF UsedKeys
    <3>2. \A m \in UsedMsg : m.key # sessionKey
      BY <2>3 DEF UsedMsg
    <3> QED BY <3>1, <3>2 DEF Sent
  <2>6. ~HasNext(d, sessionKey) /\ ~Sent(upQ', d, sessionKey)
    BY <2>4, <2>5, OnlyKeysTells
  <2> QED BY <2>1, <2>6 DEF NoKeyForNext
<1> QED BY <1>2, <1>3, <1>4, <1>5, KeyChange DEF KeySet

(* A skipped frame had been skipped before the step, or is just skipped    *)
(* for want of a key.                                                      *)
LEMMA SkippedStep ==
  ASSUME TypeOK, InHand, Entries, [Next]_vars, ~Restart,
         NEW i \in DOMAIN oldData', Skipped(i)'
  PROVE  /\ ~LoraWake /\ ~(StiotKeyaNotify /\ loraPc = "wait") /\ loraPc # "keys"
         /\ \/ \E j \in DOMAIN oldData : Skipped(j) /\ oldData[j] = oldData'[i]
            \/ oldData'[i].dev \in Device /\ ~hasSessionKey(map', oldData'[i].dev)
<1>t. /\ oldData \in Seq(Frame) /\ historyIterator \in Nat \ {0} /\ Len(oldData) \in Nat
      /\ DOMAIN oldData = 1..Len(oldData) /\ woken \in BOOLEAN
  BY LenProperties DEF TypeOK
<1>s. \/ loraPc' = "wait" /\ ~woken'
      \/ loraPc' \in OldPc \cup {"old"} /\ i < historyIterator'
  BY DEF Skipped
<1> DEFINE Goal == /\ ~LoraWake /\ ~(StiotKeyaNotify /\ loraPc = "wait") /\ loraPc # "keys"
                   /\ \/ \E j \in DOMAIN oldData : Skipped(j) /\ oldData[j] = oldData'[i]
                      \/ oldData'[i].dev \in Device /\ ~hasSessionKey(map', oldData'[i].dev)
<1> SUFFICES Goal
  OBVIOUS
<1>0. ~LoraWake
  <2> SUFFICES ASSUME LoraWake PROVE FALSE
    OBVIOUS
  <2>1. loraPc' = "wait" /\ oldData' = <<>>
    BY <1>s DEF LoraWake, Goto, OldPc
  <2> QED BY <2>1
<1>1. loraPc # "keys"
  <2> SUFFICES ASSUME loraPc = "keys" PROVE FALSE
    OBVIOUS
  <2> DEFINE Elsewhere == loraPc' \in {"keys", "new"}
  <2>1. Elsewhere
    <3>1. CASE LoraRegister \/ LoraRegr \/ LoraHasKey \/ LoraGetKey \/ LoraRxl \/ LoraUpdate \/ LoraHasCheck
               \/ LoraSetCheck \/ LoraKeys \/ LoraNoKey \/ LoraMine \/ LoraKeyr \/
               LoraOldBegin \/ LoraOldHasKey \/ LoraOldRxl \/ LoraOldSeq \/ LoraOldCheck \/
               LoraSendAll
      BY <3>1 DEF LoraRegister, LoraRegr, LoraHasKey, LoraGetKey, LoraRxl, LoraUpdate, LoraHasCheck,
         LoraSetCheck, LoraKeys, LoraNoKey, LoraMine, LoraKeyr, LoraOldBegin, LoraOldHasKey,
         LoraOldRxl, LoraOldSeq, LoraOldCheck, LoraSendAll, Goto, loraVars, stiotVars, envVars,
         fateVars, hist
    <3>2. CASE StiotTake \/ StiotIsMine \/ StiotKeyaSet \/ StiotKeyaSync \/ StiotKeyaNotify
               \/ StiotRegaDh \/ StiotRegaKey \/ StiotRegaSet \/ StiotTxlKey \/ StiotTxlSeq
               \/ StiotGetKey \/ StiotEncrypt \/ StiotSetSeq \/ StiotSend \/ TimerFlush \/
               Silence \/ ServerReceive \/ UNCHANGED vars
      BY <3>2 DEF StiotTake, StiotIsMine, StiotKeyaSet, StiotKeyaSync, StiotKeyaNotify,
         StiotRegaDh, StiotRegaKey, StiotRegaSet, StiotTxlKey, StiotTxlSeq, StiotGetKey,
         StiotEncrypt, StiotSetSeq, StiotSend, TimerFlush, Silence, ServerReceive, vars,
         Goto, loraVars, stiotVars, envVars, fateVars, hist
    <3>3. ASSUME NEW c \in Device, DeviceRegister(c) \/ DeviceSend(c) \/ DeviceReceive(c) \/
                ServerTxl(c)
          PROVE  Elsewhere
      BY <3>3 DEF DeviceRegister, DeviceSend, DeviceReceive, ServerTxl, Goto, loraVars,
         stiotVars,
         envVars, fateVars, hist
    <3> QED BY <1>0, <3>1, <3>2, <3>3 DEF Next, LoraStep, LoraPass, StiotStep, Environment
  <2> QED BY <1>s, <2>1 DEF OldPc
<1>2. ~(StiotKeyaNotify /\ loraPc = "wait")
  BY <1>s DEF StiotKeyaNotify, loraVars, OldPc
<1>k. ASSUME oldData' = oldData, Skipped(i) PROVE Goal
  BY <1>0, <1>1, <1>2, <1>k
<1>3. CASE LoraOldHasKey
  <2>1. CASE i < historyIterator
    BY <1>3, <1>k, <2>1 DEF LoraOldHasKey, Skipped
  <2>2. CASE ~(i < historyIterator)
    <3>1. historyIterator' = historyIterator + 1 /\ oldData' = oldData /\ map' = map
          /\ ~(hasSessionKey(map, old.dev) /\ isMine(map, old.dev))
      BY <1>t, <1>3, <1>s, <2>2 DEF LoraOldHasKey, OldPc, Goto
    <3>2. i = historyIterator
      BY <1>t, <1>3, <1>s, <2>2, <3>1 DEF OldPc, LoraOldHasKey
    <3>3. old.dev \in Device /\ oldData'[i] = old
      BY <1>3, <3>1, <3>2, OldProperties DEF LoraOldHasKey, Frame, old
    <3> QED BY <1>0, <1>1, <1>2, <3>1, <3>3 DEF Entries, isMine, hasSessionKey
  <2> QED BY <2>1, <2>2
<1>4. CASE LoraOldRxl \/ LoraOldCheck
  <2>1. historyIterator' = historyIterator /\ loraPc \in OldPc /\ loraPc' # "wait"
        /\ (oldData' = oldData \/ oldData' = EraseAt(oldData, historyIterator))
    BY <1>4 DEF LoraOldRxl, LoraOldCheck, OldPc, Goto
  <2>2. i < historyIterator /\ Skipped(i)
    BY <1>s, <2>1 DEF Skipped
  <2>3. CASE oldData' = oldData
    BY <1>k, <2>2, <2>3
  <2>4. CASE oldData' = EraseAt(oldData, historyIterator)
    <3>1. historyIterator \in 1..Len(oldData)
      BY <2>1, OldProperties
    <3> DEFINE e == EraseAt(oldData, historyIterator)
    <3>e. /\ e \in Seq(Frame) /\ Len(e) = Len(oldData) - 1
          /\ \A j \in 1..(Len(oldData) - 1) :
               e[j] = IF j < historyIterator THEN oldData[j] ELSE oldData[j + 1]
      <4>1. oldData \in Seq(Frame) /\ historyIterator \in 1..Len(oldData)
        BY <1>t, <3>1
      <4> QED BY <4>1, EraseAtProperties
    <3>d. DOMAIN e = 1..(Len(oldData) - 1)
      <4> HIDE DEF e
      <4> QED BY <3>e, LenProperties
    <3>2. i \in 1..(Len(oldData) - 1) /\ oldData'[i] = oldData[i]
      <4> HIDE DEF e
      <4>1. oldData' = e
        BY <2>4 DEF e
      <4> QED BY <1>t, <2>2, <3>e, <3>d, <4>1
    <3> QED BY <1>0, <1>1, <1>2, <1>t, <2>2, <3>2
  <2> QED BY <2>1, <2>3, <2>4
<1>5. CASE LoraSendAll
  BY <1>5, <1>t, <1>k DEF LoraSendAll, Skipped
<1>6. CASE LoraOldBegin
  <2>1. historyIterator' = 1 /\ loraPc' = "old" /\ oldData' = oldData
    BY <1>6 DEF LoraOldBegin, Goto
  <2> QED BY <1>s, <1>t, <2>1
<1>7. ASSUME loraPc' = loraPc \/ (loraPc \in OldPc \cup {"old"} /\ loraPc' # "wait"),
             historyIterator' = historyIterator, oldData' = oldData,
             woken' = woken \/ woken' = TRUE \/ loraPc # "wait"
      PROVE  Goal
  BY <1>7, <1>k, <1>s DEF Skipped, OldPc
<1>8. ASSUME loraPc' \notin OldPc \cup {"old", "wait"} PROVE Goal
  BY <1>8, <1>s
<1> DEFINE Rest == \/ LoraOldHasKey \/ LoraOldRxl \/ LoraOldCheck \/ LoraSendAll \/ LoraOldBegin
                   \/ loraPc' \notin OldPc \cup {"old", "wait"}
                   \/ /\ loraPc' = loraPc \/ (loraPc \in OldPc \cup {"old"} /\ loraPc' # "wait")
                      /\ historyIterator' = historyIterator /\ oldData' = oldData
                      /\ woken' = woken \/ woken' = TRUE \/ loraPc # "wait"
<1>9. Rest
  <2> USE DEF OldPc
  <2>1. CASE LoraRegister \/ LoraRegr \/ LoraHasKey \/ LoraGetKey \/ LoraRxl \/ LoraUpdate \/ LoraHasCheck
             \/ LoraSetCheck \/ LoraKeys \/ LoraNoKey \/ LoraMine \/ LoraKeyr \/
             LoraOldSeq
    BY <2>1 DEF LoraRegister, LoraRegr, LoraHasKey, LoraGetKey, LoraRxl, LoraUpdate, LoraHasCheck,
       LoraSetCheck, LoraKeys, LoraNoKey, LoraMine, LoraKeyr, LoraOldSeq, Goto, AddBulk, loraVars,
       stiotVars, envVars, fateVars, hist
  <2>2. CASE StiotTake \/ StiotIsMine \/ StiotKeyaSet \/ StiotKeyaSync \/ StiotKeyaNotify
             \/ StiotRegaDh \/ StiotRegaKey \/ StiotRegaSet \/ StiotTxlKey \/ StiotTxlSeq
             \/ StiotGetKey \/ StiotEncrypt \/ StiotSetSeq \/ StiotSend \/ TimerFlush \/
             Silence \/ ServerReceive \/ UNCHANGED vars
    BY <2>2 DEF StiotTake, StiotIsMine, StiotKeyaSet, StiotKeyaSync, StiotKeyaNotify,
       StiotRegaDh, StiotRegaKey, StiotRegaSet, StiotTxlKey, StiotTxlSeq, StiotGetKey,
       StiotEncrypt, StiotSetSeq, StiotSend, TimerFlush, Silence, ServerReceive, vars,
       Goto, AddBulk, loraVars, stiotVars, envVars, fateVars, hist
  <2>3. ASSUME NEW d \in Device, DeviceRegister(d) \/ DeviceSend(d) \/ DeviceReceive(d) \/
              ServerTxl(d)
        PROVE  Rest
    BY <2>3 DEF DeviceRegister, DeviceSend, DeviceReceive, ServerTxl, Goto, AddBulk, loraVars,
       stiotVars,
       envVars, fateVars, hist
  <2> QED BY <1>0, <2>1, <2>2, <2>3 DEF Next, LoraStep, LoraPass, StiotStep, Environment
<1> QED BY <1>3, <1>4, <1>5, <1>6, <1>7, <1>8, <1>9

(* SkippedHasNoKey is kept by every step.                                  *)
LEMMA SkippedHasNoKeyStep ==
  ASSUME TypeOK, TypeOK', InHand, Entries, StiotPointer, UsedKeys, AnsweredKeys, SkippedHasNoKey,
         [Next]_vars
  PROVE  SkippedHasNoKey'
<1>0. CASE Restart
  BY <1>0 DEF Restart, SkippedHasNoKey
<1>1. CASE ~Restart
  <2>0. ASSUME \A i \in DOMAIN oldData' : Skipped(i)' => NoKeyForNext(oldData'[i].dev)
        PROVE  SkippedHasNoKey'
    BY <2>0 DEF SkippedHasNoKey, NoKeyForNext, KeyFromServer, OnItsWay, Sent, HasNext, Skipped,
            NotificationDue, DueNext, hasSessionKey, isInTable
  <2>1. SUFFICES ASSUME NEW i \in DOMAIN oldData', Skipped(i)' PROVE NoKeyForNext(oldData'[i].dev)
    BY <2>0
  <2>2. /\ ~LoraWake /\ ~(StiotKeyaNotify /\ loraPc = "wait") /\ loraPc # "keys"
        /\ \/ \E j \in DOMAIN oldData : Skipped(j) /\ oldData[j] = oldData'[i]
           \/ oldData'[i].dev \in Device /\ ~hasSessionKey(map', oldData'[i].dev)
    BY <1>1, <2>1, SkippedStep
  <2>3. CASE \E j \in DOMAIN oldData : Skipped(j) /\ oldData[j] = oldData'[i]
    <3>1. PICK j \in DOMAIN oldData : Skipped(j) /\ oldData[j] = oldData'[i]
      BY <2>3
    <3>2. oldData[j].dev \in Device
      <4>1. oldData[j] \in Frame
        BY ElementOfSeq, LenProperties DEF TypeOK
      <4> QED BY <4>1 DEF Frame
    <3>3. NoKeyFor(oldData[j].dev)
      BY <3>1, SkippedMeans
    <3> QED BY <1>1, <2>2, <3>1, <3>2, <3>3, NoKeyStep
  <2>4. CASE ~hasSessionKey(map', oldData'[i].dev)
    BY <2>4 DEF NoKeyForNext
  <2> QED BY <2>2, <2>3, <2>4
<1> QED BY <1>0, <1>1

(* When fromLora sleeps with no notification pending, no frame is cached   *)
(* whose key has come from the server, unless fromStiot has its            *)
(* notification still to give.                                             *)
THEOREM NoCacheIsStranded == Spec => []NoStrandedCache
<1>1. Init => SkippedHasNoKey
  BY DEF Init, InitGateway, SkippedHasNoKey
<1>2. Base /\ Base' /\ Keys /\ SkippedHasNoKey /\ [Next]_vars => SkippedHasNoKey'
  BY SkippedHasNoKeyStep DEF Base, Keys
<1>3. TypeOK /\ SkippedHasNoKey => NoStrandedCache
  <2> SUFFICES ASSUME TypeOK, SkippedHasNoKey, loraPc = "wait", ~woken,
                      NEW d \in Device, Cached(d), KeyFromServer(d)
               PROVE  stiotPc \in {"keyaSync", "keyaNotify"} /\ in.dev = d
    BY DEF NoStrandedCache
  <2>1. Len(oldData) \in Nat /\ DOMAIN oldData = 1..Len(oldData)
    BY LenProperties DEF TypeOK
  <2>2. PICK i \in 1..(Len(oldData) + 1 - 1) : oldData[i].dev = d
    BY DEF Cached, CachedBefore
  <2>3. i \in DOMAIN oldData /\ Skipped(i)
    BY <2>1 DEF Skipped
  <2> QED BY <2>2, <2>3 DEF SkippedHasNoKey, KeyFromServer, NotificationDue
<1>4. Base => TypeOK
  BY DEF Base
<1> QED BY <1>1, <1>2, <1>3, <1>4, BaseInvariant, KeysInvariant, PTL DEF Spec

-----------------------------------------------------------------------------
(* Numbers.  What a step does to the number the table has for a device e,  *)
(* and to what is noted of the frames read under its key.                  *)
NumbersKept(e) ==
  /\ verified'[e] = verified[e] /\ (e \in overtaken' <=> e \in overtaken)
  /\ getSeq(map', e) = getSeq(map, e) /\ (isInTable(map', e) <=> isInTable(map, e))
NumbersForgotten(e) == verified'[e] = 0 /\ e \notin overtaken'
NumbersRead(e, n) ==
  /\ verified'[e] = (IF isInTable(map, e) /\ n > verified[e] THEN n ELSE verified[e])
  /\ getSeq(map', e) = (IF isInTable(map, e) THEN n ELSE 0)
  /\ isInTable(map', e) <=> isInTable(map, e)
NumbersWritten(e) ==
  /\ verified'[e] = verified[e] /\ (e \in overtaken' <=> e \in overtaken)
  /\ getSeq(map', e) = (IF isInTable(map, e) THEN seqNum ELSE 0)
  /\ isInTable(map', e) <=> isInTable(map, e)

(* The number of an entry, after what a step does to it.                   *)
LEMMA SeqOfEntry ==
  ASSUME NEW e \in Device
  PROVE  /\ EntryKept(e) => getSeq(map', e) = getSeq(map, e) /\ (isInTable(map', e) <=> isInTable(map, e))
         /\ EntryChecked(e) \/ EntryAged(e) =>
              getSeq(map', e) = getSeq(map, e) /\ (isInTable(map', e) <=> isInTable(map, e))
         /\ \A n : EntryNumbered(e, n) =>
              getSeq(map', e) = n /\ isInTable(map', e) /\ isInTable(map, e)
BY DEF EntryKept, EntryChecked, EntryAged, EntryNumbered, getSeq, isInTable, hasSessionKey

(* What each step does to the number of a device in the table and in the   *)
(* history.                                                                *)
LEMMA NumberSteps ==
  ASSUME TypeOK, InHand, [Next]_vars, NEW e \in Device
  PROVE  /\ LoraUpdate =>
              IF e = cur.dev
              THEN NumbersRead(e, cur.n) /\ (e \in overtaken' <=> Numbering(e) \/ Cached(e))
              ELSE NumbersKept(e)
         /\ LoraOldSeq =>
              IF e = old.dev
              THEN NumbersRead(e, old.n) /\ (e \in overtaken' <=>
                               e \in overtaken \/ Numbering(e) \/ CachedBefore(e, historyIterator))
              ELSE NumbersKept(e)
         /\ StiotSetSeq => IF e = in.dev THEN NumbersWritten(e) ELSE NumbersKept(e)
         /\ ~LoraUpdate /\ ~LoraOldSeq /\ ~StiotSetSeq => NumbersKept(e) \/ NumbersForgotten(e)
         /\ StiotRegaSet /\ e = in.dev => NumbersForgotten(e)
<1>t. verified \in [Device -> Nat] /\ in.dev \in Device /\ overtaken \subseteq Device
  BY DEF TypeOK, Message
<1>1. LoraUpdate =>
        IF e = cur.dev
        THEN NumbersRead(e, cur.n) /\ (e \in overtaken' <=> Numbering(e) \/ Cached(e))
        ELSE NumbersKept(e)
  <2> SUFFICES ASSUME LoraUpdate
               PROVE  IF e = cur.dev
                      THEN NumbersRead(e, cur.n) /\ (e \in overtaken' <=> Numbering(e) \/ Cached(e))
                      ELSE NumbersKept(e)
    OBVIOUS
  <2>1. IF e = cur.dev /\ isInTable(map, e) THEN EntryNumbered(e, cur.n) ELSE EntryKept(e)
    BY EntrySteps
  <2>2. /\ verified' = [verified EXCEPT ![cur.dev] =
                           IF isInTable(map, cur.dev) /\ cur.n > @ THEN cur.n ELSE @]
        /\ overtaken' = (IF Numbering(cur.dev) \/ Cached(cur.dev)
                         THEN overtaken \cup {cur.dev} ELSE overtaken \ {cur.dev})
    BY DEF LoraUpdate, Verified
  <2>3. CASE e = cur.dev
    BY <1>t, <2>1, <2>2, <2>3, SeqOfEntry DEF NumbersRead, getSeq
  <2>4. CASE e # cur.dev
    BY <1>t, <2>1, <2>2, <2>4, SeqOfEntry DEF NumbersKept
  <2> QED BY <2>3, <2>4
<1>2. LoraOldSeq =>
        IF e = old.dev
        THEN NumbersRead(e, old.n) /\ (e \in overtaken' <=>
                               e \in overtaken \/ Numbering(e) \/ CachedBefore(e, historyIterator))
        ELSE NumbersKept(e)
  <2> SUFFICES ASSUME LoraOldSeq
               PROVE  IF e = old.dev
                      THEN /\ NumbersRead(e, old.n)
                           /\ e \in overtaken' <=>
                               e \in overtaken \/ Numbering(e) \/ CachedBefore(e, historyIterator)
                      ELSE NumbersKept(e)
    OBVIOUS
  <2>1. IF e = old.dev /\ isInTable(map, e) THEN EntryNumbered(e, old.n) ELSE EntryKept(e)
    BY EntrySteps
  <2>2. /\ verified' = [verified EXCEPT ![old.dev] =
                           IF isInTable(map, old.dev) /\ old.n > @ THEN old.n ELSE @]
        /\ overtaken' = (IF Numbering(old.dev) \/ CachedBefore(old.dev, historyIterator)
                         THEN overtaken \cup {old.dev} ELSE overtaken)
    BY DEF LoraOldSeq, Verified
  <2>3. CASE e = old.dev
    BY <1>t, <2>1, <2>2, <2>3, SeqOfEntry DEF NumbersRead, getSeq
  <2>4. CASE e # old.dev
    BY <1>t, <2>1, <2>2, <2>4, SeqOfEntry DEF NumbersKept
  <2> QED BY <2>3, <2>4
<1>3. StiotSetSeq => IF e = in.dev THEN NumbersWritten(e) ELSE NumbersKept(e)
  <2> SUFFICES ASSUME StiotSetSeq PROVE IF e = in.dev THEN NumbersWritten(e) ELSE NumbersKept(e)
    OBVIOUS
  <2>1. IF e = in.dev /\ isInTable(map, e) THEN EntryNumbered(e, seqNum) ELSE EntryKept(e)
    BY EntrySteps
  <2>2. verified' = verified /\ overtaken' = overtaken
    BY DEF StiotSetSeq, hist
  <2> QED BY <2>1, <2>2, SeqOfEntry DEF NumbersWritten, NumbersKept, getSeq
(* A key that is set, a device that is added or erased: its numbers are    *)
(* forgotten.                                                              *)
<1>4. ASSUME NEW D, NEW r, ForgetKeys(D, r), e \in D PROVE NumbersForgotten(e)
  BY <1>4 DEF ForgetKeys, NumbersForgotten
<1>5. ASSUME NEW D, NEW r, ForgetKeys(D, r), e \notin D, EntryKept(e) PROVE NumbersKept(e)
  BY <1>5, <1>t, SeqOfEntry DEF ForgetKeys, NumbersKept
<1>6. ASSUME hist' = hist, EntryKept(e) \/ EntryChecked(e) \/ EntryAged(e) PROVE NumbersKept(e)
  BY <1>6, SeqOfEntry DEF hist, NumbersKept
<1>7. ASSUME LoraRegister \/ LoraNoKey PROVE NumbersKept(e) \/ NumbersForgotten(e)
  <2>1. CASE LoraRegister
    <3>1. ForgetKeys({cur.dev}, {}) /\ (e # cur.dev => EntryKept(e))
      BY <2>1, EntrySteps DEF LoraRegister, LoraAddDevice
    <3> QED BY <1>4, <1>5, <3>1
  <2>2. CASE LoraNoKey /\ isInTable(map, cur.dev)
    <3>1. hist' = hist /\ EntryKept(e)
      BY <2>2, EntrySteps DEF LoraNoKey
    <3> QED BY <1>6, <3>1
  <2>3. CASE LoraNoKey /\ ~isInTable(map, cur.dev)
    <3>1. ForgetKeys({cur.dev}, {}) /\ (e # cur.dev => EntryKept(e))
      BY <2>3, EntrySteps DEF LoraNoKey, LoraAddDevice
    <3> QED BY <1>4, <1>5, <3>1
  <2> QED BY <1>7, <2>1, <2>2, <2>3
<1>8. ASSUME StiotKeyaSet \/ StiotRegaSet
      PROVE  /\ NumbersKept(e) \/ NumbersForgotten(e)
             /\ e = in.dev => NumbersForgotten(e)
  <2>1. PICK r : ForgetKeys({in.dev}, r)
    BY <1>8 DEF StiotKeyaSet, StiotRegaSet, StiotSetSessionkey
  <2>2. e # in.dev => EntryKept(e)
    BY <1>8, EntrySteps
  <2> QED BY <1>4, <1>5, <2>1, <2>2
<1>9. ASSUME TimerFlush \/ Restart PROVE NumbersKept(e) \/ NumbersForgotten(e)
  <2>1. PICK D : ForgetKeys(D, {}) /\ (e \notin D => EntryKept(e))
    <3>1. CASE TimerFlush
      BY <3>1, EntrySteps DEF TimerFlush, expiredDevices
    <3>2. CASE Restart
      BY <3>2 DEF Restart
    <3> QED BY <1>9, <3>1, <3>2
  <2> QED BY <1>4, <1>5, <2>1
<1>10. ASSUME LoraSetCheck \/ LoraOldCheck \/ Silence PROVE NumbersKept(e)
  <2>1. hist' = hist
    BY <1>10 DEF LoraSetCheck, LoraOldCheck, Silence
  <2>2. EntryKept(e) \/ EntryChecked(e) \/ EntryAged(e)
    <3>1. CASE Silence
      BY <3>1, EntrySteps
    <3>2. CASE LoraSetCheck \/ LoraOldCheck
      BY <3>2, EntrySteps
    <3> QED BY <1>10, <3>1, <3>2
  <2> QED BY <1>6, <2>1, <2>2
<1>11. ASSUME ~MapStep PROVE NumbersKept(e)
  <2>1. EntryKept(e)
    BY <1>11, OtherSteps DEF EntryKept
  <2> DEFINE Same == hist' = hist
  <2> USE <1>11 DEF MapStep
  <2>2. Same
    <3>1. CASE LoraWake \/ LoraRegr \/ LoraHasKey \/ LoraGetKey \/ LoraRxl \/ LoraHasCheck \/
               LoraKeys \/ LoraMine \/ LoraKeyr \/ LoraOldBegin \/ LoraOldHasKey \/ LoraOldRxl \/
               LoraSendAll
      BY <3>1 DEF LoraWake, LoraRegr, LoraHasKey, LoraGetKey, LoraRxl, LoraHasCheck, LoraKeys, LoraMine,
         LoraKeyr, LoraOldBegin, LoraOldHasKey, LoraOldRxl, LoraSendAll, loraVars,
         stiotVars, envVars, fateVars, hist
    <3>2. CASE StiotTake \/ StiotIsMine \/ StiotKeyaSync \/ StiotKeyaNotify \/ StiotRegaDh
               \/ StiotRegaKey \/ StiotTxlKey \/ StiotTxlSeq \/ StiotGetKey \/ StiotEncrypt
               \/ StiotSend \/ ServerReceive \/ UNCHANGED vars
      BY <3>2 DEF StiotTake, StiotIsMine, StiotKeyaSync, StiotKeyaNotify, StiotRegaDh,
         StiotRegaKey, StiotTxlKey, StiotTxlSeq, StiotGetKey, StiotEncrypt, StiotSend,
         ServerReceive, vars, loraVars, stiotVars, envVars, fateVars, hist
    <3>3. ASSUME NEW c \in Device, DeviceRegister(c) \/ DeviceSend(c) \/ DeviceReceive(c) \/
                ServerTxl(c)
          PROVE  Same
      BY <3>3 DEF DeviceRegister, DeviceSend, DeviceReceive, ServerTxl, loraVars, stiotVars,
         envVars, fateVars, hist
    <3> QED BY <3>1, <3>2, <3>3 DEF Next, LoraStep, LoraPass, StiotStep, Environment
  <2> QED BY <1>6, <2>1, <2>2
<1>12. ~LoraUpdate /\ ~LoraOldSeq /\ ~StiotSetSeq => NumbersKept(e) \/ NumbersForgotten(e)
  BY <1>7, <1>8, <1>9, <1>10, <1>11 DEF MapStep
<1> QED BY <1>1, <1>2, <1>3, <1>8, <1>12

-----------------------------------------------------------------------------
(* How a step moves the frames of the cache, the pass and the queue.       *)
FramesStay ==
  /\ oldData' = oldData /\ inVector' = inVector /\ fromLoraData' = fromLoraData
  /\ loraPc \in {"hasCheck", "check", "keys"} => loraPc' \in {"hasCheck", "check", "keys"}
  /\ loraPc = "oldCheck" => loraPc' = "oldCheck" /\ historyIterator' = historyIterator
FramesDrained ==
  /\ loraPc = "wait" /\ oldData' = oldData /\ inVector' = fromLoraData /\ fromLoraData' = <<>>
FrameDropped ==
  /\ loraPc \in HasFrame
  /\ oldData' = oldData /\ inVector' = Tail(inVector) /\ fromLoraData' = fromLoraData
FrameCached ==
  /\ loraPc = "keyr"
  /\ oldData' = Append(oldData, cur) /\ inVector' = Tail(inVector) /\ fromLoraData' = fromLoraData
FrameTakenOut ==
  /\ loraPc \in {"oldRxl", "oldCheck"}
  /\ oldData' = EraseAt(oldData, historyIterator)
  /\ inVector' = inVector /\ fromLoraData' = fromLoraData
FrameReceived(f) ==
  /\ loraPc = "wait" /\ fromLoraData' = Append(fromLoraData, f)
  /\ oldData' = oldData /\ inVector' = inVector
  /\ f.type = "DATA_UP" => f.n = dataSent[f.dev] + 1 /\ dataSent'[f.dev] = f.n
FramesGone == oldData' = <<>> /\ inVector' = <<>> /\ fromLoraData' = <<>>
FramesShift == \/ FramesStay \/ FramesDrained \/ FrameDropped \/ FrameCached \/ FrameTakenOut
               \/ (\E f \in Frame : FrameReceived(f)) \/ FramesGone

(* Each step leaves the three containers of frames as they are, or moves   *)
(* one frame or all of them.                                               *)
LEMMA FramesShiftStep ==
  ASSUME TypeOK, InHand, [Next]_vars
  PROVE  /\ FramesShift
         /\ \A e \in Device : dataSent[e] <= dataSent'[e]
<1> DEFINE Grows == \A e \in Device : dataSent[e] <= dataSent'[e]
<1> DEFINE Goal == FramesShift /\ Grows
<1> SUFFICES Goal
  OBVIOUS
<1>t. dataSent \in [Device -> Nat]
  BY DEF TypeOK
<1>s. dataSent' = dataSent => Grows
  BY <1>t
<1>1. CASE LoraWake
  <2>1. FramesDrained /\ dataSent' = dataSent
    BY <1>1 DEF LoraWake, FramesDrained, loraVars, stiotVars, envVars, fateVars, hist
  <2> QED BY <1>s, <2>1 DEF FramesShift
<1>2. CASE LoraRegr
  <2>1. FrameDropped /\ dataSent' = dataSent
    BY <1>2 DEF LoraRegr, FrameDropped, HasFrame, loraVars, stiotVars, envVars,
       fateVars, hist
  <2> QED BY <1>s, <2>1 DEF FramesShift
<1>3. CASE LoraKeyr
  <2>1. FrameCached /\ dataSent' = dataSent
    BY <1>3 DEF LoraKeyr, FrameCached, loraVars, stiotVars, envVars, fateVars, hist
  <2> QED BY <1>s, <2>1 DEF FramesShift
<1>4. CASE LoraOldCheck
  <2>1. FrameTakenOut /\ dataSent' = dataSent
    BY <1>4 DEF LoraOldCheck, FrameTakenOut, loraVars, stiotVars, envVars, fateVars,
       hist
  <2> QED BY <1>s, <2>1 DEF FramesShift
<1>5. CASE LoraRxl \/ LoraUpdate \/ LoraHasCheck \/ LoraKeys \/ LoraMine
  <2>1. (FramesStay \/ FrameDropped) /\ dataSent' = dataSent
    BY <1>5 DEF LoraRxl, LoraUpdate, LoraHasCheck, LoraKeys, LoraMine, FramesStay,
       FrameDropped, HasFrame, Goto, loraVars, stiotVars, envVars, fateVars, hist
  <2> QED BY <1>s, <2>1 DEF FramesShift
<1>6. CASE LoraOldRxl
  <2>1. (FramesStay \/ FrameTakenOut) /\ dataSent' = dataSent
    BY <1>6 DEF LoraOldRxl, FramesStay, FrameTakenOut, Goto, loraVars, stiotVars,
       envVars, fateVars, hist
  <2> QED BY <1>s, <2>1 DEF FramesShift
<1>7. CASE Restart
  <2>1. FramesGone /\ dataSent' = dataSent
    BY <1>7 DEF Restart, FramesGone, loraVars, stiotVars, envVars, fateVars, hist
  <2> QED BY <1>s, <2>1 DEF FramesShift
<1>8. CASE LoraRegister \/ LoraHasKey \/ LoraGetKey \/ LoraSetCheck \/ LoraNoKey \/
           LoraOldBegin \/ LoraOldHasKey \/ LoraOldSeq \/ LoraSendAll
  <2>1. FramesStay /\ dataSent' = dataSent
    BY <1>8 DEF LoraRegister, LoraHasKey, LoraGetKey, LoraSetCheck, LoraNoKey,
       LoraOldBegin, LoraOldHasKey, LoraOldSeq, LoraSendAll, FramesStay, Goto, loraVars,
       stiotVars, envVars, fateVars, hist
  <2> QED BY <1>s, <2>1 DEF FramesShift
<1>9. CASE StiotTake \/ StiotIsMine \/ StiotKeyaSet \/ StiotKeyaSync \/ StiotKeyaNotify
           \/ StiotRegaDh \/ StiotRegaKey \/ StiotRegaSet \/ StiotTxlKey \/ StiotTxlSeq
           \/ StiotGetKey \/ StiotEncrypt \/ StiotSetSeq \/ StiotSend \/ TimerFlush \/
           Silence \/ ServerReceive \/ UNCHANGED vars
  <2>1. FramesStay /\ dataSent' = dataSent
    BY <1>9 DEF StiotTake, StiotIsMine, StiotKeyaSet, StiotKeyaSync, StiotKeyaNotify,
       StiotRegaDh, StiotRegaKey, StiotRegaSet, StiotTxlKey, StiotTxlSeq, StiotGetKey,
       StiotEncrypt, StiotSetSeq, StiotSend, TimerFlush, Silence, ServerReceive, vars,
       FramesStay, loraVars, stiotVars, envVars, fateVars, hist
  <2> QED BY <1>s, <2>1 DEF FramesShift
<1>10. ASSUME NEW d \in Device, DeviceReceive(d) \/ ServerTxl(d) PROVE Goal
  <2>1. FramesStay /\ dataSent' = dataSent
    BY <1>10 DEF DeviceReceive, ServerTxl, FramesStay, loraVars, stiotVars, envVars, fateVars,
       hist
  <2> QED BY <1>s, <2>1 DEF FramesShift
<1>11. ASSUME NEW d \in Device, DeviceRegister(d) PROVE Goal
  <2> DEFINE f == [type |-> "REGISTER_UP", dev |-> d, n |-> reg[d] + 1, key |-> NullKey]
  <2>1. f \in Frame /\ f.type # "DATA_UP"
    BY KeyTypes DEF Frame, TypeOK
  <2>2. AddBulk(f) /\ oldData' = oldData /\ inVector' = inVector /\ dataSent' = dataSent
    BY <1>11 DEF DeviceRegister, loraVars
  <2> HIDE DEF f
  <2>3. FrameReceived(f)
    BY <2>1, <2>2 DEF FrameReceived, AddBulk
  <2> QED BY <1>s, <2>1, <2>2, <2>3 DEF FramesShift
<1>12. ASSUME NEW d \in Device, DeviceSend(d) PROVE Goal
  <2> DEFINE f == [type |-> "DATA_UP", dev |-> d, n |-> dataSent[d] + 1, key |-> devKey[d]]
  <2>1. f \in Frame /\ f.dev = d /\ f.n = dataSent[d] + 1
    BY <1>t DEF Frame, TypeOK
  <2>2. /\ AddBulk(f) /\ oldData' = oldData /\ inVector' = inVector
        /\ dataSent' = [dataSent EXCEPT ![d] = @ + 1]
    BY <1>12 DEF DeviceSend, loraVars
  <2> HIDE DEF f
  <2>3. dataSent'[d] = dataSent[d] + 1 /\ Grows
    BY <1>t, <2>2
  <2>4. FrameReceived(f)
    BY <2>1, <2>2, <2>3 DEF FrameReceived, AddBulk
  <2> QED BY <2>1, <2>3, <2>4 DEF FramesShift
<1> HIDE DEF Grows
<1> QED BY <1>1, <1>2, <1>3, <1>4, <1>5, <1>6, <1>7, <1>8, <1>9, <1>10, <1>11, <1>12 DEF Next,
   LoraStep, LoraPass, StiotStep, Environment

(* The same, place by place.                                               *)
ShiftedDown ==
  /\ Len(inVector) >= 1 /\ Len(inVector') = Len(inVector) - 1
  /\ \A i \in 1..Len(inVector') : inVector'[i] = inVector[i + 1]
CachedLast ==
  /\ Len(oldData') = Len(oldData) + 1 /\ oldData'[Len(oldData) + 1] = inVector[1]
  /\ \A i \in 1..Len(oldData) : oldData'[i] = oldData[i]
ClosedUp ==
  /\ historyIterator \in 1..Len(oldData) /\ Len(oldData') = Len(oldData) - 1
  /\ \A i \in 1..Len(oldData') :
       oldData'[i] = IF i < historyIterator THEN oldData[i] ELSE oldData[i + 1]
QueuedLast(f) ==
  /\ Len(fromLoraData') = Len(fromLoraData) + 1 /\ fromLoraData'[Len(fromLoraData) + 1] = f
  /\ \A i \in 1..Len(fromLoraData) : fromLoraData'[i] = fromLoraData[i]

(* The same, position by position.                                         *)
LEMMA FramesPlaceByPlace ==
  ASSUME TypeOK, InHand
  PROVE  /\ Len(oldData) \in Nat /\ Len(inVector) \in Nat /\ Len(fromLoraData) \in Nat
         /\ \A i \in 1..Len(oldData) : oldData[i] \in Frame
         /\ \A i \in 1..Len(inVector) : inVector[i] \in Frame
         /\ \A i \in 1..Len(fromLoraData) : fromLoraData[i] \in Frame
         /\ FramesDrained => Len(inVector) = 0 /\ Len(fromLoraData') = 0
         /\ FrameDropped => ShiftedDown
         /\ FrameCached => ShiftedDown /\ CachedLast
         /\ FrameTakenOut => ClosedUp
         /\ \A f \in Frame : FrameReceived(f) => QueuedLast(f) /\ Len(inVector) = 0
         /\ FramesGone => Len(oldData') = 0 /\ Len(inVector') = 0 /\ Len(fromLoraData') = 0
<1>t. /\ oldData \in Seq(Frame) /\ inVector \in Seq(Frame) /\ fromLoraData \in Seq(Frame)
      /\ historyIterator \in Nat \ {0}
  BY DEF TypeOK
<1>l. Len(oldData) \in Nat /\ Len(inVector) \in Nat /\ Len(fromLoraData) \in Nat
  BY <1>t
<1>e. /\ \A i \in 1..Len(oldData) : oldData[i] \in Frame
      /\ \A i \in 1..Len(inVector) : inVector[i] \in Frame
      /\ \A i \in 1..Len(fromLoraData) : fromLoraData[i] \in Frame
  BY <1>t, ElementOfSeq
<1>w. loraPc = "wait" => Len(inVector) = 0
  BY DEF InHand
<1>1. FramesDrained => Len(inVector) = 0 /\ Len(fromLoraData') = 0
  BY <1>w DEF FramesDrained
<1>2. ASSUME FrameDropped \/ FrameCached PROVE ShiftedDown
  <2>1. inVector' = Tail(inVector) /\ loraPc \in HasFrame
    BY <1>2 DEF FrameDropped, FrameCached, HasFrame
  <2>2. /\ Len(inVector) \in Nat \ {0} /\ Len(Tail(inVector)) = Len(inVector) - 1
        /\ \A i \in 1..(Len(inVector) - 1) : Tail(inVector)[i] = inVector[i + 1]
    BY <2>1, CurProperties
  <2> DEFINE tl == Tail(inVector)
  <2>3. Len(inVector') = Len(inVector) - 1
        /\ \A i \in 1..(Len(inVector) - 1) : inVector'[i] = inVector[i + 1]
    BY <2>1, <2>2
  <2> QED BY <2>2, <2>3 DEF ShiftedDown
<1>3. ASSUME FrameCached PROVE CachedLast
  <2>1. cur \in Frame /\ cur = inVector[1] /\ oldData' = Append(oldData, cur)
    BY <1>3, CurProperties DEF FrameCached, HasFrame
  <2>2. /\ Len(oldData') = Len(oldData) + 1
        /\ \A i \in 1..Len(oldData) : oldData'[i] = oldData[i]
        /\ oldData'[Len(oldData) + 1] = cur
    BY <1>t, <2>1, AppendProperties
  <2> QED BY <2>1, <2>2 DEF CachedLast
<1>4. ASSUME FrameTakenOut PROVE ClosedUp
  <2>1. historyIterator \in 1..Len(oldData)
    BY <1>4, OldProperties DEF FrameTakenOut, OldPc
  <2> DEFINE e == EraseAt(oldData, historyIterator)
  <2>2. /\ Len(e) = Len(oldData) - 1
        /\ \A j \in 1..(Len(oldData) - 1) :
             e[j] = IF j < historyIterator THEN oldData[j] ELSE oldData[j + 1]
    BY <1>t, <2>1, EraseAtProperties
  <2>3. oldData' = e
    BY <1>4 DEF FrameTakenOut
  <2> HIDE DEF e
  <2> QED BY <2>1, <2>2, <2>3 DEF ClosedUp
<1>5. ASSUME NEW f \in Frame, FrameReceived(f) PROVE QueuedLast(f) /\ Len(inVector) = 0
  <2>1. fromLoraData' = Append(fromLoraData, f) /\ loraPc = "wait"
    BY <1>5 DEF FrameReceived
  <2>2. /\ Len(fromLoraData') = Len(fromLoraData) + 1
        /\ \A i \in 1..Len(fromLoraData) : fromLoraData'[i] = fromLoraData[i]
        /\ fromLoraData'[Len(fromLoraData) + 1] = f
    BY <1>t, <2>1, AppendProperties
  <2> QED BY <1>w, <2>1, <2>2 DEF QueuedLast
<1>6. FramesGone => Len(oldData') = 0 /\ Len(inVector') = 0 /\ Len(fromLoraData') = 0
  BY DEF FramesGone
<1> QED BY <1>l, <1>e, <1>1, <1>2, <1>3, <1>4, <1>5, <1>6

NumberedNext(f) == f.type = "DATA_UP" => f.n \in 1..dataSent'[f.dev]

(* FrameOrder is kept: no step moves a frame before an older one.          *)
LEMMA FrameOrderStep ==
  ASSUME TypeOK, TypeOK', InHand, FrameOrder, [Next]_vars
  PROVE  FrameOrder'
<1>t. /\ Len(oldData) \in Nat /\ Len(inVector) \in Nat /\ Len(fromLoraData) \in Nat
      /\ \A i \in 1..Len(oldData) : oldData[i] \in Frame
      /\ \A i \in 1..Len(inVector) : inVector[i] \in Frame
      /\ \A i \in 1..Len(fromLoraData) : fromLoraData[i] \in Frame
  BY FramesPlaceByPlace
<1>d. dataSent \in [Device -> Nat] /\ dataSent' \in [Device -> Nat]
  BY DEF TypeOK
<1> USE DEF Ordered, Before
<1>n. \A f \in Frame : Numbered(f) => NumberedNext(f)
  <2>1. \A e \in Device : dataSent[e] <= dataSent'[e]
    BY FramesShiftStep
  <2> QED BY <1>d, <2>1 DEF Numbered, NumberedNext, Frame
<1>o. /\ Ordered(fromLoraData) /\ Ordered(inVector) /\ Ordered(oldData)
      /\ Before(oldData, inVector) /\ Before(oldData, fromLoraData)
      /\ Before(inVector, fromLoraData)
      /\ \A i \in 1..Len(fromLoraData) : NumberedNext(fromLoraData[i])
      /\ \A i \in 1..Len(inVector) : NumberedNext(inVector[i])
      /\ \A i \in 1..Len(oldData) : NumberedNext(oldData[i])
  BY <1>t, <1>n DEF FrameOrder
<1> DEFINE O == Ordered(fromLoraData') /\ Ordered(inVector') /\ Ordered(oldData')
           B == /\ Before(oldData', inVector') /\ Before(oldData', fromLoraData')
                /\ Before(inVector', fromLoraData')
           N == /\ \A i \in 1..Len(fromLoraData') : NumberedNext(fromLoraData'[i])
                /\ \A i \in 1..Len(inVector') : NumberedNext(inVector'[i])
                /\ \A i \in 1..Len(oldData') : NumberedNext(oldData'[i])
           Goal == O /\ B /\ N
<1>g. Goal => FrameOrder'
  BY DEF FrameOrder, Numbered, NumberedNext
<1> SUFFICES Goal
  BY <1>g
<1>1. CASE FramesStay
  BY <1>1, <1>o DEF FramesStay
<1>2. CASE FramesDrained
  <2>1. Len(fromLoraData') = 0 /\ oldData' = oldData /\ inVector' = fromLoraData
    BY <1>2, FramesPlaceByPlace DEF FramesDrained
  <2>2. O
    BY <1>o, <2>1
  <2>3. B
    BY <1>o, <2>1
  <2>4. N
    BY <1>o, <2>1
  <2> QED BY <2>2, <2>3, <2>4
<1>3. CASE FrameDropped \/ FrameCached
  <2>1. ShiftedDown /\ fromLoraData' = fromLoraData
    BY <1>3, FramesPlaceByPlace DEF FrameDropped, FrameCached
  <2>2. \A i \in 1..Len(inVector') : i + 1 \in 1..Len(inVector) /\ inVector'[i] = inVector[i + 1]
    BY <1>t, <2>1 DEF ShiftedDown
  <2>3. \A i, j \in 1..Len(inVector') : i < j => Later(inVector'[i], inVector'[j])
    <3>1. \A i, j \in 1..Len(inVector') : i < j => i + 1 < j + 1
      BY <1>t, <2>1 DEF ShiftedDown
    <3> QED BY <1>o, <2>2, <3>1
  <2>4. Before(inVector', fromLoraData')
    BY <1>o, <2>1, <2>2
  <2>5. \A i \in 1..Len(inVector') : NumberedNext(inVector'[i])
    BY <1>o, <2>2
  <2>6. \A i \in 1..Len(fromLoraData') : NumberedNext(fromLoraData'[i])
    BY <1>o, <2>1
  <2>7. Ordered(fromLoraData')
    BY <1>o, <2>1
  <2>8. CASE FrameDropped
    <3>1. oldData' = oldData
      BY <2>8 DEF FrameDropped
    <3>2. Before(oldData', inVector') /\ Before(oldData', fromLoraData')
      BY <1>o, <2>1, <2>2, <3>1
    <3>3. Ordered(oldData') /\ \A i \in 1..Len(oldData') : NumberedNext(oldData'[i])
      BY <1>o, <3>1
    <3> QED BY <2>3, <2>4, <2>5, <2>6, <2>7, <3>2, <3>3
  <2>9. CASE FrameCached
    <3>1. CachedLast
      BY <2>9, FramesPlaceByPlace
    <3>2. 1 \in 1..Len(inVector)
      BY <1>t, <2>1 DEF ShiftedDown
    <3>3. \A i \in 1..Len(oldData') :
            \/ i \in 1..Len(oldData) /\ oldData'[i] = oldData[i]
            \/ i = Len(oldData) + 1 /\ oldData'[i] = inVector[1]
      <4>1. \A n \in Nat : \A i \in 1..(n + 1) : i \in 1..n \/ i = n + 1
        OBVIOUS
      <4> QED BY <1>t, <3>1, <4>1 DEF CachedLast
    <3>4. Ordered(oldData')
      BY <1>o, <1>t, <3>2, <3>3
    <3>5. Before(oldData', fromLoraData')
      BY <1>o, <2>1, <3>2, <3>3
    <3>6. Before(oldData', inVector')
      <4>1. \A j \in 1..Len(inVector') : 1 < j + 1
        BY <1>t, <2>1 DEF ShiftedDown
      <4> QED BY <1>o, <2>2, <3>2, <3>3, <4>1
    <3>7. \A i \in 1..Len(oldData') : NumberedNext(oldData'[i])
      BY <1>o, <3>2, <3>3
    <3> QED BY <2>3, <2>4, <2>5, <2>6, <2>7, <3>4, <3>5, <3>6, <3>7
  <2> QED BY <1>3, <2>8, <2>9
<1>5. CASE FrameTakenOut
  <2>1. ClosedUp /\ inVector' = inVector /\ fromLoraData' = fromLoraData
    BY <1>5, FramesPlaceByPlace DEF FrameTakenOut
  <2>c. ClosedUp
    BY <2>1
  <2> DEFINE from(i) == IF i < historyIterator THEN i ELSE i + 1
  <2>f. /\ \A i \in 1..Len(oldData') : from(i) \in 1..Len(oldData)
        /\ \A i, j \in 1..Len(oldData') : i < j => from(i) < from(j)
    BY <1>t, <2>c DEF ClosedUp
  <2>g. \A i \in 1..Len(oldData') : oldData'[i] = oldData[from(i)]
    BY <2>c DEF ClosedUp
  <2> HIDE DEF from
  <2>2. Ordered(oldData')
    BY <1>o, <2>f, <2>g
  <2>3. Before(oldData', inVector') /\ Before(oldData', fromLoraData')
    BY <1>o, <2>1, <2>f, <2>g
  <2>4. \A i \in 1..Len(oldData') : NumberedNext(oldData'[i])
    BY <1>o, <1>t, <2>1 DEF ClosedUp
  <2>5. Ordered(inVector') /\ Ordered(fromLoraData') /\ Before(inVector', fromLoraData')
    BY <1>o, <2>1
  <2>6. /\ \A i \in 1..Len(inVector') : NumberedNext(inVector'[i])
        /\ \A i \in 1..Len(fromLoraData') : NumberedNext(fromLoraData'[i])
    BY <1>o, <2>1
  <2> QED BY <2>2, <2>3, <2>4, <2>5, <2>6
<1>6. ASSUME NEW f \in Frame, FrameReceived(f) PROVE Goal
  <2>1. /\ QueuedLast(f) /\ Len(inVector) = 0 /\ oldData' = oldData /\ inVector' = inVector
        /\ f.type = "DATA_UP" => f.n = dataSent[f.dev] + 1 /\ dataSent'[f.dev] = f.n
    BY <1>6, FramesPlaceByPlace DEF FrameReceived
  <2>2. NumberedNext(f)
    <3>1. f.dev \in Device /\ f.n \in Nat
      BY DEF Frame
    <3> QED BY <1>d, <2>1, <3>1 DEF NumberedNext
  <2>3. ASSUME NEW g \in Frame, Numbered(g) PROVE Later(g, f)
    BY <1>d, <2>1, <2>3 DEF Later, Numbered, Frame
  <2>4. /\ \A i \in 1..Len(fromLoraData) : Numbered(fromLoraData[i])
        /\ \A i \in 1..Len(oldData) : Numbered(oldData[i])
    BY DEF FrameOrder
  <2>5. Ordered(fromLoraData')
    BY <1>o, <1>t, <2>1, <2>3, <2>4 DEF QueuedLast
  <2>6. Before(oldData', fromLoraData') /\ Before(inVector', fromLoraData')
    BY <1>o, <1>t, <2>1, <2>3, <2>4 DEF QueuedLast
  <2>7. \A i \in 1..Len(fromLoraData') : NumberedNext(fromLoraData'[i])
    BY <1>o, <1>t, <2>1, <2>2 DEF QueuedLast
  <2>8. Ordered(oldData') /\ Ordered(inVector') /\ Before(oldData', inVector')
    BY <1>o, <2>1
  <2>9. /\ \A i \in 1..Len(inVector') : NumberedNext(inVector'[i])
        /\ \A i \in 1..Len(oldData') : NumberedNext(oldData'[i])
    BY <1>o, <2>1
  <2> QED BY <2>5, <2>6, <2>7, <2>8, <2>9
<1>7. CASE FramesGone
  <2>1. Len(oldData') = 0 /\ Len(inVector') = 0 /\ Len(fromLoraData') = 0
    BY <1>7, FramesPlaceByPlace
  <2> QED BY <2>1
<1> HIDE DEF Goal
<1>8. FramesShift
  BY FramesShiftStep
<1> QED BY <1>1, <1>2, <1>3, <1>5, <1>6, <1>7, <1>8 DEF FramesShift

(* What a step leaves of the frames that are still to be read: they are    *)
(* above what has been read, but for the one that is just being read.      *)
AboveNext(f) == f.type = "DATA_UP" => verified'[f.dev] < f.n
FineNext(f)  == f.dev \notin overtaken' => AboveNext(f)
StillAbove ==
  /\ \A i \in 1..Len(fromLoraData) : AboveNext(fromLoraData[i])
  /\ \A i \in 1..Len(inVector) :
       AboveNext(inVector[i]) \/ (i = 1 /\ (loraPc \in {"hasCheck", "check", "keys"} \/ LoraUpdate))
  /\ \A i \in 1..Len(oldData) :
       FineNext(oldData[i]) \/ (i = historyIterator /\ (loraPc = "oldCheck" \/ LoraOldSeq))

(* A frame above what has been read stays above, unless it is read itself  *)
(* or its device is noted as overtaken.                                    *)
LEMMA StillAboveStep ==
  ASSUME TypeOK, TypeOK', InHand, FrameOrder, VerifiedBelow, [Next]_vars
  PROVE  StillAbove
<1>t. /\ Len(oldData) \in Nat /\ Len(inVector) \in Nat /\ Len(fromLoraData) \in Nat
      /\ \A i \in 1..Len(oldData) : oldData[i] \in Frame
      /\ \A i \in 1..Len(inVector) : inVector[i] \in Frame
      /\ \A i \in 1..Len(fromLoraData) : fromLoraData[i] \in Frame
  BY FramesPlaceByPlace
<1>f. \A f \in Frame : f.dev \in Device /\ f.n \in Nat
  BY DEF Frame
<1>v. /\ verified \in [Device -> Nat] /\ verified' \in [Device -> Nat]
      /\ dataSent \in [Device -> Nat]
  BY DEF TypeOK
<1>a. /\ \A i \in 1..Len(fromLoraData) : Above(fromLoraData[i]) /\ Numbered(fromLoraData[i])
      /\ \A i \in 1..Len(inVector) :
           /\ Numbered(inVector[i])
           /\ Above(inVector[i]) \/ (i = 1 /\ loraPc \in {"hasCheck", "check", "keys"})
      /\ \A i \in 1..Len(oldData) :
           /\ Numbered(oldData[i])
           /\ \/ oldData[i].dev \notin overtaken => Above(oldData[i])
              \/ i = historyIterator /\ loraPc = "oldCheck"
  BY DEF VerifiedBelow, FrameOrder
<1>1. ASSUME ~LoraUpdate, ~LoraOldSeq PROVE StillAbove
  <2>1. \A e \in Device : NumbersKept(e) \/ NumbersForgotten(e) \/ NumbersWritten(e)
    BY <1>1, NumberSteps
  <2>2. \A f \in Frame : Above(f) /\ Numbered(f) => AboveNext(f)
    BY <1>f, <1>v, <2>1
       DEF Above, Numbered, AboveNext, NumbersKept, NumbersForgotten, NumbersWritten
  <2>3. \A f \in Frame : (f.dev \notin overtaken => Above(f)) /\ Numbered(f) => FineNext(f)
    BY <1>f, <1>v, <2>1
       DEF Above, Numbered, AboveNext, FineNext, NumbersKept, NumbersForgotten, NumbersWritten
  <2> QED BY <1>t, <1>a, <2>2, <2>3 DEF StillAbove
<1>2. ASSUME NEW r \in Frame, r.type = "DATA_UP", NEW f \in Frame, Above(f), Later(r, f),
             \A e \in Device : IF e = r.dev THEN NumbersRead(e, r.n) ELSE NumbersKept(e)
      PROVE  AboveNext(f)
  BY <1>2, <1>f, <1>v DEF Above, AboveNext, Later, NumbersRead, NumbersKept
<1>3. CASE LoraUpdate
  <2>1. /\ cur \in Frame /\ cur = inVector[1] /\ cur.type = "DATA_UP" /\ Len(inVector) >= 1
        /\ loraPc = "update"
    BY <1>3, CurProperties DEF LoraUpdate, HasFrame, InHand
  <2>2. \A e \in Device :
          IF e = cur.dev THEN NumbersRead(e, cur.n) /\ (Cached(e) => e \in overtaken')
                         ELSE NumbersKept(e)
    BY <1>3, NumberSteps
  <2>3. \A f \in Frame : Above(f) /\ Later(cur, f) => AboveNext(f)
    BY <1>2, <2>1, <2>2
  <2>4. \A i \in 1..Len(fromLoraData) : AboveNext(fromLoraData[i])
    <3>1. \A i \in 1..Len(fromLoraData) : Later(inVector[1], fromLoraData[i])
      BY <1>t, <2>1 DEF FrameOrder, Before
    <3> QED BY <1>t, <1>a, <2>1, <2>3, <3>1
  <2>5. \A i \in 1..Len(inVector) : i # 1 => AboveNext(inVector[i])
    <3>1. \A i \in 1..Len(inVector) : i # 1 => Later(inVector[1], inVector[i])
      BY <1>t, <2>1 DEF FrameOrder, Ordered
    <3> QED BY <1>t, <1>a, <2>1, <2>3, <3>1
  <2>6. ASSUME NEW i \in 1..Len(oldData) PROVE FineNext(oldData[i])
    <3> DEFINE f == oldData[i]
    <3>1. f \in Frame /\ f.dev \in Device /\ (f.dev \notin overtaken => Above(f))
      BY <1>t, <1>a, <1>f, <2>1
    <3>2. CASE f.dev = cur.dev
      <4>1. Cached(f.dev)
        BY <1>t DEF Cached, CachedBefore
      <4> QED BY <2>2, <3>1, <3>2, <4>1 DEF FineNext
    <3>3. CASE f.dev # cur.dev
      <4>1. NumbersKept(f.dev)
        BY <2>2, <3>1, <3>3
      <4> QED BY <3>1, <4>1 DEF FineNext, AboveNext, Above, NumbersKept
    <3> QED BY <3>2, <3>3
  <2> QED BY <1>3, <2>4, <2>5, <2>6 DEF StillAbove
<1>4. CASE LoraOldSeq
  <2>1. /\ old \in Frame /\ old.type = "DATA_UP" /\ historyIterator \in 1..Len(oldData)
        /\ old = oldData[historyIterator] /\ loraPc = "oldSeq"
    BY <1>4, OldProperties DEF LoraOldSeq, OldPc, DataFrame, old
  <2>2. \A e \in Device :
          IF e = old.dev
          THEN /\ NumbersRead(e, old.n)
               /\ e \in overtaken \/ CachedBefore(e, historyIterator) => e \in overtaken'
          ELSE NumbersKept(e)
    BY <1>4, NumberSteps
  <2>3. \A f \in Frame : Above(f) /\ Later(old, f) => AboveNext(f)
    BY <1>2, <2>1, <2>2
  <2>4. \A i \in 1..Len(fromLoraData) : AboveNext(fromLoraData[i])
    <3>1. \A i \in 1..Len(fromLoraData) : Later(old, fromLoraData[i])
      BY <1>t, <2>1 DEF FrameOrder, Before
    <3> QED BY <1>t, <1>a, <2>3, <3>1
  <2>5. \A i \in 1..Len(inVector) : AboveNext(inVector[i])
    <3>1. Len(inVector) = 0
      BY <2>1 DEF InHand, OldPc
    <3> QED BY <3>1
  <2>6. ASSUME NEW i \in 1..Len(oldData), i # historyIterator PROVE FineNext(oldData[i])
    <3> DEFINE f == oldData[i]
    <3>1. f \in Frame /\ f.dev \in Device /\ (f.dev \notin overtaken => Above(f))
      BY <1>t, <1>a, <1>f, <2>1
    <3>2. CASE f.dev = old.dev /\ i < historyIterator
      <4>1. CachedBefore(f.dev, historyIterator)
        BY <1>t, <2>1, <3>2 DEF CachedBefore
      <4> QED BY <2>2, <3>1, <3>2, <4>1 DEF FineNext
    <3>3. CASE f.dev = old.dev /\ historyIterator < i
      <4>1. Later(old, f)
        BY <2>1, <3>3 DEF FrameOrder, Ordered
      <4> QED BY <2>2, <2>3, <3>1, <3>3, <4>1 DEF FineNext
    <3>4. CASE f.dev # old.dev
      <4>1. NumbersKept(f.dev)
        BY <2>2, <3>1, <3>4
      <4> QED BY <3>1, <4>1 DEF FineNext, AboveNext, Above, NumbersKept
    <3> QED BY <1>t, <2>1, <2>6, <3>2, <3>3, <3>4
  <2> QED BY <1>4, <2>4, <2>5, <2>6 DEF StillAbove
<1> QED BY <1>1, <1>3, <1>4

(* VerifiedBelow is kept by every step.                                    *)
LEMMA VerifiedBelowStep ==
  ASSUME TypeOK, TypeOK', InHand, FrameOrder, VerifiedBelow, [Next]_vars
  PROVE  VerifiedBelow'
<1>t. /\ Len(oldData) \in Nat /\ Len(inVector) \in Nat /\ Len(fromLoraData) \in Nat
      /\ \A i \in 1..Len(oldData) : oldData[i] \in Frame
      /\ \A i \in 1..Len(inVector) : inVector[i] \in Frame
      /\ \A i \in 1..Len(fromLoraData) : fromLoraData[i] \in Frame
  BY FramesPlaceByPlace
<1>f. \A f \in Frame : f.dev \in Device /\ f.n \in Nat
  BY DEF Frame
<1>v. /\ verified \in [Device -> Nat] /\ verified' \in [Device -> Nat]
      /\ dataSent \in [Device -> Nat] /\ dataSent' \in [Device -> Nat]
  BY DEF TypeOK
<1>s. StillAbove
  BY StillAboveStep
<1> DEFINE C == \A i \in 1..Len(fromLoraData') : AboveNext(fromLoraData'[i])
           B == \A i \in 1..Len(inVector') :
                  AboveNext(inVector'[i]) \/ (i = 1 /\ loraPc' \in {"hasCheck", "check", "keys"})
           A == \A i \in 1..Len(oldData') :
                  FineNext(oldData'[i]) \/ (i = historyIterator' /\ loraPc' = "oldCheck")
           D == \A e \in Device : /\ verified'[e] <= dataSent'[e]
                                  /\ ~isInTable(map', e) => verified'[e] = 0
<1>g. A /\ B /\ C /\ D => VerifiedBelow'
  BY DEF VerifiedBelow, Above, AboveNext, FineNext, isInTable
(* The devices.                                                            *)
<1>d. D
  <2> SUFFICES ASSUME NEW e \in Device
               PROVE  verified'[e] <= dataSent'[e] /\ (~isInTable(map', e) => verified'[e] = 0)
    OBVIOUS
  <2>1. /\ dataSent[e] <= dataSent'[e] /\ verified[e] <= dataSent[e]
        /\ ~isInTable(map, e) => verified[e] = 0
    BY FramesShiftStep DEF VerifiedBelow
  <2>2. ASSUME NEW n \in Nat, n <= dataSent[e], NumbersRead(e, n)
        PROVE  verified'[e] <= dataSent'[e] /\ (~isInTable(map', e) => verified'[e] = 0)
    BY <1>v, <2>1, <2>2 DEF NumbersRead
  <2>3. CASE NumbersKept(e) \/ NumbersForgotten(e) \/ NumbersWritten(e)
    BY <1>v, <2>1, <2>3 DEF NumbersKept, NumbersForgotten, NumbersWritten
  <2>4. ASSUME LoraUpdate, e = cur.dev
        PROVE  cur.n \in Nat /\ cur.n <= dataSent[e] /\ NumbersRead(e, cur.n)
    <3>1. loraPc = "update" /\ cur.type = "DATA_UP"
      BY <2>4 DEF LoraUpdate, InHand, HasFrame
    <3>2. cur \in Frame /\ cur = inVector[1] /\ 1 \in 1..Len(inVector)
      BY <3>1, CurProperties DEF HasFrame
    <3>3. Numbered(cur)
      BY <3>2 DEF FrameOrder
    <3> QED BY <1>f, <1>v, <2>4, <3>1, <3>2, <3>3, NumberSteps DEF Numbered
  <2>5. ASSUME LoraOldSeq, e = old.dev
        PROVE  old.n \in Nat /\ old.n <= dataSent[e] /\ NumbersRead(e, old.n)
    <3>1. old \in Frame /\ old.type = "DATA_UP" /\ historyIterator \in 1..Len(oldData)
      BY <2>5, OldProperties DEF LoraOldSeq, OldPc, DataFrame
    <3>2. Numbered(old)
      BY <3>1 DEF FrameOrder, old
    <3> QED BY <1>f, <1>v, <2>5, <3>1, <3>2, NumberSteps DEF Numbered
  <2>6. CASE LoraUpdate
    BY <2>2, <2>3, <2>4, <2>6, NumberSteps
  <2>7. CASE LoraOldSeq
    BY <2>2, <2>3, <2>5, <2>7, NumberSteps
  <2>8. CASE ~LoraUpdate /\ ~LoraOldSeq
    BY <2>3, <2>8, NumberSteps
  <2> QED BY <2>6, <2>7, <2>8
(* The frames.                                                             *)
<1> DEFINE Goal == A /\ B /\ C
<1> SUFFICES Goal
  BY <1>d, <1>g
<1>u. LoraUpdate => /\ loraPc = "update" /\ oldData' = oldData /\ fromLoraData' = fromLoraData
                    /\ inVector' = inVector /\ loraPc' = "hasCheck"
  BY DEF LoraUpdate, Goto
<1>o. LoraOldSeq => /\ loraPc = "oldSeq" /\ loraPc' = "oldCheck" /\ oldData' = oldData
                    /\ inVector' = inVector /\ fromLoraData' = fromLoraData
                    /\ historyIterator' = historyIterator
  BY DEF LoraOldSeq, Goto
<1>1. CASE LoraOldSeq
  <2>1. C /\ B
    BY <1>1, <1>o, <1>s, <1>u DEF StillAbove
  <2>2. A
    BY <1>1, <1>o, <1>s DEF StillAbove
  <2> QED BY <2>1, <2>2
<1>2. CASE LoraUpdate
  <2>1. C /\ B
    BY <1>2, <1>u, <1>s DEF StillAbove
  <2>2. A
    BY <1>2, <1>o, <1>u, <1>s DEF StillAbove
  <2> QED BY <2>1, <2>2
<1>3. CASE FramesStay /\ ~LoraUpdate /\ ~LoraOldSeq
  <2>1. C /\ B
    BY <1>3, <1>s DEF StillAbove, FramesStay
  <2>2. A
    BY <1>3, <1>s DEF StillAbove, FramesStay
  <2> QED BY <2>1, <2>2
<1>4. CASE FramesDrained
  <2>1. Len(fromLoraData') = 0 /\ oldData' = oldData /\ inVector' = fromLoraData /\ loraPc = "wait"
    BY <1>4, FramesPlaceByPlace DEF FramesDrained
  <2>2. C /\ B
    BY <1>s, <2>1 DEF StillAbove
  <2>3. A
    BY <1>o, <1>s, <2>1 DEF StillAbove
  <2> QED BY <2>2, <2>3
<1>5. CASE FrameDropped \/ FrameCached
  <2>1. ShiftedDown /\ fromLoraData' = fromLoraData /\ loraPc \in HasFrame
    BY <1>5, FramesPlaceByPlace DEF FrameDropped, FrameCached, HasFrame
  <2>2. \A i \in 1..Len(inVector') :
          i + 1 \in 1..Len(inVector) /\ i + 1 # 1 /\ inVector'[i] = inVector[i + 1]
    BY <1>t, <2>1 DEF ShiftedDown
  <2>3. C /\ B
    BY <1>s, <2>1, <2>2 DEF StillAbove
  <2>4. \A i \in 1..Len(oldData) : FineNext(oldData[i])
    BY <1>o, <1>s, <2>1 DEF StillAbove, HasFrame
  <2>5. CASE FrameDropped
    BY <2>3, <2>4, <2>5 DEF FrameDropped
  <2>6. CASE FrameCached
    <3>1. CachedLast /\ loraPc = "keyr"
      BY <2>6, FramesPlaceByPlace DEF FrameCached
    <3>2. FineNext(inVector[1])
      <4>1. 1 \in 1..Len(inVector)
        BY <1>t, <2>1 DEF ShiftedDown
      <4> QED BY <1>s, <1>u, <3>1, <4>1 DEF StillAbove, FineNext
    <3>3. \A i \in 1..Len(oldData') :
            \/ i \in 1..Len(oldData) /\ oldData'[i] = oldData[i]
            \/ i = Len(oldData) + 1 /\ oldData'[i] = inVector[1]
      <4>1. \A n \in Nat : \A i \in 1..(n + 1) : i \in 1..n \/ i = n + 1
        OBVIOUS
      <4> QED BY <1>t, <3>1, <4>1 DEF CachedLast
    <3> QED BY <2>3, <2>4, <3>2, <3>3
  <2> QED BY <1>5, <2>5, <2>6
<1>6. CASE FrameTakenOut
  <2>1. ClosedUp /\ inVector' = inVector /\ fromLoraData' = fromLoraData
        /\ loraPc \in {"oldRxl", "oldCheck"}
    BY <1>6, FramesPlaceByPlace DEF FrameTakenOut
  <2>2. C /\ B
    BY <1>s, <1>u, <2>1 DEF StillAbove
  <2>3. \A i \in 1..Len(oldData') :
          \E k \in 1..Len(oldData) : k # historyIterator /\ oldData'[i] = oldData[k]
    BY <1>t, <2>1 DEF ClosedUp
  <2>4. A
    BY <1>s, <2>3 DEF StillAbove
  <2> QED BY <2>2, <2>4
<1>7. ASSUME NEW f \in Frame, FrameReceived(f) PROVE Goal
  <2>1. /\ QueuedLast(f) /\ Len(inVector) = 0 /\ oldData' = oldData /\ inVector' = inVector
        /\ loraPc = "wait" /\ (f.type = "DATA_UP" => f.n = dataSent[f.dev] + 1)
    BY <1>7, FramesPlaceByPlace DEF FrameReceived
  <2>2. AboveNext(f)
    <3>1. \A e \in Device : verified'[e] <= verified[e] /\ verified[e] <= dataSent[e]
      <4>1. ~LoraUpdate /\ ~LoraOldSeq
        BY <1>o, <1>u, <2>1
      <4>2. \A e \in Device : NumbersKept(e) \/ NumbersForgotten(e) \/ NumbersWritten(e)
        BY <4>1, NumberSteps
      <4>3. \A e \in Device : verified'[e] = verified[e] \/ verified'[e] = 0
        BY <4>2 DEF NumbersKept, NumbersForgotten, NumbersWritten
      <4>4. \A e \in Device : verified[e] <= dataSent[e]
        BY DEF VerifiedBelow
      <4>5. \A e \in Device : verified[e] \in Nat
        BY <1>v
      <4> QED BY <4>3, <4>4, <4>5
    <3> QED BY <1>f, <1>v, <2>1, <3>1 DEF AboveNext
  <2>3. C
    <3>1. \A n \in Nat : \A i \in 1..(n + 1) : i \in 1..n \/ i = n + 1
      OBVIOUS
    <3> QED BY <1>s, <1>t, <2>1, <2>2, <3>1 DEF StillAbove, QueuedLast
  <2>4. A
    BY <1>o, <1>s, <2>1 DEF StillAbove
  <2>5. B
    BY <2>1
  <2> QED BY <2>3, <2>4, <2>5
<1>8. CASE FramesGone
  <2>1. Len(oldData') = 0 /\ Len(inVector') = 0 /\ Len(fromLoraData') = 0
    BY <1>8, FramesPlaceByPlace
  <2> QED BY <2>1
<1> HIDE DEF Goal
<1>9. FramesShift
  BY FramesShiftStep
<1> QED BY <1>1, <1>2, <1>3, <1>4, <1>5, <1>6, <1>7, <1>8, <1>9 DEF FramesShift

(* The number in fromStiot's hand: between getSeq and setSeq it stays as   *)
(* it was read, and what fromLora reads meanwhile is noted.                *)
LEMMA NumberInHandStep ==
  ASSUME TypeOK, InHand, StiotPointer, NumberInHand, SeqNotBehind, [Next]_vars
  PROVE  NumberInHand'
<1>t. /\ verified \in [Device -> Nat] /\ in.dev \in Device /\ seqNum \in Nat
      /\ overtaken \subseteq Device
  BY DEF TypeOK, Message
<1> DEFINE Num   == {"get", "encrypt", "setSeq"}
           Low(s) == IF in.type = "REGA" THEN 0 ELSE s
           Goal  == stiotPc' \in Num /\ in'.dev \notin overtaken' =>
                      verified'[in'.dev] <= IF in'.type = "REGA" THEN 0 ELSE seqNum'
<1>g. Goal => NumberInHand'
  BY DEF NumberInHand, Numbering
<1>h. stiotPc \in Num /\ in.dev \notin overtaken => verified[in.dev] <= Low(seqNum)
  BY DEF NumberInHand, Numbering
<1> SUFFICES Goal
  BY <1>g
(* A step that leaves fromStiot's hand alone.                              *)
<1>1. ASSUME stiotPc' = stiotPc, in' = in, seqNum' = seqNum PROVE Goal
  <2>1. CASE LoraUpdate \/ LoraOldSeq
    <3>1. stiotPc \in Num => Numbering(in.dev)
      BY DEF Numbering
    <3>2. \/ NumbersKept(in.dev)
          \/ Numbering(in.dev) => in.dev \in overtaken'
      <4>1. CASE LoraUpdate
        BY <1>t, <4>1, NumberSteps
      <4>2. CASE LoraOldSeq
        BY <1>t, <4>2, NumberSteps
      <4> QED BY <2>1, <4>1, <4>2
    <3> QED BY <1>1, <1>h, <3>1, <3>2 DEF NumbersKept
  <2>2. CASE ~LoraUpdate /\ ~LoraOldSeq
    <3>1. NumbersKept(in.dev) \/ NumbersForgotten(in.dev) \/ NumbersWritten(in.dev)
      BY <1>t, <2>2, NumberSteps
    <3> QED BY <1>1, <1>h, <1>t, <3>1 DEF NumbersKept, NumbersForgotten, NumbersWritten
  <2> QED BY <2>1, <2>2
<1>2. CASE StiotRegaSet
  <2>1. NumbersForgotten(in.dev) /\ in' = in /\ seqNum' = seqNum
    BY <1>2, <1>t, NumberSteps DEF StiotRegaSet
  <2> QED BY <1>t, <2>1 DEF NumbersForgotten
<1>3. CASE StiotTxlSeq
  <2>1. in' = in /\ verified' = verified /\ overtaken' = overtaken /\ seqNum' = getSeq(map, in.dev)
    BY <1>3 DEF StiotTxlSeq, hist
  <2>2. in.type = "TXL"
    BY <1>3 DEF StiotTxlSeq, StiotPointer
  <2>3. in.dev \notin overtaken => verified[in.dev] <= getSeq(map, in.dev)
    BY <1>t DEF SeqNotBehind
  <2> QED BY <2>1, <2>2, <2>3
<1>4. CASE StiotEncrypt
  <2>1. /\ in' = in /\ verified' = verified /\ overtaken' = overtaken /\ stiotPc = "encrypt"
        /\ seqNum' = seqNum \/ in.type = "REGA" \/ seqNum' = seqNum + 1
    BY <1>4 DEF StiotEncrypt, hist
  <2> QED BY <1>h, <1>t, <2>1
<1>5. CASE StiotGetKey
  <2>1. /\ in' = in /\ verified' = verified /\ overtaken' = overtaken /\ stiotPc = "get"
        /\ seqNum' = seqNum
    BY <1>5 DEF StiotGetKey, hist
  <2> QED BY <1>h, <2>1
<1>6. CASE StiotTake \/ StiotIsMine \/ StiotKeyaSet \/ StiotKeyaSync \/ StiotKeyaNotify
           \/ StiotRegaDh \/ StiotRegaKey \/ StiotTxlKey \/ StiotSetSeq \/ StiotSend \/ Restart
  <2>1. stiotPc' \notin Num
    <3>1. in.type \in {"REGA", "KEYA", "TXL"}
      BY DEF InHand, FromServer
    <3> QED BY <1>6, <3>1 DEF StiotTake, StiotIsMine, StiotKeyaSet, StiotKeyaSync,
       StiotKeyaNotify, StiotRegaDh,
       StiotRegaKey, StiotTxlKey, StiotSetSeq, StiotSend, Restart, StiotGoto, StiotDone
  <2> QED BY <2>1
<1> HIDE DEF Num, Goal
<1>7. CASE LoraWake \/ LoraRegister \/ LoraRegr \/ LoraHasKey \/ LoraGetKey \/ LoraRxl
           \/ LoraUpdate \/ LoraHasCheck \/ LoraSetCheck \/ LoraKeys \/ LoraNoKey \/ LoraMine \/
           LoraKeyr \/ LoraOldBegin \/ LoraOldHasKey \/ LoraOldRxl \/ LoraOldSeq \/
           LoraOldCheck \/ LoraSendAll
  <2>1. stiotPc' = stiotPc /\ in' = in /\ seqNum' = seqNum
    BY <1>7 DEF LoraWake, LoraRegister, LoraRegr, LoraHasKey, LoraGetKey, LoraRxl,
       LoraUpdate, LoraHasCheck, LoraSetCheck, LoraKeys, LoraNoKey, LoraMine, LoraKeyr, LoraOldBegin,
       LoraOldHasKey, LoraOldRxl, LoraOldSeq, LoraOldCheck, LoraSendAll, LoraAddDevice,
       loraVars, stiotVars, envVars, fateVars, hist
  <2> QED BY <1>1, <2>1
<1>8. CASE TimerFlush \/ Silence \/ ServerReceive \/ UNCHANGED vars
  <2>1. stiotPc' = stiotPc /\ in' = in /\ seqNum' = seqNum
    BY <1>8 DEF TimerFlush, Silence, ServerReceive, vars, LoraAddDevice, loraVars,
       stiotVars, envVars, fateVars, hist
  <2> QED BY <1>1, <2>1
<1>9. ASSUME NEW d \in Device, DeviceRegister(d) \/ DeviceSend(d) \/ DeviceReceive(d) \/ ServerTxl(d)
      PROVE  Goal
  <2>1. stiotPc' = stiotPc /\ in' = in /\ seqNum' = seqNum
    BY <1>9 DEF DeviceRegister, DeviceSend, DeviceReceive, ServerTxl, loraVars,
       stiotVars, envVars, fateVars, hist
  <2> QED BY <1>1, <2>1
<1> QED BY <1>2, <1>3, <1>4, <1>5, <1>6, <1>7, <1>8, <1>9 DEF Next, LoraStep, LoraPass,
   StiotStep,
   Environment

(* SeqNotBehind is kept, given the other parts of Numbers.                 *)
LEMMA SeqNotBehindStep ==
  ASSUME TypeOK, TypeOK', InHand, FrameOrder, VerifiedBelow, NumberInHand, SeqNotBehind, [Next]_vars
  PROVE  SeqNotBehind'
<1>t. /\ verified \in [Device -> Nat] /\ in.dev \in Device /\ seqNum \in Nat
      /\ map \in Table /\ map' \in Table
  BY DEF TypeOK, Message
<1>q. \A e \in Device : getSeq(map, e) \in Nat /\ getSeq(map', e) \in Nat
  BY <1>t, EntryType DEF getSeq, EndDevice
<1> SUFFICES ASSUME NEW e \in Device, e \notin overtaken' PROVE verified'[e] <= getSeq(map', e)
  <2>1. SeqNotBehind' <=> \A e \in Device \ overtaken' : getSeq(map', e) >= verified'[e]
    BY DEF SeqNotBehind, getSeq, isInTable
  <2>2. \A e \in Device : verified'[e] \in Nat
    BY DEF TypeOK
  <2> QED BY <1>q, <2>1, <2>2
<1>b. /\ e \notin overtaken => verified[e] <= getSeq(map, e)
      /\ ~isInTable(map, e) => verified[e] = 0
  BY DEF SeqNotBehind, VerifiedBelow
<1>r. ASSUME NEW n \in Nat, NumbersRead(e, n), verified[e] < n PROVE verified'[e] <= getSeq(map', e)
  BY <1>t, <1>b, <1>r DEF NumbersRead
<1>k. CASE NumbersKept(e)
  BY <1>b, <1>k DEF NumbersKept
<1>1. CASE LoraUpdate /\ e = cur.dev
  <2>1. loraPc = "update" /\ cur.type = "DATA_UP"
    BY <1>1 DEF LoraUpdate, InHand, HasFrame
  <2>2. cur \in Frame /\ cur = inVector[1] /\ 1 \in 1..Len(inVector)
    BY <2>1, CurProperties DEF HasFrame
  <2>3. Above(cur)
    BY <2>1, <2>2 DEF VerifiedBelow
  <2> QED BY <1>1, <1>r, <2>1, <2>2, <2>3, NumberSteps DEF Above, Frame
<1>2. CASE LoraOldSeq /\ e = old.dev
  <2>1. /\ old \in Frame /\ old.type = "DATA_UP" /\ historyIterator \in 1..Len(oldData)
        /\ loraPc = "oldSeq"
    BY <1>2, OldProperties DEF LoraOldSeq, OldPc, DataFrame
  <2>2. NumbersRead(e, old.n) /\ e \notin overtaken
    BY <1>2, NumberSteps
  <2>3. Above(old)
    BY <1>2, <2>1, <2>2 DEF VerifiedBelow, old
  <2> QED BY <1>2, <1>r, <2>1, <2>2, <2>3 DEF Above, Frame
<1>3. CASE StiotSetSeq /\ e = in.dev
  <2>1. NumbersWritten(e)
    BY <1>3, NumberSteps
  <2>2. Numbering(e)
    BY <1>3 DEF StiotSetSeq, Numbering
  <2>3. e \notin overtaken => verified[e] <= seqNum
    BY <1>3, <1>t, <2>2 DEF NumberInHand
  <2> QED BY <1>b, <2>1, <2>3 DEF NumbersWritten
<1>4. CASE ~LoraUpdate /\ ~LoraOldSeq /\ ~StiotSetSeq
  <2>1. CASE NumbersForgotten(e)
    BY <1>q, <2>1 DEF NumbersForgotten
  <2> QED BY <1>4, <1>k, <2>1, NumberSteps
<1>5. CASE (LoraUpdate /\ e # cur.dev) \/ (LoraOldSeq /\ e # old.dev) \/ (StiotSetSeq /\ e # in.dev)
  <2>1. CASE LoraUpdate /\ e # cur.dev
    BY <1>k, <2>1, NumberSteps
  <2>2. CASE LoraOldSeq /\ e # old.dev
    BY <1>k, <2>2, NumberSteps
  <2>3. CASE StiotSetSeq /\ e # in.dev
    BY <1>k, <2>3, NumberSteps
  <2> QED BY <1>5, <2>1, <2>2, <2>3
<1> QED BY <1>1, <1>2, <1>3, <1>4, <1>5

(* Numbers holds when the gateway starts.                                  *)
LEMMA InitNumbers == Init => Numbers
<1> SUFFICES ASSUME Init PROVE Numbers
  OBVIOUS
<1>1. /\ Len(fromLoraData) = 0 /\ Len(inVector) = 0 /\ Len(oldData) = 0 /\ stiotPc = "wait"
      /\ \A d \in Device : verified[d] = 0 /\ dataSent[d] = 0 /\ getSeq(map, d) = 0
  BY DEF Init, InitGateway, getSeq, isInTable
<1>2. FrameOrder
  BY <1>1 DEF FrameOrder, Ordered, Before
<1>3. VerifiedBelow
  BY <1>1 DEF VerifiedBelow
<1>4. NumberInHand /\ SeqNotBehind
  BY <1>1 DEF NumberInHand, Numbering, SeqNotBehind
<1> QED BY <1>2, <1>3, <1>4 DEF Numbers

(* The gateway's frames are read in the order they came in, and what       *)
(* fromStiot writes back is not behind them.                               *)
THEOREM NumbersInvariant == Spec => []Numbers
<1>1. Base /\ Base' /\ Numbers /\ [Next]_vars => Numbers'
  BY FrameOrderStep, VerifiedBelowStep, NumberInHandStep, SeqNotBehindStep DEF Base, Numbers
<1> QED BY <1>1, InitNumbers, BaseInvariant, PTL DEF Spec

(* The number the table holds for a device is not behind a frame it has    *)
(* read under the key in use, except where lines 273 to 275 and 384 of     *)
(* MessageConverter.cpp let it fall behind (SeqNotBehind).                 *)
THEOREM NumbersDoNotFallBehind == Spec => []SeqNotBehind
<1>1. Numbers => SeqNotBehind
  BY DEF Numbers
<1> QED BY <1>1, NumbersInvariant, PTL

-----------------------------------------------------------------------------
(* Counting.  Where the messages of a kind stand in a sequence, and how    *)
(* their number changes as the sequence does.                              *)
At(s, type, d, n)  == {i \in DOMAIN s : s[i].type = type /\ s[i].dev = d /\ s[i].n = n}
Hit(m, type, d, n) == IF m.type = type /\ m.dev = d /\ m.n = n THEN 1 ELSE 0

(* A message occurs a number of times.                                     *)
LEMMA OccType ==
  ASSUME NEW S, NEW s \in Seq(S), NEW type, NEW d, NEW n
  PROVE  /\ IsFiniteSet(At(s, type, d, n)) /\ Occurrences(s, type, d, n) \in Nat
         /\ Occurrences(s, type, d, n) = Cardinality(At(s, type, d, n))
<1>1. Len(s) \in Nat /\ DOMAIN s = 1..Len(s)
  BY LenProperties
<1>2. IsFiniteSet(1..Len(s)) /\ At(s, type, d, n) \in SUBSET (1..Len(s))
  BY <1>1, FS_Interval DEF At
<1>3. IsFiniteSet(At(s, type, d, n))
  BY <1>2, FS_Subset
<1> QED BY <1>3, FS_CardinalityType DEF At, Occurrences

(* It occurs never when no position holds it.                              *)
LEMMA OccZero ==
  ASSUME NEW S, NEW s \in Seq(S), NEW type, NEW d, NEW n
  PROVE  Occurrences(s, type, d, n) = 0 <=>
           \A i \in 1..Len(s) : Hit(s[i], type, d, n) = 0
<1>1. Occurrences(s, type, d, n) = 0 <=> At(s, type, d, n) = {}
  BY OccType, FS_EmptySet
<1>2. DOMAIN s = 1..Len(s)
  BY LenProperties
<1> QED BY <1>1, <1>2 DEF At, Hit

(* One taken out at k, the rest closed up.                                 *)
Without(t, s, k) ==
  Len(t) = Len(s) - 1 /\ \A i \in 1..Len(t) : t[i] = IF i < k THEN s[i] ELSE s[i + 1]
(* Taking out one message lowers the count by what was there.              *)
LEMMA OccRemove ==
  ASSUME NEW S, NEW s \in Seq(S), NEW t \in Seq(S), NEW k \in 1..Len(s), Without(t, s, k),
         NEW type, NEW d, NEW n
  PROVE  Occurrences(s, type, d, n) = Occurrences(t, type, d, n) + Hit(s[k], type, d, n)
<1> DEFINE I == At(s, type, d, n)
           J == At(t, type, d, n)
           f == [i \in J |-> IF i < k THEN i ELSE i + 1]
<1>1. /\ Len(s) \in Nat /\ Len(t) \in Nat /\ DOMAIN s = 1..Len(s) /\ DOMAIN t = 1..Len(t)
      /\ Len(t) = Len(s) - 1
      /\ \A i \in 1..Len(t) : t[i] = IF i < k THEN s[i] ELSE s[i + 1]
  BY LenProperties DEF Without
<1>2. /\ \A i : i \in I <=> i \in 1..Len(s) /\ Hit(s[i], type, d, n) = 1
      /\ \A i : i \in J <=> i \in 1..Len(t) /\ Hit(t[i], type, d, n) = 1
  BY <1>1 DEF At, Hit
<1>3. /\ IsFiniteSet(I) /\ IsFiniteSet(J)
      /\ Occurrences(s, type, d, n) = Cardinality(I) /\ Cardinality(I) \in Nat
      /\ Occurrences(t, type, d, n) = Cardinality(J) /\ Cardinality(J) \in Nat
  BY OccType
<1> HIDE DEF I, J
<1>4. \A i \in J : f[i] \in I \ {k}
  <2> SUFFICES ASSUME NEW i \in J PROVE f[i] \in I \ {k}
    OBVIOUS
  <2>1. f[i] = (IF i < k THEN i ELSE i + 1) /\ i \in 1..Len(t)
    BY <1>2
  <2>2. f[i] \in 1..Len(s) /\ f[i] # k /\ s[f[i]] = t[i]
    BY <1>1, <2>1
  <2> QED BY <1>2, <2>2
<1>5. \A i, j \in J : f[i] = f[j] => i = j
  BY <1>1, <1>2
<1>6. \A i \in I \ {k} : \E j \in J : f[j] = i
  <2> SUFFICES ASSUME NEW i \in I \ {k} PROVE \E j \in J : f[j] = i
    OBVIOUS
  <2>1. CASE i < k
    <3>1. i \in J
      BY <1>1, <1>2, <2>1
    <3> QED BY <2>1, <3>1
  <2>2. CASE k < i
    <3>1. i - 1 \in 1..Len(t) /\ ~(i - 1 < k) /\ (i - 1) + 1 = i
      BY <1>1, <1>2, <2>2
    <3>2. PICK j \in 1..Len(t) : ~(j < k) /\ j + 1 = i
      BY <3>1
    <3>3. t[j] = s[i]
      BY <1>1, <3>2
    <3>4. j \in J
      BY <1>2, <3>2, <3>3
    <3> QED BY <3>2, <3>4
  <2> QED BY <1>1, <1>2, <2>1, <2>2
<1>7. Cardinality(J) = Cardinality(I \ {k})
  <2>1. f \in Bijection(J, I \ {k})
    BY <1>4, <1>5, <1>6 DEF Bijection, Injection, Surjection, IsInjective
  <2>2. ExistsBijection(J, I \ {k})
    BY <2>1 DEF ExistsBijection
  <2> QED BY <1>3, <2>2, FS_Bijection
<1>8. Cardinality(I \ {k}) = IF k \in I THEN Cardinality(I) - 1 ELSE Cardinality(I)
  BY <1>3, FS_RemoveElement
<1> QED BY <1>1, <1>2, <1>3, <1>7, <1>8 DEF Hit

(* push_back adds one.                                                     *)
LEMMA OccAppend ==
  ASSUME NEW S, NEW s \in Seq(S), NEW m \in S, NEW type, NEW d, NEW n
  PROVE  Occurrences(Append(s, m), type, d, n) = Occurrences(s, type, d, n) + Hit(m, type, d, n)
<1> DEFINE a == Append(s, m)
<1>1. /\ a \in Seq(S) /\ Len(a) = Len(s) + 1 /\ a[Len(s) + 1] = m /\ Len(s) \in Nat
      /\ \A i \in 1..Len(s) : a[i] = s[i]
  BY AppendProperties, LenProperties
<1> HIDE DEF a
<1>2. Len(s) + 1 \in 1..Len(a) /\ Len(s) = Len(a) - 1
  BY <1>1
<1>3. Without(s, a, Len(s) + 1)
  BY <1>1 DEF Without
<1>4. Occurrences(a, type, d, n) = Occurrences(s, type, d, n) + Hit(a[Len(s) + 1], type, d, n)
  BY <1>1, <1>2, <1>3, OccRemove
<1> QED BY <1>1, <1>4 DEF a

(* Taking the first removes it.                                            *)
LEMMA OccTail ==
  ASSUME NEW S, NEW s \in Seq(S), s # <<>>, NEW type, NEW d, NEW n
  PROVE  Occurrences(s, type, d, n) = Occurrences(Tail(s), type, d, n) + Hit(Head(s), type, d, n)
<1> DEFINE t == Tail(s)
<1>1. /\ t \in Seq(S) /\ Len(t) = Len(s) - 1 /\ Head(s) = s[1] /\ Len(s) \in Nat
      /\ \A i \in 1..Len(t) : t[i] = s[i + 1]
  BY HeadTailProperties, LenProperties
<1>2. Len(s) >= 1
  BY <1>1, EmptySeq
<1> HIDE DEF t
<1>3. 1 \in 1..Len(s) /\ Without(t, s, 1)
  BY <1>1, <1>2 DEF Without
<1>4. Occurrences(s, type, d, n) = Occurrences(t, type, d, n) + Hit(s[1], type, d, n)
  BY <1>1, <1>3, OccRemove
<1> QED BY <1>1, <1>4 DEF t

(* erase removes one.                                                      *)
LEMMA OccEraseAt ==
  ASSUME NEW S, NEW s \in Seq(S), NEW k \in 1..Len(s), NEW type, NEW d, NEW n
  PROVE  Occurrences(s, type, d, n) =
           Occurrences(EraseAt(s, k), type, d, n) + Hit(s[k], type, d, n)
<1> DEFINE t == EraseAt(s, k)
<1>1. /\ t \in Seq(S) /\ Len(t) = Len(s) - 1
      /\ \A i \in 1..(Len(s) - 1) : t[i] = IF i < k THEN s[i] ELSE s[i + 1]
  BY EraseAtProperties
<1> HIDE DEF t
<1>2. t \in Seq(S) /\ Without(t, s, k)
  BY <1>1 DEF Without
<1>3. Occurrences(s, type, d, n) = Occurrences(t, type, d, n) + Hit(s[k], type, d, n)
  BY <1>2, OccRemove
<1> QED BY <1>3 DEF t

(* Counts add up over a concatenation.                                     *)
LEMMA OccConcat ==
  ASSUME NEW S, NEW s \in Seq(S), NEW t \in Seq(S), NEW type, NEW d, NEW n
  PROVE  Occurrences(s \o t, type, d, n) =
           Occurrences(s, type, d, n) + Occurrences(t, type, d, n)
<1> DEFINE u == s \o t
           I == At(s, type, d, n)
           J == At(t, type, d, n)
           U == At(u, type, d, n)
           f == [j \in J |-> j + Len(s)]
<1>1. /\ u \in Seq(S) /\ Len(u) = Len(s) + Len(t)
      /\ \A i \in 1..(Len(s) + Len(t)) : u[i] = IF i <= Len(s) THEN s[i] ELSE t[i - Len(s)]
  BY ConcatProperties
<1>2. /\ Len(s) \in Nat /\ Len(t) \in Nat
      /\ DOMAIN s = 1..Len(s) /\ DOMAIN t = 1..Len(t) /\ DOMAIN u = 1..Len(u)
  BY <1>1, LenProperties
<1>3. /\ IsFiniteSet(I) /\ IsFiniteSet(J)
      /\ Occurrences(s, type, d, n) = Cardinality(I) /\ Cardinality(I) \in Nat
      /\ Occurrences(t, type, d, n) = Cardinality(J) /\ Cardinality(J) \in Nat
  BY OccType
<1>4. Occurrences(u, type, d, n) = Cardinality(U) /\ IsFiniteSet(U)
  <2> HIDE DEF u
  <2> QED BY <1>1, OccType
<1>5. /\ \A i : i \in I <=> i \in 1..Len(s) /\ Hit(s[i], type, d, n) = 1
      /\ \A i : i \in J <=> i \in 1..Len(t) /\ Hit(t[i], type, d, n) = 1
      /\ \A i : i \in U <=> i \in 1..Len(u) /\ Hit(u[i], type, d, n) = 1
  <2> HIDE DEF u
  <2> QED BY <1>2 DEF At, Hit
<1> HIDE DEF u, I, J, U
<1>6. I \subseteq U
  BY <1>1, <1>2, <1>5
<1>7. \A j \in J : f[j] \in U \ I
  <2> SUFFICES ASSUME NEW j \in J PROVE f[j] \in U \ I
    OBVIOUS
  <2>1. f[j] = j + Len(s) /\ j \in 1..Len(t) /\ Hit(t[j], type, d, n) = 1
    BY <1>5
  <2>2. f[j] \in 1..Len(u) /\ ~(f[j] <= Len(s)) /\ f[j] - Len(s) = j
    BY <1>1, <1>2, <2>1
  <2>3. u[f[j]] = t[j] /\ f[j] \notin 1..Len(s)
    BY <1>1, <1>2, <2>2
  <2> QED BY <1>5, <2>1, <2>2, <2>3
<1>8. \A i, j \in J : f[i] = f[j] => i = j
  BY <1>2, <1>5
<1>9. \A i \in U \ I : \E j \in J : f[j] = i
  <2> SUFFICES ASSUME NEW i \in U \ I PROVE \E j \in J : f[j] = i
    OBVIOUS
  <2>1. i \in 1..Len(u) /\ ~(i <= Len(s)) /\ u[i] = t[i - Len(s)]
    BY <1>1, <1>2, <1>5
  <2>2. i - Len(s) \in 1..Len(t) /\ (i - Len(s)) + Len(s) = i
    BY <1>1, <1>2, <2>1
  <2>3. PICK j \in 1..Len(t) : j = i - Len(s) /\ j + Len(s) = i
    BY <2>2
  <2>4. j \in J
    BY <1>5, <2>1, <2>3
  <2> QED BY <2>3, <2>4
<1>10. Cardinality(U \ I) = Cardinality(J)
  <2>1. f \in Bijection(J, U \ I)
    BY <1>7, <1>8, <1>9 DEF Bijection, Injection, Surjection, IsInjective
  <2>2. ExistsBijection(J, U \ I)
    BY <2>1 DEF ExistsBijection
  <2> QED BY <1>3, <2>2, FS_Bijection
<1>11. Cardinality(U \ I) = Cardinality(U) - Cardinality(I) /\ Cardinality(U) \in Nat
  <2>1. U \cap I = I
    BY <1>6
  <2>2. Cardinality(U \ I) = Cardinality(U) - Cardinality(U \cap I)
    BY <1>4, FS_Difference
  <2>3. Cardinality(U) \in Nat
    BY <1>4, FS_CardinalityType
  <2> QED BY <2>1, <2>2, <2>3
<1> QED BY <1>3, <1>4, <1>10, <1>11 DEF u

(* Nothing occurs in an empty sequence.                                    *)
LEMMA OccEmpty == \A type, d, n : Occurrences(<<>>, type, d, n) = 0
<1> SUFFICES ASSUME NEW type, NEW d, NEW n PROVE Occurrences(<<>>, type, d, n) = 0
  OBVIOUS
<1>1. At(<<>>, type, d, n) = {}
  BY DEF At
<1> QED BY <1>1, FS_EmptySet DEF At, Occurrences

(* The RXL messages made of frames.                                        *)
LEMMA OccForwarded ==
  ASSUME NEW s \in Seq(DataFrame), NEW d, NEW n
  PROVE  Occurrences([i \in 1..Len(s) |-> RXL(s[i])], "RXL", d, n)
           = Occurrences(s, "DATA_UP", d, n)
<1>1. Len(s) \in Nat /\ DOMAIN s = 1..Len(s) /\ \A i \in 1..Len(s) : s[i].type = "DATA_UP"
  <2>1. \A i \in 1..Len(s) : s[i] \in DataFrame
    BY ElementOfSeq
  <2> QED BY <2>1, LenProperties DEF DataFrame
<1>2. At([i \in 1..Len(s) |-> RXL(s[i])], "RXL", d, n) = At(s, "DATA_UP", d, n)
  BY <1>1 DEF At, RXL, Msg
<1> QED BY <1>2 DEF At, Occurrences

-----------------------------------------------------------------------------
(* The fate of a data frame.  It is held in one of five places, or has one *)
(* of three fates.                                                         *)
Held(d, n) == Occurrences(fromLoraData, "DATA_UP", d, n) + Occurrences(Pending, "DATA_UP", d, n)
              + Occurrences(outVector, "DATA_UP", d, n) + Occurrences(oldData, "DATA_UP", d, n)
              + Occurrences(upQ, "RXL", d, n)
One(P) == IF P THEN 1 ELSE 0
Fates(d, n) == One(<<d, n>> \in delivered) + One(<<d, n>> \in discarded) + One(<<d, n>> \in lost)

(* Every number a device has used is in one place, no other is in any.     *)
Conserved == \A d \in Device, n \in Nat :
               Held(d, n) + Fates(d, n) = One(n \in 1..dataSent[d])

(* The set of fates UplinkConservation counts, counted one by one.         *)
LEMMA FateCount ==
  ASSUME NEW d, NEW n
  PROVE  Cardinality({s \in {"delivered", "discarded", "lost"} :
           <<d, n>> \in CASE s = "delivered" -> delivered
                          [] s = "discarded" -> discarded
                          [] s = "lost"      -> lost}) = Fates(d, n)
<1> DEFINE P == <<d, n>> \in delivered
           Q == <<d, n>> \in discarded
           R == <<d, n>> \in lost
           A == IF P THEN {"delivered"} ELSE {}
           B == IF Q THEN A \cup {"discarded"} ELSE A
           C == IF R THEN B \cup {"lost"} ELSE B
           T == {s \in {"delivered", "discarded", "lost"} :
                   <<d, n>> \in CASE s = "delivered" -> delivered
                                  [] s = "discarded" -> discarded
                                  [] s = "lost"      -> lost}
<1>1. T = C
  <2>1. /\ "delivered" \in T <=> P
        /\ "discarded" \in T <=> Q
        /\ "lost" \in T <=> R
    OBVIOUS
  <2>2. \A x : x \in T => x \in {"delivered", "discarded", "lost"}
    OBVIOUS
  <2>3. \A x : x \in C <=> (x = "delivered" /\ P) \/ (x = "discarded" /\ Q) \/ (x = "lost" /\ R)
    OBVIOUS
  <2> HIDE DEF T, C, P, Q, R
  <2>4. \A x : x \in T <=> x \in C
    BY <2>1, <2>2, <2>3
  <2> QED BY <2>4
<1>2. IsFiniteSet(A) /\ Cardinality(A) = One(P) /\ "discarded" \notin A /\ "lost" \notin A
  BY FS_EmptySet, FS_Singleton DEF One
<1>3. IsFiniteSet(B) /\ Cardinality(B) = One(P) + One(Q) /\ "lost" \notin B
  <2> HIDE DEF A, P, Q
  <2> QED BY <1>2, FS_AddElement DEF One
<1>4. Cardinality(C) = One(P) + One(Q) + One(R)
  <2> HIDE DEF B, P, Q, R
  <2> QED BY <1>3, FS_AddElement DEF One
<1> QED BY <1>1, <1>4 DEF Fates

(* The frames of the pass that fromLora still has to deal with are frames. *)
LEMMA PendingType ==
  ASSUME TypeOK, InHand
  PROVE  Pending \in Seq(Frame)
<1>1. inVector \in Seq(Frame) /\ (loraPc \in {"hasCheck", "check", "keys"} => inVector # <<>>)
  BY DEF TypeOK, InHand, HasFrame
<1> QED BY <1>1, HeadTailProperties DEF Pending

(* The places of UplinkConservation are these.                             *)
LEMMA PlacesSum ==
  TypeOK /\ InHand => \A d \in Device, n \in Nat : Places(d, n) = Held(d, n) + Fates(d, n)
<1> SUFFICES ASSUME TypeOK, InHand, NEW d \in Device, NEW n \in Nat
             PROVE  Places(d, n) = Held(d, n) + Fates(d, n)
  OBVIOUS
<1>t. /\ fromLoraData \in Seq(Frame) /\ Pending \in Seq(Frame) /\ outVector \in Seq(Frame)
      /\ oldData \in Seq(Frame) /\ upQ \in Seq(Message)
  BY PendingType DEF TypeOK
<1> DEFINE Occ(s) == Occurrences(s, "DATA_UP", d, n)
           s2 == fromLoraData \o Pending
           s3 == s2 \o outVector
           s4 == s3 \o oldData
<1>1. s2 \in Seq(Frame) /\ Occ(s2) = Occ(fromLoraData) + Occ(Pending)
  BY <1>t, OccConcat, ConcatProperties
<1> HIDE DEF s2
<1>2. s3 \in Seq(Frame) /\ Occ(s3) = Occ(s2) + Occ(outVector)
  BY <1>t, <1>1, OccConcat, ConcatProperties
<1> HIDE DEF s3
<1>3. Occ(s4) = Occ(s3) + Occ(oldData)
  BY <1>t, <1>2, OccConcat
<1>4. /\ Occ(fromLoraData) \in Nat /\ Occ(Pending) \in Nat /\ Occ(outVector) \in Nat
      /\ Occ(oldData) \in Nat /\ Occurrences(upQ, "RXL", d, n) \in Nat
  BY <1>t, OccType
<1>5. Fates(d, n) \in Nat
  BY DEF Fates, One
<1>6. Places(d, n) = Occ(s4) + Occurrences(upQ, "RXL", d, n) + Fates(d, n)
  BY FateCount DEF Places, s2, s3
<1> QED BY <1>1, <1>2, <1>3, <1>4, <1>5, <1>6 DEF Held

(* What a step does to the places: nothing, but for a message that carries *)
(* no data; or it moves frames from one to the next.                       *)
NoData(m) == m.type # "RXL"
UpKept == upQ' = upQ \/ \E m \in Message : NoData(m) /\ upQ' = Append(upQ, m)
PassDown ==
  /\ loraPc \in HasFrame \ {"hasCheck", "check", "keys"}
  /\ Pending = inVector /\ Pending' = Tail(inVector)
AllStay ==
  /\ fromLoraData' = fromLoraData /\ Pending' = Pending /\ outVector' = outVector
  /\ oldData' = oldData /\ UpKept
Drained ==
  /\ Pending = <<>> /\ Pending' = fromLoraData /\ fromLoraData' = <<>>
  /\ outVector' = outVector /\ oldData' = oldData /\ upQ' = upQ
Taken ==
  /\ PassDown /\ fromLoraData' = fromLoraData /\ outVector' = outVector
  /\ oldData' = oldData /\ UpKept
Forwarded ==
  /\ PassDown /\ fromLoraData' = fromLoraData /\ outVector' = Append(outVector, cur)
  /\ oldData' = oldData /\ upQ' = upQ
PutAside ==
  /\ PassDown /\ fromLoraData' = fromLoraData /\ outVector' = outVector
  /\ oldData' = Append(oldData, cur) /\ UpKept
OldTaken ==
  /\ loraPc \in OldPc /\ fromLoraData' = fromLoraData /\ Pending' = Pending
  /\ outVector' = outVector /\ oldData' = EraseAt(oldData, historyIterator) /\ upQ' = upQ
OldForwarded ==
  /\ loraPc \in OldPc /\ fromLoraData' = fromLoraData /\ Pending' = Pending
  /\ outVector' = Append(outVector, old)
  /\ oldData' = EraseAt(oldData, historyIterator) /\ upQ' = upQ
SentUp ==
  /\ fromLoraData' = fromLoraData /\ Pending' = Pending /\ outVector' = <<>>
  /\ oldData' = oldData /\ upQ' = upQ \o [i \in 1..Len(outVector) |-> RXL(outVector[i])]
Arrived ==
  /\ upQ # <<>> /\ upQ' = Tail(upQ) /\ fromLoraData' = fromLoraData /\ Pending' = Pending
  /\ outVector' = outVector /\ oldData' = oldData
Came(f) ==
  /\ fromLoraData' = Append(fromLoraData, f) /\ Pending' = Pending
  /\ outVector' = outVector /\ oldData' = oldData /\ upQ' = upQ

FatesStay == delivered' = delivered /\ discarded' = discarded /\ lost' = lost
GivenUp(f) == /\ delivered' = delivered /\ lost' = lost
              /\ discarded' = discarded \cup {<<f.dev, f.n>>}

(* The moves, with what becomes of the frame that is moved.                *)
UplinkMove ==
  \/ dataSent' = dataSent /\ FatesStay /\ (AllStay \/ Drained \/ Forwarded \/ PutAside
                                          \/ OldForwarded \/ SentUp)
  \/ dataSent' = dataSent /\ FatesStay /\ Taken /\ cur.type = "REGISTER_UP"
  \/ dataSent' = dataSent /\ GivenUp(cur) /\ Taken /\ cur.type = "DATA_UP"
  \/ dataSent' = dataSent /\ GivenUp(old) /\ OldTaken
  \/ /\ dataSent' = dataSent /\ Arrived /\ discarded' = discarded /\ lost' = lost
     /\ delivered' = IF Head(upQ).type = "RXL"
                     THEN delivered \cup {<<Head(upQ).dev, Head(upQ).n>>} ELSE delivered
  \/ \E f \in Frame : Came(f) /\ f.type = "REGISTER_UP" /\ dataSent' = dataSent /\ FatesStay
  \/ \E f \in Frame :
       /\ Came(f) /\ f.type = "DATA_UP" /\ f.n = dataSent[f.dev] + 1 /\ FatesStay
       /\ dataSent' = [dataSent EXCEPT ![f.dev] = @ + 1]

(* Every step but a restart is one of the moves.                           *)
LEMMA UplinkMoves ==
  ASSUME TypeOK, InHand, [Next]_vars, ~Restart
  PROVE  UplinkMove
<1>m. /\ loraPc \in {"regr", "keyr"} => Msg("REGR", cur.dev, cur.n, NullKey) \in Message
                                     /\ Msg("KEYR", cur.dev, 0, NullKey) \in Message
      /\ loraPc = "keys" /\ hasSessionKey(map, cur.dev) =>
           Msg("KEYS", cur.dev, getSeq(map, cur.dev), map[cur.dev].sessionKey) \in Message
      /\ Msg("KEYR", in.dev, 0, NullKey) \in Message
  <2>1. loraPc \in HasFrame => cur.dev \in Device /\ cur.n \in Nat
    BY CurProperties DEF Frame
  <2>2. map \in Table /\ in.dev \in Device
    BY DEF TypeOK, Message
  <2> QED BY <2>1, <2>2, MsgType, KeyTypes, TableAnswers DEF HasFrame
<1>n. \A type, d, n, key : type # "RXL" => NoData(Msg(type, d, n, key))
  BY DEF NoData, Msg
<1>1. CASE LoraWake
  <2>1. Pending = <<>>
    BY <1>1 DEF LoraWake, InHand, Pending
  <2>2. Drained /\ dataSent' = dataSent /\ FatesStay
    BY <1>1, <2>1 DEF LoraWake, Drained, FatesStay, Pending, Goto, envVars, fateVars
  <2> QED BY <2>2 DEF UplinkMove
<1>2. CASE LoraRegr
  <2>1. UpKept
    BY <1>2, <1>m, <1>n DEF LoraRegr, UpKept
  <2>2. Taken /\ dataSent' = dataSent /\ FatesStay /\ cur.type = "REGISTER_UP"
    BY <1>2, <2>1 DEF LoraRegr, Taken, PassDown, FatesStay, Pending, Goto, HasFrame, InHand,
       envVars,
       fateVars
  <2> QED BY <2>2 DEF UplinkMove
<1>3. CASE LoraRxl
  <2>1. loraPc = "rxl" /\ cur.type = "DATA_UP" /\ upQ' = upQ /\ dataSent' = dataSent
    BY <1>3 DEF LoraRxl, InHand, HasFrame, envVars
  <2>2. (AllStay /\ FatesStay) \/ (Taken /\ GivenUp(cur))
    BY <1>3, <2>1 DEF LoraRxl, AllStay, Taken, UpKept, PassDown, FatesStay, GivenUp, Pending,
       Goto,
       HasFrame
  <2> QED BY <2>1, <2>2 DEF UplinkMove
<1>4. CASE LoraUpdate
  <2>1. Forwarded /\ dataSent' = dataSent /\ FatesStay
    BY <1>4 DEF LoraUpdate, Forwarded, PassDown, FatesStay, Pending, Goto, HasFrame, envVars,
       fateVars
  <2> QED BY <2>1 DEF UplinkMove
<1>5. CASE LoraKeys
  <2>1. UpKept
    BY <1>5, <1>m, <1>n DEF LoraKeys, UpKept, getSessionKeyIsNull
  <2>2. AllStay /\ dataSent' = dataSent /\ FatesStay
    BY <1>5, <2>1 DEF LoraKeys, AllStay, FatesStay, Pending, Goto, envVars, fateVars
  <2> QED BY <2>2 DEF UplinkMove
<1>6. CASE LoraMine
  <2>1. loraPc = "mine" /\ cur.type = "DATA_UP" /\ upQ' = upQ /\ dataSent' = dataSent
    BY <1>6 DEF LoraMine, InHand, HasFrame, envVars
  <2>2. CASE isMine(map, cur.dev)
    <3>1. AllStay /\ FatesStay
      BY <1>6, <2>1, <2>2 DEF LoraMine, AllStay, UpKept, FatesStay, Pending, Goto
    <3> QED BY <2>1, <3>1 DEF UplinkMove
  <2>3. CASE ~isMine(map, cur.dev)
    <3>1. Taken /\ GivenUp(cur)
      BY <1>6, <2>1, <2>3 DEF LoraMine, Taken, UpKept, PassDown, GivenUp, Pending, Goto,
         HasFrame
    <3> QED BY <2>1, <3>1 DEF UplinkMove
  <2> QED BY <2>2, <2>3
<1>7. CASE LoraKeyr
  <2>1. UpKept
    BY <1>7, <1>m, <1>n DEF LoraKeyr, UpKept
  <2>2. PutAside /\ dataSent' = dataSent /\ FatesStay
    BY <1>7, <2>1 DEF LoraKeyr, PutAside, PassDown, FatesStay, Pending, Goto, HasFrame, envVars,
       fateVars
  <2> QED BY <2>2 DEF UplinkMove
<1>8. CASE LoraOldRxl
  <2>1. loraPc = "oldRxl" /\ upQ' = upQ /\ dataSent' = dataSent
    BY <1>8 DEF LoraOldRxl, envVars
  <2>2. (AllStay /\ FatesStay) \/ (OldTaken /\ GivenUp(old))
    BY <1>8, <2>1 DEF LoraOldRxl, AllStay, UpKept, FatesStay, OldTaken, GivenUp, Pending, Goto,
       OldPc
  <2> QED BY <2>1, <2>2 DEF UplinkMove
<1>9. CASE LoraOldCheck
  <2>1. OldForwarded /\ dataSent' = dataSent /\ FatesStay
    BY <1>9 DEF LoraOldCheck, OldForwarded, FatesStay, Pending, Goto, OldPc, envVars, fateVars
  <2> QED BY <2>1 DEF UplinkMove
<1>10. CASE LoraSendAll
  <2>1. SentUp /\ dataSent' = dataSent /\ FatesStay
    BY <1>10 DEF LoraSendAll, SentUp, FatesStay, Pending, Goto, envVars, fateVars
  <2> QED BY <2>1 DEF UplinkMove
<1>11. CASE StiotTxlKey
  <2>1. UpKept
    BY <1>11, <1>m, <1>n DEF StiotTxlKey, UpKept
  <2>2. AllStay /\ dataSent' = dataSent /\ FatesStay
    BY <1>11, <2>1 DEF StiotTxlKey, AllStay, FatesStay, Pending, loraVars, envVars, fateVars
  <2> QED BY <2>2 DEF UplinkMove
<1>12. CASE ServerReceive
  <2>1. Arrived /\ dataSent' = dataSent /\ discarded' = discarded /\ lost' = lost
    BY <1>12 DEF ServerReceive, Arrived, Pending, loraVars
  <2>2. delivered' = IF Head(upQ).type = "RXL"
                     THEN delivered \cup {<<Head(upQ).dev, Head(upQ).n>>} ELSE delivered
    BY <1>12 DEF ServerReceive
  <2> QED BY <2>1, <2>2 DEF UplinkMove
<1>k. AllStay /\ dataSent' = dataSent /\ FatesStay => UplinkMove
  BY DEF UplinkMove
<1>13. CASE LoraRegister \/ LoraHasCheck \/ LoraHasKey \/ LoraGetKey \/ LoraSetCheck \/ LoraNoKey \/
           LoraOldBegin \/ LoraOldHasKey \/ LoraOldSeq
  <2>1. AllStay /\ dataSent' = dataSent /\ FatesStay
    BY <1>13 DEF LoraRegister, LoraHasCheck, LoraHasKey, LoraGetKey, LoraSetCheck, LoraNoKey,
       LoraOldBegin, LoraOldHasKey, LoraOldSeq, AllStay, UpKept, FatesStay, Pending,
       Goto, loraVars, stiotVars, envVars, fateVars, hist
  <2> QED BY <1>k, <2>1
<1>14. CASE StiotTake \/ StiotIsMine \/ StiotKeyaSet \/ StiotKeyaSync \/ StiotKeyaNotify
           \/ StiotRegaDh \/ StiotRegaKey \/ StiotRegaSet \/ StiotTxlSeq \/ StiotGetKey
           \/ StiotEncrypt \/ StiotSetSeq \/ StiotSend \/ TimerFlush \/ Silence \/
           UNCHANGED vars
  <2>1. AllStay /\ dataSent' = dataSent /\ FatesStay
    BY <1>14 DEF StiotTake, StiotIsMine, StiotKeyaSet, StiotKeyaSync, StiotKeyaNotify,
       StiotRegaDh, StiotRegaKey, StiotRegaSet, StiotTxlSeq, StiotGetKey, StiotEncrypt,
       StiotSetSeq, StiotSend, TimerFlush, Silence, vars, AllStay, UpKept, FatesStay,
       Pending, Goto, loraVars, stiotVars, envVars, fateVars, hist
  <2> QED BY <1>k, <2>1
<1>15. ASSUME NEW d \in Device, DeviceReceive(d) \/ ServerTxl(d) PROVE UplinkMove
  <2>1. AllStay /\ dataSent' = dataSent /\ FatesStay
    BY <1>15 DEF DeviceReceive, ServerTxl, AllStay, UpKept, FatesStay, Pending, loraVars,
       fateVars
  <2> QED BY <1>k, <2>1
<1>16. ASSUME NEW d \in Device, DeviceRegister(d) PROVE UplinkMove
  <2> DEFINE f == [type |-> "REGISTER_UP", dev |-> d, n |-> reg[d] + 1, key |-> NullKey]
  <2>1. f \in Frame /\ f.type = "REGISTER_UP"
    BY KeyTypes DEF Frame, TypeOK
  <2>2. Came(f) /\ dataSent' = dataSent /\ FatesStay
    BY <1>16 DEF DeviceRegister, AddBulk, Came, FatesStay, Pending, loraVars, fateVars
  <2> HIDE DEF f
  <2> QED BY <2>1, <2>2 DEF UplinkMove
<1>17. ASSUME NEW d \in Device, DeviceSend(d) PROVE UplinkMove
  <2> DEFINE f == [type |-> "DATA_UP", dev |-> d, n |-> dataSent[d] + 1, key |-> devKey[d]]
  <2>1. f \in Frame /\ f.type = "DATA_UP" /\ f.dev = d /\ f.n = dataSent[d] + 1
    BY DEF Frame, TypeOK
  <2>2. Came(f) /\ dataSent' = [dataSent EXCEPT ![d] = @ + 1] /\ FatesStay
    BY <1>17 DEF DeviceSend, AddBulk, Came, FatesStay, Pending, loraVars, fateVars
  <2> HIDE DEF f
  <2> QED BY <2>1, <2>2 DEF UplinkMove
<1> QED BY <1>1, <1>2, <1>3, <1>4, <1>5, <1>6, <1>7, <1>8, <1>9, <1>10, <1>11, <1>12, <1>13,
   <1>14,
   <1>15, <1>16, <1>17 DEF Next, LoraStep, LoraPass, StiotStep, Environment

(* How often a frame is held, after each of the moves.                     *)
LEMMA HeldMoves ==
  ASSUME TypeOK, InHand, NEW d \in Device, NEW n \in Nat
  PROVE  /\ Held(d, n) \in Nat
         /\ AllStay \/ Drained \/ Forwarded \/ PutAside \/ OldForwarded \/ SentUp =>
              Held(d, n)' = Held(d, n)
         /\ Taken => Held(d, n)' = Held(d, n) - Hit(cur, "DATA_UP", d, n)
         /\ OldTaken => Held(d, n)' = Held(d, n) - Hit(old, "DATA_UP", d, n)
         /\ Arrived => Held(d, n)' = Held(d, n) - Hit(Head(upQ), "RXL", d, n)
         /\ \A f \in Frame : Came(f) => Held(d, n)' = Held(d, n) + Hit(f, "DATA_UP", d, n)
<1> DEFINE Occ(s) == Occurrences(s, "DATA_UP", d, n)
           RXLs(s) == Occurrences(s, "RXL", d, n)
<1>t. /\ fromLoraData \in Seq(Frame) /\ Pending \in Seq(Frame) /\ outVector \in Seq(Frame)
      /\ oldData \in Seq(Frame) /\ upQ \in Seq(Message) /\ outVector \in Seq(DataFrame)
  BY PendingType DEF TypeOK, InHand
<1>n. /\ Occ(fromLoraData) \in Nat /\ Occ(Pending) \in Nat /\ Occ(outVector) \in Nat
      /\ Occ(oldData) \in Nat /\ RXLs(upQ) \in Nat
  BY <1>t, OccType
<1>h. /\ Held(d, n) = Occ(fromLoraData) + Occ(Pending) + Occ(outVector) + Occ(oldData) + RXLs(upQ)
      /\ Held(d, n)' = Occ(fromLoraData') + Occ(Pending') + Occ(outVector') + Occ(oldData')
                         + RXLs(upQ')
  BY DEF Held
<1>i. \A m, type : Hit(m, type, d, n) \in Nat
  BY DEF Hit
<1>k. UpKept => RXLs(upQ') = RXLs(upQ)
  <2>1. ASSUME NEW m \in Message, NoData(m), upQ' = Append(upQ, m) PROVE RXLs(upQ') = RXLs(upQ)
    <3>1. RXLs(Append(upQ, m)) = RXLs(upQ) + Hit(m, "RXL", d, n)
      BY <1>t, OccAppend
    <3>2. Hit(m, "RXL", d, n) = 0
      BY <2>1 DEF NoData, Hit
    <3> QED BY <1>n, <2>1, <3>1, <3>2
  <2> QED BY <2>1 DEF UpKept
<1>e. Occ(<<>>) = 0
  BY OccEmpty
<1>c. PassDown => /\ cur \in Frame /\ Occ(Pending) = Occ(Pending') + Hit(cur, "DATA_UP", d, n)
                  /\ Occ(Pending') \in Nat
  <2> SUFFICES ASSUME PassDown
               PROVE  /\ cur \in Frame /\ Occ(Pending) = Occ(Pending') + Hit(cur, "DATA_UP", d, n)
                      /\ Occ(Pending') \in Nat
    OBVIOUS
  <2>1. loraPc \in HasFrame /\ Pending = inVector /\ Pending' = Tail(inVector)
    BY DEF PassDown
  <2>2. inVector \in Seq(Frame) /\ inVector # <<>> /\ cur \in Frame
    BY <2>1, CurProperties DEF TypeOK, InHand
  <2>3. Occ(inVector) = Occ(Tail(inVector)) + Hit(cur, "DATA_UP", d, n)
    BY <2>2, OccTail DEF cur
  <2>4. Tail(inVector) \in Seq(Frame)
    BY <2>2, HeadTailProperties
  <2>5. Occ(Tail(inVector)) \in Nat
    BY <2>4, OccType
  <2> QED BY <2>1, <2>2, <2>3, <2>5
<1>o. loraPc \in OldPc =>
        /\ old \in Frame /\ Occ(EraseAt(oldData, historyIterator)) \in Nat
        /\ Occ(oldData) = Occ(EraseAt(oldData, historyIterator)) + Hit(old, "DATA_UP", d, n)
  <2> SUFFICES ASSUME loraPc \in OldPc
               PROVE  /\ old \in Frame /\ Occ(EraseAt(oldData, historyIterator)) \in Nat
                      /\ Occ(oldData) = Occ(EraseAt(oldData, historyIterator))
                                          + Hit(old, "DATA_UP", d, n)
    OBVIOUS
  <2>1. historyIterator \in 1..Len(oldData) /\ old \in Frame
    BY OldProperties DEF DataFrame
  <2>2. EraseAt(oldData, historyIterator) \in Seq(Frame)
    BY <1>t, <2>1, EraseAtProperties
  <2>3. Occ(oldData) = Occ(EraseAt(oldData, historyIterator)) + Hit(old, "DATA_UP", d, n)
    BY <1>t, <2>1, OccEraseAt DEF old
  <2> QED BY <2>1, <2>2, <2>3, OccType
<1> HIDE DEF Occ, RXLs
<1> DEFINE Kept == Held(d, n)' = Held(d, n)
<1>1. AllStay => Kept
  BY <1>h, <1>k DEF AllStay
<1>2. Drained => Kept
  BY <1>h, <1>e, <1>n DEF Drained
<1>3. Forwarded => Kept
  <2> SUFFICES ASSUME Forwarded PROVE Kept
    OBVIOUS
  <2>1. PassDown
    BY DEF Forwarded
  <2>2. Occ(Append(outVector, cur)) = Occ(outVector) + Hit(cur, "DATA_UP", d, n)
    BY <1>t, <1>c, <2>1, OccAppend DEF Occ
  <2>3. /\ Occ(fromLoraData') = Occ(fromLoraData) /\ Occ(oldData') = Occ(oldData)
        /\ RXLs(upQ') = RXLs(upQ) /\ Occ(outVector') = Occ(outVector) + Hit(cur, "DATA_UP", d, n)
    BY <2>2 DEF Forwarded
  <2> QED BY <1>h, <1>c, <1>n, <1>i, <2>1, <2>3
<1>4. PutAside => Kept
  <2> SUFFICES ASSUME PutAside PROVE Kept
    OBVIOUS
  <2>1. PassDown /\ UpKept
    BY DEF PutAside
  <2>2. Occ(Append(oldData, cur)) = Occ(oldData) + Hit(cur, "DATA_UP", d, n)
    BY <1>t, <1>c, <2>1, OccAppend DEF Occ
  <2>3. /\ Occ(fromLoraData') = Occ(fromLoraData) /\ Occ(outVector') = Occ(outVector)
        /\ Occ(oldData') = Occ(oldData) + Hit(cur, "DATA_UP", d, n)
    BY <2>2 DEF PutAside
  <2> QED BY <1>h, <1>c, <1>n, <1>i, <1>k, <2>1, <2>3
<1>5. OldForwarded => Kept
  <2> SUFFICES ASSUME OldForwarded PROVE Kept
    OBVIOUS
  <2>1. loraPc \in OldPc
    BY DEF OldForwarded
  <2>2. Occ(Append(outVector, old)) = Occ(outVector) + Hit(old, "DATA_UP", d, n)
    BY <1>t, <1>o, <2>1, OccAppend DEF Occ
  <2>3. /\ Occ(fromLoraData') = Occ(fromLoraData) /\ Occ(Pending') = Occ(Pending)
        /\ Occ(outVector') = Occ(outVector) + Hit(old, "DATA_UP", d, n)
        /\ Occ(oldData') = Occ(EraseAt(oldData, historyIterator)) /\ RXLs(upQ') = RXLs(upQ)
    BY <2>2 DEF OldForwarded
  <2> QED BY <1>h, <1>o, <1>n, <1>i, <2>1, <2>3
<1>6. SentUp => Kept
  <2> SUFFICES ASSUME SentUp PROVE Kept
    OBVIOUS
  <2> DEFINE up == [i \in 1..Len(outVector) |-> RXL(outVector[i])]
  <2>1. up \in Seq(Message)
    <3>1. \A i \in 1..Len(outVector) : RXL(outVector[i]) \in Message
      <4>1. \A i \in 1..Len(outVector) : outVector[i] \in Frame
        BY <1>t, ElementOfSeq
      <4> QED BY <4>1 DEF RXL, Msg, Message, Frame
    <3> QED BY <1>t, <3>1, ForwardedType
  <2>2. RXLs(up) = Occ(outVector)
    BY <1>t, OccForwarded DEF RXLs, Occ
  <2>3. upQ' = upQ \o up /\ outVector' = <<>>
    BY DEF SentUp
  <2> HIDE DEF up
  <2>4. RXLs(upQ \o up) = RXLs(upQ) + RXLs(up)
    BY <1>t, <2>1, OccConcat DEF RXLs
  <2>5. /\ Occ(fromLoraData') = Occ(fromLoraData) /\ Occ(Pending') = Occ(Pending)
        /\ Occ(oldData') = Occ(oldData) /\ Occ(outVector') = 0
        /\ RXLs(upQ') = RXLs(upQ) + Occ(outVector)
    BY <1>e, <2>2, <2>3, <2>4 DEF SentUp
  <2> QED BY <1>h, <1>n, <2>5
<1>7. Taken => Held(d, n)' = Held(d, n) - Hit(cur, "DATA_UP", d, n)
  BY <1>h, <1>c, <1>n, <1>i, <1>k DEF Taken
<1>8. OldTaken => Held(d, n)' = Held(d, n) - Hit(old, "DATA_UP", d, n)
  BY <1>h, <1>o, <1>n, <1>i DEF OldTaken
<1>9. Arrived => Held(d, n)' = Held(d, n) - Hit(Head(upQ), "RXL", d, n)
  <2> DEFINE hit  == Hit(Head(upQ), "RXL", d, n)
             tail == Tail(upQ)
  <2> SUFFICES ASSUME Arrived PROVE Held(d, n)' = Held(d, n) - hit
    OBVIOUS
  <2>1. upQ # <<>> /\ upQ' = tail
    BY DEF Arrived
  <2>2. RXLs(upQ) = RXLs(tail) + hit
    BY <1>t, <2>1, OccTail DEF RXLs
  <2>3. RXLs(tail) \in Nat /\ hit \in Nat
    BY <1>t, <1>i, <2>1, OccType, HeadTailProperties DEF RXLs
  <2> HIDE DEF hit, tail
  <2>4. /\ Occ(fromLoraData') = Occ(fromLoraData) /\ Occ(Pending') = Occ(Pending)
        /\ Occ(oldData') = Occ(oldData) /\ Occ(outVector') = Occ(outVector)
        /\ RXLs(upQ') = RXLs(tail)
    BY <2>1 DEF Arrived
  <2>5. Held(d, n)' = Occ(fromLoraData) + Occ(Pending) + Occ(outVector) + Occ(oldData) + RXLs(tail)
    BY <1>h, <2>4
  <2> QED BY <1>h, <1>n, <2>2, <2>3, <2>5
<1>10. ASSUME NEW f \in Frame, Came(f) PROVE Held(d, n)' = Held(d, n) + Hit(f, "DATA_UP", d, n)
  <2>1. Occ(Append(fromLoraData, f)) = Occ(fromLoraData) + Hit(f, "DATA_UP", d, n)
    BY <1>t, OccAppend DEF Occ
  <2>2. /\ Occ(fromLoraData') = Occ(fromLoraData) + Hit(f, "DATA_UP", d, n)
        /\ Occ(Pending') = Occ(Pending) /\ Occ(oldData') = Occ(oldData)
        /\ Occ(outVector') = Occ(outVector) /\ RXLs(upQ') = RXLs(upQ)
    BY <1>10, <2>1 DEF Came
  <2> QED BY <1>h, <1>n, <1>i, <2>2
<1>11. Held(d, n) \in Nat
  BY <1>h, <1>n
<1> QED BY <1>1, <1>2, <1>3, <1>4, <1>5, <1>6, <1>7, <1>8, <1>9, <1>10, <1>11

(* What is held when the process dies, and only that, is in memory.        *)
LEMMA OccFrames ==
  ASSUME NEW S, NEW s \in Seq(S), NEW d, NEW n
  PROVE  /\ <<d, n>> \in FramesIn(s) <=> Occurrences(s, "DATA_UP", d, n) # 0
         /\ <<d, n>> \in RXLsIn(s) <=> Occurrences(s, "RXL", d, n) # 0
<1>1. DOMAIN s = 1..Len(s)
  BY LenProperties
<1>2. \A type : Occurrences(s, type, d, n) = 0 <=> \A i \in 1..Len(s) : Hit(s[i], type, d, n) = 0
  BY OccZero
<1>3. \A i, type : Hit(s[i], type, d, n) # 0 <=> s[i].type = type /\ s[i].dev = d /\ s[i].n = n
  BY DEF Hit
<1>4. <<d, n>> \in FramesIn(s) <=> \E i \in 1..Len(s) : Hit(s[i], "DATA_UP", d, n) # 0
  <2>1. <<d, n>> \in FramesIn(s) <=>
          \E i \in DOMAIN s : s[i].type = "DATA_UP" /\ <<d, n>> = <<s[i].dev, s[i].n>>
    BY DEF FramesIn
  <2> QED BY <1>1, <1>3, <2>1
<1>5. <<d, n>> \in RXLsIn(s) <=> \E i \in 1..Len(s) : Hit(s[i], "RXL", d, n) # 0
  <2>1. <<d, n>> \in RXLsIn(s) <=>
          \E i \in DOMAIN s : s[i].type = "RXL" /\ <<d, n>> = <<s[i].dev, s[i].n>>
    BY DEF RXLsIn
  <2> QED BY <1>1, <1>3, <2>1
<1> QED BY <1>2, <1>4, <1>5

(* A frame that is held is in memory, and what is in memory was sent by a  *)
(* device.                                                                 *)
LEMMA HeldInMemory ==
  ASSUME TypeOK, InHand, FrameOrder, Conserved, NEW d \in Device, NEW n \in Nat
  PROVE  /\ Held(d, n) # 0 => <<d, n>> \in InMemory
         /\ <<d, n>> \in InMemory => n \in 1..dataSent[d]
<1>t. /\ fromLoraData \in Seq(Frame) /\ Pending \in Seq(Frame) /\ outVector \in Seq(Frame)
      /\ oldData \in Seq(Frame) /\ upQ \in Seq(Message) /\ inVector \in Seq(Frame)
  BY PendingType DEF TypeOK
<1> DEFINE here(s) == <<d, n>> \in FramesIn(s)
           Occ(s)  == Occurrences(s, "DATA_UP", d, n)
<1>1. /\ here(fromLoraData) <=> Occ(fromLoraData) # 0
      /\ here(Pending) <=> Occ(Pending) # 0
      /\ here(outVector) <=> Occ(outVector) # 0
      /\ here(oldData) <=> Occ(oldData) # 0
      /\ <<d, n>> \in RXLsIn(upQ) <=> Occurrences(upQ, "RXL", d, n) # 0
  BY <1>t, OccFrames
<1>2. /\ Occ(fromLoraData) \in Nat /\ Occ(Pending) \in Nat /\ Occ(outVector) \in Nat
      /\ Occ(oldData) \in Nat /\ Occurrences(upQ, "RXL", d, n) \in Nat
  BY <1>t, OccType
<1>3. here(Pending) => here(inVector)
  <2>1. CASE Pending = inVector
    BY <2>1
  <2>2. CASE loraPc \in {"hasCheck", "check", "keys"}
    <3>1. /\ Pending = Tail(inVector) /\ Len(Tail(inVector)) = Len(inVector) - 1
          /\ Len(inVector) \in Nat /\ \A i \in 1..(Len(inVector) - 1) : Pending[i] = inVector[i + 1]
      BY <2>2, CurProperties DEF HasFrame, Pending
    <3>2. DOMAIN Pending = 1..(Len(inVector) - 1) /\ DOMAIN inVector = 1..Len(inVector)
      BY <1>t, <3>1, LenProperties
    <3>3. \A i \in DOMAIN Pending : i + 1 \in DOMAIN inVector /\ inVector[i + 1] = Pending[i]
      BY <3>1, <3>2
    <3> QED BY <3>3 DEF FramesIn
  <2> QED BY <2>1, <2>2 DEF Pending
<1>4. Held(d, n) # 0 => <<d, n>> \in InMemory
  BY <1>1, <1>2, <1>3 DEF Held, InMemory
<1>5. Occ(outVector) # 0 \/ Occurrences(upQ, "RXL", d, n) # 0 => n \in 1..dataSent[d]
  <2>1. Fates(d, n) \in Nat
    BY DEF Fates, One
  <2>2. Held(d, n) + Fates(d, n) = One(n \in 1..dataSent[d])
    BY DEF Conserved
  <2>3. n \notin 1..dataSent[d] => Held(d, n) + Fates(d, n) = 0
    BY <2>2 DEF One
  <2>4. /\ Held(d, n) \in Nat
        /\ Occ(outVector) # 0 \/ Occurrences(upQ, "RXL", d, n) # 0 => Held(d, n) # 0
    <3> DEFINE a == Occ(fromLoraData)
               b == Occ(Pending)
               c == Occ(outVector)
               x == Occ(oldData)
               y == Occurrences(upQ, "RXL", d, n)
               h == Held(d, n)
    <3>1. h = a + b + c + x + y
      BY DEF Held
    <3>2. a \in Nat /\ b \in Nat /\ c \in Nat /\ x \in Nat /\ y \in Nat
      BY <1>2
    <3> HIDE DEF a, b, c, x, y, h
    <3>3. h \in Nat /\ (c # 0 \/ y # 0 => h # 0)
      BY <3>1, <3>2
    <3> QED BY <3>3 DEF c, y, h
  <2> QED BY <2>1, <2>3, <2>4
<1>6. ASSUME NEW s \in Seq(Frame), \A i \in 1..Len(s) : Numbered(s[i]), here(s)
      PROVE  n \in 1..dataSent[d]
  <2>1. DOMAIN s = 1..Len(s)
    BY LenProperties
  <2> QED BY <1>6, <2>1 DEF FramesIn, Numbered
<1>7. here(fromLoraData) \/ here(inVector) \/ here(oldData) => n \in 1..dataSent[d]
  BY <1>t, <1>6 DEF FrameOrder
<1> QED BY <1>1, <1>4, <1>5, <1>7 DEF InMemory

HeldNumbers == \A d \in Device, n \in Nat : Held(d, n) \in Nat
(* The places are numbers.                                                 *)
LEMMA HeldType == TypeOK /\ InHand => HeldNumbers
BY HeldMoves DEF HeldNumbers

(* Each step moves a frame, or decides its fate, and never both twice.     *)
LEMMA ConservedStep ==
  ASSUME TypeOK, InHand, FrameOrder, Conserved, TypeOK', InHand', [Next]_vars
  PROVE  Conserved'
<1> SUFFICES ASSUME NEW d \in Device, NEW n \in Nat
             PROVE  Held(d, n)' + Fates(d, n)' = One(n \in 1..dataSent'[d])
  BY DEF Conserved, One
<1> DEFINE Goal == Held(d, n)' + Fates(d, n)' = One(n \in 1..dataSent'[d])
<1>h. Held(d, n) \in Nat /\ Held(d, n)' \in Nat
  <2>1. (TypeOK /\ InHand => HeldNumbers)'
    BY HeldType, PTL
  <2> QED BY <2>1, HeldType DEF HeldNumbers
<1>c. Held(d, n) + Fates(d, n) = One(n \in 1..dataSent[d])
  BY DEF Conserved
<1>s. dataSent[d] \in Nat /\ dataSent \in [Device -> Nat]
  BY DEF TypeOK
<1>f. /\ Fates(d, n) = One(<<d, n>> \in delivered) + One(<<d, n>> \in discarded)
                         + One(<<d, n>> \in lost)
      /\ Fates(d, n)' = One(<<d, n>> \in delivered') + One(<<d, n>> \in discarded')
                          + One(<<d, n>> \in lost')
  BY DEF Fates, One
<1>o. \A P \in BOOLEAN : One(P) \in {0, 1} /\ (One(P) = 1 <=> P)
  BY DEF One
<1>1. CASE Restart
  <2>1. /\ <<d, n>> \in lost' <=> \/ <<d, n>> \in lost
                                  \/ /\ <<d, n>> \in InMemory
                                     /\ <<d, n>> \notin delivered /\ <<d, n>> \notin discarded
        /\ delivered' = delivered /\ discarded' = discarded /\ dataSent' = dataSent
    BY <1>1 DEF Restart, envVars
  <2>2. /\ fromLoraData' = <<>> /\ Pending' = <<>> /\ outVector' = <<>> /\ oldData' = <<>>
        /\ upQ' = <<>>
    BY <1>1 DEF Restart, Pending
  <2>3. Held(d, n)' = 0
    BY <2>2, OccEmpty DEF Held
  <2>4. /\ Held(d, n) # 0 => <<d, n>> \in InMemory
        /\ <<d, n>> \in InMemory => n \in 1..dataSent[d]
    BY HeldInMemory
  <2> QED BY <1>h, <1>c, <1>f, <2>1, <2>3, <2>4 DEF One
<1>2. CASE ~Restart
  <2>1. UplinkMove
    BY <1>2, UplinkMoves
  <2>2. /\ AllStay \/ Drained \/ Forwarded \/ PutAside \/ OldForwarded \/ SentUp =>
             Held(d, n)' = Held(d, n)
        /\ Taken => Held(d, n)' = Held(d, n) - Hit(cur, "DATA_UP", d, n)
        /\ OldTaken => Held(d, n)' = Held(d, n) - Hit(old, "DATA_UP", d, n)
        /\ Arrived => Held(d, n)' = Held(d, n) - Hit(Head(upQ), "RXL", d, n)
        /\ \A f \in Frame : Came(f) => Held(d, n)' = Held(d, n) + Hit(f, "DATA_UP", d, n)
    BY HeldMoves
  <2>3. CASE /\ dataSent' = dataSent /\ FatesStay
             /\ AllStay \/ Drained \/ Forwarded \/ PutAside \/ OldForwarded \/ SentUp
    BY <1>c, <1>f, <2>2, <2>3 DEF FatesStay
  <2>4. CASE dataSent' = dataSent /\ FatesStay /\ Taken /\ cur.type = "REGISTER_UP"
    <3>1. Hit(cur, "DATA_UP", d, n) = 0
      BY <2>4 DEF Hit
    <3> QED BY <1>h, <1>c, <1>f, <2>2, <2>4, <3>1 DEF FatesStay
  <2>5. ASSUME NEW f, f.type = "DATA_UP", GivenUp(f), dataSent' = dataSent,
               Held(d, n)' = Held(d, n) - Hit(f, "DATA_UP", d, n)
        PROVE  Goal
    <3>1. CASE f.dev = d /\ f.n = n
      <4>1. Held(d, n)' = Held(d, n) - 1 /\ <<d, n>> \in discarded'
        BY <2>5, <3>1 DEF Hit, GivenUp
      <4> QED BY <1>h, <1>c, <1>f, <2>5, <4>1 DEF One, GivenUp
    <3>2. CASE ~(f.dev = d /\ f.n = n)
      <4>1. Held(d, n)' = Held(d, n) /\ (<<d, n>> \in discarded' <=> <<d, n>> \in discarded)
        BY <1>h, <2>5, <3>2 DEF Hit, GivenUp
      <4> QED BY <1>c, <1>f, <2>5, <4>1 DEF One, GivenUp
    <3> QED BY <3>1, <3>2
  <2>6. CASE dataSent' = dataSent /\ GivenUp(cur) /\ Taken /\ cur.type = "DATA_UP"
    BY <2>2, <2>5, <2>6
  <2>7. CASE dataSent' = dataSent /\ GivenUp(old) /\ OldTaken
    <3>1. old.type = "DATA_UP"
      BY <2>7, OldProperties DEF OldTaken, DataFrame
    <3> QED BY <2>2, <2>5, <2>7, <3>1
  <2>8. CASE /\ dataSent' = dataSent /\ Arrived /\ discarded' = discarded /\ lost' = lost
             /\ delivered' = IF Head(upQ).type = "RXL"
                             THEN delivered \cup {<<Head(upQ).dev, Head(upQ).n>>} ELSE delivered
    <3> DEFINE m == Head(upQ)
    <3>1. /\ Held(d, n)' = Held(d, n) - Hit(m, "RXL", d, n)
          /\ delivered' = IF m.type = "RXL" THEN delivered \cup {<<m.dev, m.n>>} ELSE delivered
      BY <2>2, <2>8
    <3> HIDE DEF m
    <3>2. CASE m.type = "RXL" /\ m.dev = d /\ m.n = n
      <4>1. Held(d, n)' = Held(d, n) - 1 /\ <<d, n>> \in delivered'
        BY <3>1, <3>2 DEF Hit
      <4> QED BY <1>h, <1>c, <1>f, <2>8, <4>1 DEF One
    <3>3. CASE ~(m.type = "RXL" /\ m.dev = d /\ m.n = n)
      <4>1. Held(d, n)' = Held(d, n) /\ (<<d, n>> \in delivered' <=> <<d, n>> \in delivered)
        BY <1>h, <3>1, <3>3 DEF Hit
      <4> QED BY <1>c, <1>f, <2>8, <4>1 DEF One
    <3> QED BY <3>2, <3>3
  <2>9. ASSUME NEW f \in Frame, Came(f), f.type = "REGISTER_UP", dataSent' = dataSent, FatesStay
        PROVE  Goal
    <3>1. Hit(f, "DATA_UP", d, n) = 0
      BY <2>9 DEF Hit
    <3> QED BY <1>h, <1>c, <1>f, <2>2, <2>9, <3>1 DEF FatesStay
  <2>10. ASSUME NEW f \in Frame, Came(f), f.type = "DATA_UP", f.n = dataSent[f.dev] + 1, FatesStay,
                dataSent' = [dataSent EXCEPT ![f.dev] = @ + 1]
         PROVE  Goal
    <3>1. Held(d, n)' = Held(d, n) + Hit(f, "DATA_UP", d, n) /\ Fates(d, n)' = Fates(d, n)
      BY <1>f, <2>2, <2>10 DEF FatesStay
    <3>2. Fates(d, n) \in Nat /\ f.dev \in Device
      BY DEF Fates, One, Frame
    <3>3. CASE f.dev = d
      <4>1. dataSent'[d] = dataSent[d] + 1 /\ f.n = dataSent[d] + 1
        BY <1>s, <2>10, <3>3
      <4>2. n \in 1..dataSent'[d] <=> n \in 1..dataSent[d] \/ n = dataSent[d] + 1
        BY <1>s, <4>1
      <4> QED BY <1>h, <1>c, <1>s, <2>10, <3>1, <3>2, <3>3, <4>1, <4>2 DEF Hit, One
    <3>4. CASE f.dev # d
      <4>1. Hit(f, "DATA_UP", d, n) = 0 /\ dataSent'[d] = dataSent[d]
        BY <1>s, <2>10, <3>2, <3>4 DEF Hit
      <4> QED BY <1>h, <1>c, <3>1, <4>1
    <3> QED BY <3>3, <3>4
  <2> QED BY <2>1, <2>3, <2>4, <2>6, <2>7, <2>8, <2>9, <2>10 DEF UplinkMove
<1> QED BY <1>1, <1>2

(* Conserved holds when the gateway starts.                                *)
LEMMA InitConserved == Init => Conserved
<1> SUFFICES ASSUME Init, NEW d \in Device, NEW n \in Nat
             PROVE  Held(d, n) + Fates(d, n) = One(n \in 1..dataSent[d])
  BY DEF Conserved
<1>1. /\ fromLoraData = <<>> /\ Pending = <<>> /\ outVector = <<>> /\ oldData = <<>> /\ upQ = <<>>
      /\ delivered = {} /\ discarded = {} /\ lost = {} /\ dataSent[d] = 0
  BY DEF Init, InitGateway, Pending
<1>2. Held(d, n) = 0
  BY <1>1, OccEmpty DEF Held
<1>3. Fates(d, n) = 0 /\ n \notin 1..dataSent[d]
  BY <1>1 DEF Fates, One
<1> QED BY <1>2, <1>3 DEF One

(* Each data frame is held in one place or has one fate; a number no       *)
(* device has used is nowhere.                                             *)
THEOREM ConservationInvariant == Spec => []Conserved
<1>1. /\ Base => TypeOK /\ InHand
      /\ Numbers => FrameOrder
  BY DEF Base, Numbers
<1>2. TypeOK /\ InHand /\ FrameOrder /\ Conserved /\ TypeOK' /\ InHand' /\ [Next]_vars => Conserved'
  BY ConservedStep
<1> QED BY <1>1, <1>2, InitConserved, BaseInvariant, NumbersInvariant, PTL DEF Spec

(* Every data frame the gateway has received is in exactly one place: a    *)
(* queue, the pass, the cache, on its way, delivered, or given up.         *)
THEOREM UplinkIsConserved == Spec => []UplinkConservation
<1>1. TypeOK /\ InHand /\ Conserved => UplinkConservation
  <2> SUFFICES ASSUME TypeOK, InHand, Conserved, NEW d \in Device, NEW n \in 1..dataSent[d]
               PROVE  Places(d, n) = 1
    BY DEF UplinkConservation
  <2>1. n \in Nat
    BY DEF TypeOK
  <2> QED BY <2>1, PlacesSum DEF Conserved, One
<1>2. Base => TypeOK /\ InHand
  BY DEF Base
<1> QED BY <1>1, <1>2, ConservationInvariant, BaseInvariant, PTL

=============================================================================
