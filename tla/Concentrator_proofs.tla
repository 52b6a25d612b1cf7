------------------------ MODULE Concentrator_proofs ------------------------
(***************************************************************************)
(* Proofs about Concentrator, for any number of SETAs, downlinks and polls:*)
(* the order of the downlinks, the absence of lost wake-ups and of         *)
(* overruns.                                                               *)
(***************************************************************************)
EXTENDS Concentrator, SequenceTheorems, TLAPS

(* Each thread is at one of its own steps.                                 *)
Label  == UNION {Pc[t] : t \in Thread}
PcOK   == pc \in [Thread -> Label] /\ \A t \in Thread : pc[t] \in Pc[t]

(* Where the sender has queueMutex, and where it has a downlink in hand.   *)
HoldsQueue == {"test", "loop", "drain", "status", "emit"}
HasMsg     == {"status", "emit"}

(* The sender has queueMutex from its lock to its wait, and nobody else    *)
(* keeps it over a step.                                                   *)
QueueOwner == owner["queueMutex"] = IF pc["send"] \in HoldsQueue THEN "send" ELSE "free"

(* A thread is created only when none is attached to its object, so there  *)
(* is never a second sender or receiver, none starts with a downlink in    *)
(* hand, and none takes the place of one that is in stop().                *)
WorkersJoinable == \A t \in {"send", "receive"} :
                      pc[t] \notin {"none", "dead"} => t \in joinable

MsgInHand == IF pc["send"] \in HasMsg THEN Len(msg) = 1 ELSE msg = <<>>

(* Who has cleared the flag since the sender tested it still has to lock   *)
(* queueMutex, which the sender has until it waits.                        *)
StopBeforeWait ==
  pc["send"] = "loop" => sendRun \/ \E t \in Stoppable : pc[t] = "stop2"

(* Only the sender puts the transmitter to work.                           *)
EmitsIntoSilence == pc["send"] = "emit" => tx = "free"

(* What was taken came from the front: no number above those taken so far. *)
SentSoFar == \A i \in DOMAIN sent : sent[i] <= Len(sent) + Len(failed)

Control == PcOK /\ QueueOwner /\ WorkersJoinable /\ MsgInHand
IInv == /\ TypeOK /\ Control
        /\ SentSoFar /\ InOrder
        /\ StopBeforeWait /\ NoLostWakeup
        /\ EmitsIntoSilence /\ NoOverrun

-----------------------------------------------------------------------------
(* The invariant holds at the start.                                       *)
LEMMA InitIInv == Init => IInv
<1> SUFFICES ASSUME Init PROVE IInv
  OBVIOUS
<1>1. /\ pc["send"] = "none" /\ pc["receive"] = "none" /\ serverData = <<>> /\ msg = <<>> /\ sent = <<>>
      /\ failed = <<>> /\ downs = 0 /\ overrun = FALSE
  BY DEF Init
<1>2. PcOK
  BY DEF Init, PcOK, Label, Pc, Thread, StopPc, JoinPc
<1>3. TypeOK
  <2>1. /\ sendRun \in BOOLEAN /\ receiveRun \in BOOLEAN /\ hal \in BOOLEAN
        /\ convRun \in BOOLEAN /\ connRun \in BOOLEAN /\ notified \in BOOLEAN
        /\ signalled \in BOOLEAN /\ oneTime \in BOOLEAN /\ crashed \in BOOLEAN
        /\ overrun \in BOOLEAN
    BY Zenon DEF Init
  <2>2. /\ owner \in [Mutex -> Thread \cup {"free"}] /\ joinable \subseteq {"send", "receive"}
        /\ tx \in {"free", "emitting"}
        /\ setas \in 0..MaxSeta /\ downs \in 0..MaxDown /\ polls \in 0..MaxRx
    BY BoundsAssumption DEF Init
  <2>3. /\ serverData \in Seq(1..MaxDown) /\ msg \in Seq(1..MaxDown) /\ Len(msg) <= 1
        /\ sent \in Seq(1..MaxDown) /\ failed \in Seq(1..MaxDown)
    BY <1>1
  <2> QED BY <1>2, <2>1, <2>2, <2>3 DEF TypeOK, PcOK
<1>4. QueueOwner
  BY <1>1 DEF Init, QueueOwner, HoldsQueue, Mutex
<1>5. WorkersJoinable /\ MsgInHand /\ StopBeforeWait /\ EmitsIntoSilence
  BY <1>1 DEF WorkersJoinable, MsgInHand, HasMsg, StopBeforeWait, EmitsIntoSilence
<1>6. SentSoFar /\ InOrder
  BY <1>1 DEF SentSoFar, InOrder
<1>7. NoLostWakeup /\ NoOverrun
  BY <1>1 DEF NoLostWakeup, NoOverrun, At
<1> QED BY <1>2, <1>3, <1>4, <1>5, <1>6, <1>7 DEF IInv, Control

(* No step takes a thread out of its own code.                             *)
LEMMA PcStep == PcOK /\ [Next]_vars => PcOK'
<1> SUFFICES ASSUME PcOK, [Next]_vars PROVE PcOK'
  OBVIOUS
<1> USE DEF PcOK, Label, Thread, Pc, At, Goto, StopPc, JoinPc
<1>1. CASE SendStep
  BY <1>1 DEF SendStep, SendLockQueue, SendTest, SendWait, SendWake, SendPop, SendDrained,
     SendStatus, SendEmit
<1>2. CASE ReceiveStep
  BY <1>2 DEF ReceiveStep, ReceiveTest, ReceiveNothing, ReceivePackets, ReceiveError,
     ReceiveEnd
<1>3. CASE Stop
  BY <1>3 DEF Stop, Stoppable, StopLockSend, StopClear, StopLockQueue, StopNotify, AfterStop
<1>4. CASE Join
  BY <1>4 DEF Join, Joiner, JoinTest, JoinThread, JoinHal, AfterJoin
<1>5. CASE StiotStep
  BY <1>5 DEF StiotStep, StiotSeta, StartConcentrator, SpawnReceive, SpawnSend, StiotPush,
     StiotNotify, StiotEnd
<1>6. CASE MainStep
  BY <1>6 DEF MainStep, Signal, MainJoin, MainExit
<1>7. CASE TxDone \/ SpuriousWake \/ UNCHANGED vars
  BY <1>7 DEF TxDone, SpuriousWake, vars
<1> QED BY <1>1, <1>2, <1>3, <1>4, <1>5, <1>6, <1>7 DEF Next

(* What the steps of the other threads leave to the sender.                *)
LEMMA OthersKeep ==
  ASSUME PcOK, ReceiveStep \/ Stop \/ Join \/ StiotStep \/ MainStep \/ TxDone \/ SpuriousWake
  PROVE  /\ pc'["send"] = pc["send"] \/ SpawnSend
         /\ UNCHANGED <<msg, sent, failed, overrun>>
         /\ tx' \in {tx, "free"}
         /\ UNCHANGED serverData \/ StiotPush
<1> USE DEF PcOK, Label, Thread, Pc, At, Goto, StopPc, JoinPc, queueVars
<1>1. CASE ReceiveStep
  BY <1>1 DEF ReceiveStep, ReceiveTest, ReceiveNothing, ReceivePackets, ReceiveError,
     ReceiveEnd
<1>2. CASE Stop
  BY <1>2 DEF Stop, Stoppable, StopLockSend, StopClear, StopLockQueue, StopNotify
<1>3. CASE Join
  BY <1>3 DEF Join, Joiner, JoinTest, JoinThread, JoinHal
<1>4. CASE StiotStep
  BY <1>4 DEF StiotStep, StiotSeta, StartConcentrator, SpawnReceive, SpawnSend, StiotPush,
     StiotNotify, StiotEnd
<1>5. CASE MainStep
  BY <1>5 DEF MainStep, Signal, MainJoin, MainExit
<1>6. CASE TxDone \/ SpuriousWake
  BY <1>6 DEF TxDone, SpuriousWake
<1> QED BY <1>1, <1>2, <1>3, <1>4, <1>5, <1>6

(* The ranges of the data.                                                 *)
Flags ==
  /\ sendRun \in BOOLEAN /\ receiveRun \in BOOLEAN /\ hal \in BOOLEAN
  /\ convRun \in BOOLEAN /\ connRun \in BOOLEAN /\ notified \in BOOLEAN
  /\ signalled \in BOOLEAN /\ oneTime \in BOOLEAN /\ crashed \in BOOLEAN
  /\ overrun \in BOOLEAN
Ranges ==
  /\ owner \in [Mutex -> Thread \cup {"free"}]
  /\ joinable \subseteq {"send", "receive"} /\ tx \in {"free", "emitting"}
  /\ setas \in 0..MaxSeta /\ downs \in 0..MaxDown /\ polls \in 0..MaxRx
Downlinks == 
  /\ serverData \in Seq(1..MaxDown) /\ msg \in Seq(1..MaxDown)
  /\ sent \in Seq(1..MaxDown) /\ failed \in Seq(1..MaxDown)

(* Flags, owners and the threads attached to their objects keep their      *)
(* types.                                                                  *)
LEMMA FlagsStep == ASSUME TypeOK, [Next]_vars PROVE Flags'
<1> USE DEF Flags, TypeOK, queueVars, flagVars, appVars, NotifyOne
<1>1. CASE SendStep
  <2>1. CASE SendLockQueue
    BY <2>1 DEF SendLockQueue
  <2>2. CASE SendTest
    BY <2>2 DEF SendTest
  <2>3. CASE SendWait
    BY <2>3 DEF SendWait
  <2>4. CASE SendWake
    BY <2>4 DEF SendWake
  <2>5. CASE SendPop
    BY <2>5 DEF SendPop
  <2>6. CASE SendDrained
    BY <2>6 DEF SendDrained
  <2>7. CASE SendStatus
    BY <2>7 DEF SendStatus
  <2>8. CASE SendEmit
    BY <2>8 DEF SendEmit
  <2> QED BY <1>1, <2>1, <2>2, <2>3, <2>4, <2>5, <2>6, <2>7, <2>8 DEF SendStep
<1>2. CASE ReceiveStep
  <2>1. CASE ReceiveTest
    BY <2>1 DEF ReceiveTest
  <2>2. CASE ReceiveNothing
    BY <2>2 DEF ReceiveNothing
  <2>3. CASE ReceivePackets
    BY <2>3 DEF ReceivePackets
  <2>4. CASE ReceiveError
    BY <2>4 DEF ReceiveError
  <2>5. CASE ReceiveEnd
    BY <2>5 DEF ReceiveEnd
  <2> QED BY <1>2, <2>1, <2>2, <2>3, <2>4, <2>5 DEF ReceiveStep
<1>3. CASE Stop
  BY <1>3 DEF Stop, StopLockSend, StopClear, StopLockQueue, StopNotify
<1>4. CASE Join
  BY <1>4 DEF Join, JoinTest, JoinThread, JoinHal
<1>5. CASE StiotStep
  <2>1. CASE StiotSeta
    BY <2>1 DEF StiotSeta
  <2>2. CASE StartConcentrator
    BY <2>2 DEF StartConcentrator
  <2>3. CASE SpawnReceive
    BY <2>3 DEF SpawnReceive
  <2>4. CASE SpawnSend
    BY <2>4 DEF SpawnSend
  <2>5. CASE StiotPush
    BY <2>5 DEF StiotPush
  <2>6. CASE StiotNotify
    BY <2>6 DEF StiotNotify
  <2>7. CASE StiotEnd
    BY <2>7 DEF StiotEnd
  <2> QED BY <1>5, <2>1, <2>2, <2>3, <2>4, <2>5, <2>6, <2>7 DEF StiotStep
<1>6. CASE MainStep
  <2>1. CASE Signal
    BY <2>1 DEF Signal
  <2>2. CASE MainJoin
    BY <2>2 DEF MainJoin
  <2>3. CASE MainExit
    BY <2>3 DEF MainExit
  <2> QED BY <1>6, <2>1, <2>2, <2>3 DEF MainStep
<1>7. CASE TxDone \/ SpuriousWake \/ UNCHANGED vars
  <2>1. CASE TxDone
    BY <2>1 DEF TxDone
  <2>2. CASE SpuriousWake
    BY <2>2 DEF SpuriousWake
  <2>3. CASE UNCHANGED vars
    BY <2>3 DEF vars
  <2> QED BY <1>7, <2>1, <2>2, <2>3
<1> QED BY <1>1, <1>2, <1>3, <1>4, <1>5, <1>6, <1>7 DEF Next

(* Counters and the transmitter stay in their ranges.                      *)
LEMMA RangesStep == ASSUME TypeOK, [Next]_vars PROVE Ranges'
<1> USE BoundsAssumption DEF Ranges, TypeOK, queueVars, flagVars, appVars, Lock, Unlock, Thread, Mutex
<1>1. CASE SendStep
  BY <1>1 DEF SendStep, SendLockQueue, SendTest, SendWait, SendWake, SendPop, SendDrained,
     SendStatus, SendEmit
<1>2. CASE ReceiveStep
  <2>1. CASE ReceiveTest
    BY <2>1 DEF ReceiveTest
  <2>2. CASE ReceiveNothing
    BY <2>2 DEF ReceiveNothing
  <2>3. CASE ReceivePackets
    BY <2>3 DEF ReceivePackets
  <2>4. CASE ReceiveError
    BY <2>4 DEF ReceiveError
  <2>5. CASE ReceiveEnd
    BY <2>5 DEF ReceiveEnd
  <2> QED BY <1>2, <2>1, <2>2, <2>3, <2>4, <2>5 DEF ReceiveStep
<1>3. CASE Stop
  <2> SUFFICES ASSUME NEW t \in Thread, StopLockSend(t) \/ StopClear(t) \/ StopLockQueue(t) \/ StopNotify(t)
               PROVE  Ranges'
    BY <1>3 DEF Stop, Stoppable
  <2>1. CASE StopLockSend(t)
    BY <2>1 DEF StopLockSend
  <2>2. CASE StopClear(t)
    BY <2>2 DEF StopClear
  <2>3. CASE StopLockQueue(t)
    BY <2>3 DEF StopLockQueue
  <2>4. CASE StopNotify(t)
    BY <2>4 DEF StopNotify
  <2> QED BY <2>1, <2>2, <2>3, <2>4
<1>4. CASE Join
  BY <1>4 DEF Join, JoinTest, JoinThread, JoinHal
<1>5. CASE StiotStep
  <2>1. CASE StiotSeta
    BY <2>1 DEF StiotSeta
  <2>2. CASE StartConcentrator
    BY <2>2 DEF StartConcentrator
  <2>3. CASE SpawnReceive
    BY <2>3 DEF SpawnReceive
  <2>4. CASE SpawnSend
    BY <2>4 DEF SpawnSend
  <2>5. CASE StiotPush
    BY <2>5 DEF StiotPush
  <2>6. CASE StiotNotify
    BY <2>6 DEF StiotNotify
  <2>7. CASE StiotEnd
    BY <2>7 DEF StiotEnd
  <2> QED BY <1>5, <2>1, <2>2, <2>3, <2>4, <2>5, <2>6, <2>7 DEF StiotStep
<1>6. CASE MainStep
  BY <1>6 DEF MainStep, Signal, MainJoin, MainExit
<1>7. CASE TxDone \/ SpuriousWake \/ UNCHANGED vars
  BY <1>7 DEF TxDone, SpuriousWake, vars
<1> QED BY <1>1, <1>2, <1>3, <1>4, <1>5, <1>6, <1>7 DEF Next

(* Nobody but the sender keeps queueMutex over a step, and a thread is     *)
(* created only when its object is free.                                   *)
LEMMA ControlStep ==
  ASSUME TypeOK, Control, [Next]_vars
  PROVE  QueueOwner' /\ WorkersJoinable'
<1> USE DEF TypeOK, Control, PcOK, Label, Pc, StopPc, JoinPc, QueueOwner, WorkersJoinable,
            HoldsQueue, At, Goto, Lock, Unlock, Thread, Mutex, flagVars
<1>1. CASE SendStep
  BY <1>1 DEF SendStep, SendLockQueue, SendTest, SendWait, SendWake, SendPop, SendDrained,
     SendStatus, SendEmit
<1>2. CASE ReceiveStep
  BY <1>2 DEF ReceiveStep, ReceiveTest, ReceiveNothing, ReceivePackets, ReceiveError,
     ReceiveEnd
<1>3. CASE Stop
  BY <1>3 DEF Stop, StopLockSend, StopClear, StopLockQueue, StopNotify, Stoppable
<1>4. CASE Join
  BY <1>4 DEF Join, Joiner, JoinTest, JoinThread, JoinHal
<1>5. CASE StiotStep
  BY <1>5 DEF StiotStep, StiotSeta, StartConcentrator, SpawnReceive, SpawnSend, StiotPush,
     StiotNotify, StiotEnd
<1>6. CASE MainStep
  BY <1>6 DEF MainStep, Signal, MainJoin, MainExit
<1>7. CASE TxDone \/ SpuriousWake \/ UNCHANGED vars
  BY <1>7 DEF TxDone, SpuriousWake, vars
<1> QED BY <1>1, <1>2, <1>3, <1>4, <1>5, <1>6, <1>7 DEF Next

(* The sender has one downlink in hand between pop and lgw_send.           *)
LEMMA MsgStep == ASSUME TypeOK, Control, [Next]_vars PROVE MsgInHand'
<1> USE DEF TypeOK, Control, PcOK, WorkersJoinable, MsgInHand, HasMsg, At, Goto, Thread
<1>1. CASE SendStep
  BY <1>1 DEF SendStep, SendLockQueue, SendTest, SendWait, SendWake, SendPop, SendDrained,
     SendStatus, SendEmit, queueVars
<1>2. CASE ReceiveStep \/ Stop \/ Join \/ StiotStep \/ MainStep \/ TxDone \/ SpuriousWake
  <2>1. UNCHANGED msg /\ (pc'["send"] = pc["send"] \/ SpawnSend)
    BY <1>2, OthersKeep
  <2>2. CASE SpawnSend
    BY <2>1, <2>2 DEF SpawnSend
  <2> QED BY <2>1, <2>2
<1>3. CASE UNCHANGED vars
  BY <1>3 DEF vars
<1> QED BY <1>1, <1>2, <1>3 DEF Next

-----------------------------------------------------------------------------
(* The downlinks: types and order.                                         *)

(* InOrder without the concatenation.                                      *)
Increasing == \A i, j \in DOMAIN sent : i < j => sent[i] < sent[j]
Numbered ==
  /\ \A i \in 1..Len(msg) : msg[i] = Len(sent) + Len(failed) + i
  /\ \A i \in 1..Len(serverData) : serverData[i] = Len(sent) + Len(failed) + Len(msg) + i
  /\ Len(sent) + Len(failed) + Len(msg) + Len(serverData) = downs

(* In order means: numbered on from what was sent or failed, and what was  *)
(* sent increases.                                                         *)
LEMMA InOrderNumbered ==
  ASSUME Downlinks
  PROVE  InOrder <=> Increasing /\ Numbered
<1> DEFINE q == msg \o serverData
           n == Len(sent) + Len(failed)
<1>1. /\ Len(sent) \in Nat /\ Len(failed) \in Nat /\ Len(msg) \in Nat /\ Len(serverData) \in Nat
      /\ msg \in Seq(1..MaxDown) /\ serverData \in Seq(1..MaxDown)
  BY DEF Downlinks
<1>2. /\ DOMAIN q = 1..Len(msg) + Len(serverData)
      /\ \A i \in 1..Len(msg) + Len(serverData) :
            q[i] = IF i <= Len(msg) THEN msg[i] ELSE serverData[i - Len(msg)]
  BY <1>1, ConcatProperties, LenProperties
<1>3. ASSUME \A i \in DOMAIN q : q[i] = n + i
      PROVE  /\ \A i \in 1..Len(msg) : msg[i] = n + i
             /\ \A i \in 1..Len(serverData) : serverData[i] = n + Len(msg) + i
  <2>1. ASSUME NEW i \in 1..Len(msg) PROVE msg[i] = n + i
    <3>1. i \in DOMAIN q /\ q[i] = msg[i]
      BY <1>1, <1>2
    <3> QED BY <1>3, <3>1
  <2>2. ASSUME NEW i \in 1..Len(serverData) PROVE serverData[i] = n + Len(msg) + i
    <3>1. i + Len(msg) \in DOMAIN q /\ q[i + Len(msg)] = serverData[i]
      BY <1>1, <1>2
    <3>2. q[i + Len(msg)] = n + (i + Len(msg))
      BY <1>3, <3>1
    <3> HIDE DEF q
    <3> QED BY <1>1, <3>1, <3>2
  <2> QED BY <2>1, <2>2
<1>4. ASSUME Numbered, NEW i \in DOMAIN q PROVE q[i] = n + i
  <2>1. i \in 1..Len(msg) + Len(serverData)
    BY <1>2
  <2>2. CASE i <= Len(msg)
    BY <1>1, <1>2, <1>4, <2>1, <2>2 DEF Numbered
  <2>3. CASE ~(i <= Len(msg))
    <3>1. i - Len(msg) \in 1..Len(serverData) /\ q[i] = serverData[i - Len(msg)]
      BY <1>1, <1>2, <2>1, <2>3
    <3>2. serverData[i - Len(msg)] = n + Len(msg) + (i - Len(msg))
      BY <1>4, <3>1 DEF Numbered
    <3> HIDE DEF q
    <3> QED BY <1>1, <2>1, <3>1, <3>2
  <2> QED BY <2>2, <2>3
<1> QED BY <1>3, <1>4 DEF InOrder, Increasing, Numbered

(* The sender takes the downlink that is next in turn.                     *)
LEMMA SendDownlinks ==
  ASSUME TypeOK, Control, SentSoFar, Increasing, Numbered, SendStep
  PROVE  Downlinks' /\ SentSoFar' /\ Increasing' /\ Numbered'
<1> DEFINE n == Len(sent) + Len(failed)
<1>t. /\ serverData \in Seq(1..MaxDown) /\ msg \in Seq(1..MaxDown)
      /\ sent \in Seq(1..MaxDown) /\ failed \in Seq(1..MaxDown) /\ downs \in Nat
      /\ MaxDown \in Nat
  BY BoundsAssumption DEF TypeOK
<1>1. CASE SendPop
  <2>1. /\ serverData # <<>> /\ msg' = <<Head(serverData)>> /\ serverData' = Tail(serverData)
        /\ UNCHANGED <<sent, failed, downs>> /\ msg = <<>>
    BY <1>1 DEF SendPop, appVars, Control, MsgInHand, HasMsg, At
  <2>2. /\ msg' \in Seq(1..MaxDown) /\ serverData' \in Seq(1..MaxDown)
        /\ Len(msg') = 1 /\ Len(serverData') = Len(serverData) - 1
        /\ msg'[1] = serverData[1]
        /\ \A i \in 1..Len(serverData') : serverData'[i] = serverData[i + 1]
    BY <1>t, <2>1, HeadTailProperties
  <2>3. Downlinks' /\ SentSoFar' /\ Increasing'
    BY <1>t, <2>1, <2>2 DEF Downlinks, SentSoFar, Increasing
  <2>4. Numbered'
    <3>1. Len(msg) = 0 /\ n \in Nat /\ n' = n /\ downs' = downs /\ Len(serverData) \in Nat
      BY <1>t, <2>1
    <3>2. /\ \A i \in 1..Len(serverData) : serverData[i] = n + i
          /\ n + Len(serverData) = downs
      BY <1>t, <3>1 DEF Numbered
    <3> HIDE DEF n
    <3>3. Len(serverData) >= 1 /\ msg'[1] = n + 1
      BY <1>t, <2>1, <2>2, <3>1, <3>2
    <3>4. ASSUME NEW i \in 1..Len(serverData') PROVE serverData'[i] = n + 1 + i
      <4>1. i + 1 \in 1..Len(serverData) /\ serverData'[i] = serverData[i + 1]
        BY <2>2, <3>1
      <4> QED BY <3>1, <3>2, <4>1
    <3>5. n + 1 + Len(serverData') = downs'
      BY <2>2, <3>1, <3>2
    <3>6. Len(sent') + Len(failed') = n
      BY <2>1 DEF n
    <3>7. \A i \in 1..Len(msg') : msg'[i] = Len(sent') + Len(failed') + i
      BY <2>2, <3>1, <3>3, <3>6
    <3>8. \A i \in 1..Len(serverData') :
             serverData'[i] = Len(sent') + Len(failed') + Len(msg') + i
      BY <2>2, <3>4, <3>6
    <3>9. Len(sent') + Len(failed') + Len(msg') + Len(serverData') = downs'
      BY <2>2, <3>5, <3>6
    <3> QED BY <3>7, <3>8, <3>9 DEF Numbered
  <2> QED BY <2>3, <2>4
<1>2. CASE SendEmit
  <2>1. Len(msg) = 1 /\ msg[1] \in 1..MaxDown /\ msg[1] = n + 1
    <3>1. Len(msg) = 1
      BY <1>2 DEF SendEmit, Control, MsgInHand, HasMsg, At
    <3>2. 1 \in 1..Len(msg) /\ msg[1] \in 1..MaxDown
      <4>1. 1 \in 1..Len(msg)
        BY <3>1
      <4> QED BY <1>t, <4>1, ElementOfSeq
    <3> QED BY <3>1, <3>2 DEF Numbered
  <2>2. n + 1 \in 1..MaxDown /\ n \in Nat
    BY <1>t, <2>1
  <2>3. msg = <<n + 1>>
    BY <1>t, <2>1, <2>2
  <2>4. /\ msg' = <<>> /\ UNCHANGED <<serverData, downs>>
        /\ \/ sent' = sent \o msg /\ failed' = failed
           \/ failed' = failed \o msg /\ sent' = sent
    BY <1>2 DEF SendEmit, appVars
  <2>5. CASE sent' = sent \o msg /\ failed' = failed
    <3>1. sent' = Append(sent, n + 1)
      BY <1>t, <2>2, <2>3, <2>5, AppendIsConcat
    <3> HIDE DEF n
    <3>2. /\ sent' \in Seq(1..MaxDown) /\ Len(sent') = Len(sent) + 1
          /\ \A i \in 1..Len(sent) : sent'[i] = sent[i]
          /\ sent'[Len(sent) + 1] = n + 1
      BY <1>t, <2>2, <3>1, AppendProperties
    <3> USE DEF n
    <3>3. Downlinks'
      BY <1>t, <2>4, <2>5, <3>2 DEF Downlinks
    <3>4. SentSoFar'
      BY <1>t, <2>5, <3>2 DEF SentSoFar
    <3>5. Increasing'
      <4> SUFFICES ASSUME NEW i \in DOMAIN sent', NEW j \in DOMAIN sent', i < j
                   PROVE  sent'[i] < sent'[j]
        BY DEF Increasing
      <4>1. /\ Len(sent) \in Nat /\ DOMAIN sent = 1..Len(sent)
            /\ DOMAIN sent' = 1..(Len(sent) + 1)
        BY <1>t, <3>2, LenProperties
      <4>2. /\ i \in 1..Len(sent) /\ i \in DOMAIN sent
            /\ j \in 1..Len(sent) \/ j = Len(sent) + 1
        BY <4>1
      <4>3. sent'[i] = sent[i] /\ sent[i] \in Nat /\ sent[i] <= Len(sent) + Len(failed)
        <5>1. sent[i] \in 1..MaxDown
          BY <1>t, <4>2, ElementOfSeq
        <5> QED BY <3>2, <4>2, <5>1 DEF SentSoFar
      <4>4. CASE j \in 1..Len(sent)
        <5>1. j \in DOMAIN sent /\ sent'[j] = sent[j]
          BY <3>2, <4>1, <4>4
        <5> QED BY <4>2, <4>3, <5>1 DEF Increasing
      <4>5. CASE j = Len(sent) + 1
        BY <2>2, <3>2, <4>3, <4>5
      <4> QED BY <4>2, <4>4, <4>5
    <3>6. Numbered'
      BY <1>t, <2>1, <2>4, <2>5, <3>2 DEF Numbered
    <3> QED BY <3>3, <3>4, <3>5, <3>6
  <2>6. CASE failed' = failed \o msg /\ sent' = sent
    <3>1. failed' = Append(failed, n + 1)
      BY <1>t, <2>2, <2>3, <2>6, AppendIsConcat
    <3>2. failed' \in Seq(1..MaxDown) /\ Len(failed') = Len(failed) + 1
      BY <1>t, <2>2, <3>1, AppendProperties
    <3>3. Downlinks' /\ Increasing'
      BY <1>t, <2>4, <2>6, <3>2 DEF Downlinks, Increasing
    <3>4. SentSoFar'
      BY <1>t, <2>6, <3>2 DEF SentSoFar
    <3>5. Numbered'
      BY <1>t, <2>1, <2>4, <2>6, <3>2 DEF Numbered
    <3> QED BY <3>3, <3>4, <3>5
  <2> QED BY <2>4, <2>5, <2>6
<1>3. CASE SendLockQueue \/ SendTest \/ SendWait \/ SendWake \/ SendDrained \/ SendStatus
  <2>1. UNCHANGED <<serverData, msg, sent, failed, downs>>
    BY <1>3 DEF SendLockQueue, SendTest, SendWait, SendWake, SendDrained, SendStatus,
       queueVars, appVars
  <2> QED BY <1>t, <2>1 DEF Downlinks, SentSoFar, Increasing, Numbered
<1> QED BY <1>1, <1>2, <1>3 DEF SendStep

(* The others only put new downlinks behind.                               *)
LEMMA OtherDownlinks ==
  ASSUME TypeOK, Control, SentSoFar, Increasing, Numbered,
         ReceiveStep \/ Stop \/ Join \/ StiotStep \/ MainStep \/ TxDone \/ SpuriousWake
  PROVE  Downlinks' /\ SentSoFar' /\ Increasing' /\ Numbered'
<1>t. /\ serverData \in Seq(1..MaxDown) /\ msg \in Seq(1..MaxDown)
      /\ sent \in Seq(1..MaxDown) /\ failed \in Seq(1..MaxDown) /\ downs \in 0..MaxDown
      /\ MaxDown \in Nat
  BY BoundsAssumption DEF TypeOK
<1>1. UNCHANGED <<msg, sent, failed>> /\ (UNCHANGED serverData \/ StiotPush)
  BY OthersKeep DEF Control
<1>2. CASE StiotPush
  <2>1. downs < MaxDown /\ downs' = downs + 1 /\ serverData' = Append(serverData, downs + 1)
    BY <1>2 DEF StiotPush
  <2>2. /\ serverData' \in Seq(1..MaxDown) /\ Len(serverData') = Len(serverData) + 1
        /\ \A i \in 1..Len(serverData) : serverData'[i] = serverData[i]
        /\ serverData'[Len(serverData) + 1] = downs + 1
    BY <1>t, <2>1, AppendProperties
  <2>3. Downlinks' /\ SentSoFar' /\ Increasing'
    BY <1>t, <1>1, <2>2 DEF Downlinks, SentSoFar, Increasing
  <2>4. Numbered'
    <3>1. \A i \in 1..Len(msg') : msg'[i] = Len(sent') + Len(failed') + i
      BY <1>1 DEF Numbered
    <3>2. /\ Len(sent) \in Nat /\ Len(failed) \in Nat /\ Len(msg) \in Nat
          /\ Len(serverData) \in Nat
          /\ Len(sent) + Len(failed) + Len(msg) + Len(serverData) = downs
      BY <1>t DEF Numbered
    <3>3. ASSUME NEW i \in 1..Len(serverData')
          PROVE  serverData'[i] = Len(sent) + Len(failed) + Len(msg) + i
      <4>1. i \in 1..Len(serverData) \/ i = Len(serverData) + 1
        BY <2>2, <3>2
      <4>2. CASE i \in 1..Len(serverData)
        BY <2>2, <4>2 DEF Numbered
      <4>3. CASE i = Len(serverData) + 1
        BY <2>2, <3>2, <4>3
      <4> QED BY <4>1, <4>2, <4>3
    <3>4. Len(sent) + Len(failed) + Len(msg) + Len(serverData') = downs'
      BY <2>1, <2>2, <3>2
    <3> QED BY <1>1, <3>1, <3>3, <3>4 DEF Numbered
  <2> QED BY <2>3, <2>4
<1>3. CASE ~StiotPush
  <2>1. UNCHANGED serverData
    BY <1>1, <1>3
  <2>2. UNCHANGED downs
    BY <1>3 DEF appVars, flagVars, queueVars,
       ReceiveStep, ReceiveTest, ReceiveNothing, ReceivePackets, ReceiveError, ReceiveEnd,
       Stop, StopLockSend, StopClear, StopLockQueue, StopNotify,
       Join, JoinTest, JoinThread, JoinHal, StiotStep, StiotSeta, StartConcentrator,
       SpawnReceive, SpawnSend, StiotNotify, StiotEnd, MainStep, Signal, MainJoin, MainExit,
       TxDone, SpuriousWake
  <2> QED BY <1>t, <1>1, <2>1, <2>2 DEF Downlinks, SentSoFar, Increasing, Numbered
<1> QED BY <1>2, <1>3

(* Every step keeps the downlinks in order.                                *)
LEMMA InOrderStep ==
  ASSUME TypeOK, Control, SentSoFar, InOrder, [Next]_vars
  PROVE  Downlinks' /\ SentSoFar' /\ InOrder'
<1>1. Downlinks
  BY DEF TypeOK, Downlinks
<1>2. Increasing /\ Numbered
  BY <1>1, InOrderNumbered
<1>3. Downlinks' /\ SentSoFar' /\ Increasing' /\ Numbered'
  <2>1. CASE UNCHANGED vars
    BY <1>1, <1>2, <2>1 DEF vars, Downlinks, SentSoFar, Increasing, Numbered
  <2> QED BY <1>2, <2>1, SendDownlinks, OtherDownlinks DEF Next
<1>4. InOrder' <=> (Increasing /\ Numbered)'
  BY <1>3, InOrderNumbered, PTL
<1> QED BY <1>3, <1>4

-----------------------------------------------------------------------------
(* Wake-ups.                                                               *)

(* Who clears the flag while the sender is about to wait still has its     *)
(* notification to come.                                                   *)
LEMMA StopBeforeWaitStep ==
  ASSUME TypeOK, Control, StopBeforeWait, [Next]_vars
  PROVE  StopBeforeWait'
<1> USE DEF TypeOK, Control, PcOK, Label, Pc, StopPc, JoinPc, QueueOwner, HoldsQueue,
            StopBeforeWait, WorkersJoinable, At, Goto, Thread, flagVars, Stoppable
<1>1. CASE SendStep
  BY <1>1 DEF SendStep, SendLockQueue, SendTest, SendWait, SendWake, SendPop, SendDrained,
     SendStatus, SendEmit
<1>2. CASE ReceiveStep
  BY <1>2 DEF ReceiveStep, ReceiveTest, ReceiveNothing, ReceivePackets, ReceiveError,
     ReceiveEnd
<1>3. CASE Stop
  BY <1>3 DEF Stop, StopLockSend, StopClear, StopLockQueue, StopNotify
<1>4. CASE Join
  BY <1>4 DEF Join, Joiner, JoinTest, JoinThread, JoinHal
<1>5. CASE StiotStep
  <2>1. CASE StiotSeta
    BY <2>1 DEF StiotSeta
  <2>2. CASE StartConcentrator
    BY <2>2 DEF StartConcentrator
  <2>3. CASE SpawnReceive
    BY <2>3 DEF SpawnReceive
  <2>4. CASE SpawnSend
    BY <2>4 DEF SpawnSend
  <2>5. CASE StiotPush
    BY <2>5 DEF StiotPush
  <2>6. CASE StiotNotify
    BY <2>6 DEF StiotNotify
  <2>7. CASE StiotEnd
    BY <2>7 DEF StiotEnd
  <2> QED BY <1>5, <2>1, <2>2, <2>3, <2>4, <2>5, <2>6, <2>7 DEF StiotStep
<1>6. CASE MainStep
  BY <1>6 DEF MainStep, Signal, MainJoin, MainExit
<1>7. CASE TxDone \/ SpuriousWake \/ UNCHANGED vars
  BY <1>7 DEF TxDone, SpuriousWake, vars
<1> QED BY <1>1, <1>2, <1>3, <1>4, <1>5, <1>6, <1>7 DEF Next

(* Every step keeps the sender from sleeping over a downlink or a stop.    *)
LEMMA NoLostWakeupStep ==
  ASSUME TypeOK, Control, StopBeforeWait, NoLostWakeup, [Next]_vars
  PROVE  NoLostWakeup'
<1> USE DEF TypeOK, Control, PcOK, Label, Pc, StopPc, JoinPc, QueueOwner, HoldsQueue,
            StopBeforeWait, NoLostWakeup, NotifyOne, At, Goto, Thread, flagVars, queueVars,
            Stoppable
<1>1. CASE SendStep
  BY <1>1 DEF SendStep, SendLockQueue, SendTest, SendWait, SendWake, SendPop, SendDrained,
     SendStatus, SendEmit
<1>2. CASE ReceiveStep
  BY <1>2 DEF ReceiveStep, ReceiveTest, ReceiveNothing, ReceivePackets, ReceiveError,
     ReceiveEnd
<1>3. CASE Stop
  <2> SUFFICES ASSUME NEW t \in Stoppable, StopLockSend(t) \/ StopClear(t) \/ StopLockQueue(t) \/ StopNotify(t)
               PROVE  NoLostWakeup'
    BY <1>3 DEF Stop
  <2>1. CASE StopLockSend(t)
    BY <2>1 DEF StopLockSend
  <2>2. CASE StopClear(t)
    BY <2>2 DEF StopClear
  <2>3. CASE StopLockQueue(t)
    BY <2>3 DEF StopLockQueue
  <2>4. CASE StopNotify(t)
    BY <2>4 DEF StopNotify
  <2> QED BY <2>1, <2>2, <2>3, <2>4
<1>4. CASE Join
  BY <1>4 DEF Join, Joiner, JoinTest, JoinThread, JoinHal
<1>5. CASE StiotStep
  <2>1. CASE StiotSeta
    BY <2>1 DEF StiotSeta
  <2>2. CASE StartConcentrator
    BY <2>2 DEF StartConcentrator
  <2>3. CASE SpawnReceive
    <3>1. /\ UNCHANGED <<serverData, sendRun, notified>>
          /\ \A t \in Thread \ {"stiot", "receive"} : pc'[t] = pc[t]
      BY <2>3 DEF SpawnReceive
    <3>2. pc["stiot"] = "spawnRx"
      BY <2>3 DEF SpawnReceive
    <3>3. UNCHANGED pc \/ pc["receive"] \in {"none", "dead"}
      BY <2>3 DEF SpawnReceive, WorkersJoinable
    <3>4. \A t \in Stoppable : pc[t] \in {"stop2", "stop3"} => pc'[t] = pc[t]
      BY <3>1, <3>2, <3>3
    <3> QED BY <3>1, <3>2, <3>4
  <2>4. CASE SpawnSend
    BY <2>4 DEF SpawnSend
  <2>5. CASE StiotPush
    BY <2>5 DEF StiotPush
  <2>6. CASE StiotNotify
    BY <2>6 DEF StiotNotify
  <2>7. CASE StiotEnd
    BY <2>7 DEF StiotEnd
  <2> QED BY <1>5, <2>1, <2>2, <2>3, <2>4, <2>5, <2>6, <2>7 DEF StiotStep
<1>6. CASE MainStep
  BY <1>6 DEF MainStep, Signal, MainJoin, MainExit
<1>7. CASE TxDone \/ SpuriousWake \/ UNCHANGED vars
  BY <1>7 DEF TxDone, SpuriousWake, vars
<1> QED BY <1>1, <1>2, <1>3, <1>4, <1>5, <1>6, <1>7 DEF Next

(* Every step keeps lgw_send off a transmitter at work.                    *)
LEMMA NoOverrunStep ==
  ASSUME TypeOK, Control, EmitsIntoSilence, NoOverrun, [Next]_vars
  PROVE  EmitsIntoSilence' /\ NoOverrun'
<1> USE DEF Control, PcOK, EmitsIntoSilence, NoOverrun, At, Goto, Thread, queueVars
<1>1. CASE SendStep
  <2>1. CASE SendLockQueue
    BY <2>1 DEF SendLockQueue
  <2>2. CASE SendTest
    BY <2>2 DEF SendTest
  <2>3. CASE SendWait
    BY <2>3 DEF SendWait
  <2>4. CASE SendWake
    BY <2>4 DEF SendWake
  <2>5. CASE SendPop
    BY <2>5 DEF SendPop
  <2>6. CASE SendDrained
    BY <2>6 DEF SendDrained
  <2>7. CASE SendStatus
    BY <2>7 DEF SendStatus
  <2>8. CASE SendEmit
    <3>1. pc["send"] = "emit" /\ tx = "free"
      BY <2>8 DEF SendEmit
    <3>2. overrun' = (overrun \/ tx # "free") \/ overrun' = overrun
      BY <2>8 DEF SendEmit
    <3>3. NoOverrun'
      BY Zenon, <3>1, <3>2 DEF NoOverrun
    <3>4. pc'["send"] # "emit"
      BY <2>8 DEF SendEmit
    <3> QED BY <3>3, <3>4
  <2> QED BY <1>1, <2>1, <2>2, <2>3, <2>4, <2>5, <2>6, <2>7, <2>8 DEF SendStep
<1>2. CASE ReceiveStep \/ Stop \/ Join \/ StiotStep \/ MainStep \/ TxDone \/ SpuriousWake
  <2>1. /\ UNCHANGED overrun /\ tx' \in {tx, "free"}
        /\ pc'["send"] = pc["send"] \/ SpawnSend
    BY <1>2, OthersKeep
  <2>2. CASE SpawnSend
    BY <2>1, <2>2 DEF SpawnSend
  <2> QED BY <2>1, <2>2
<1>3. CASE UNCHANGED vars
  BY <1>3 DEF vars
<1> QED BY <1>1, <1>2, <1>3 DEF Next

-----------------------------------------------------------------------------
(* Every step keeps the invariant.                                         *)
LEMMA StepIInv == IInv /\ [Next]_vars => IInv'
<1> SUFFICES ASSUME IInv, [Next]_vars PROVE IInv'
  OBVIOUS
<1> USE DEF IInv, Control
<1>1. PcOK' /\ Flags' /\ Ranges' /\ QueueOwner' /\ WorkersJoinable' /\ MsgInHand'
  BY PcStep, FlagsStep, RangesStep, ControlStep, MsgStep
<1>2. Downlinks' /\ SentSoFar' /\ InOrder'
  BY InOrderStep
<1>3. TypeOK'
  <2>1. (Len(msg) <= 1)'
    <3>1. CASE msg' = <<>>
      BY <3>1
    <3>2. CASE Len(msg') = 1
      BY <3>2
    <3> QED BY <1>1, <3>1, <3>2 DEF MsgInHand
  <2> QED BY <1>1, <1>2, <2>1 DEF TypeOK, PcOK, Flags, Ranges, Downlinks
<1>4. StopBeforeWait' /\ NoLostWakeup'
  BY StopBeforeWaitStep, NoLostWakeupStep
<1>5. EmitsIntoSilence' /\ NoOverrun'
  BY NoOverrunStep
<1> QED BY <1>1, <1>2, <1>3, <1>4, <1>5

(* Order, wake-ups and silence before each emission, with what they rest   *)
(* on, hold in every reachable state: start, stop, join, both workers and  *)
(* the signal handler, in any interleaving.                                *)
THEOREM ControllerInvariant == Spec => []IInv
BY InitIInv, StepIInv, PTL DEF Spec

(* The controller's state keeps its shape.                                 *)
THEOREM TypeCorrect == Spec => []TypeOK
<1>1. IInv => TypeOK
  BY DEF IInv
<1> QED BY <1>1, ControllerInvariant, PTL

(* Downlinks leave in the order fromStiot has handed them over, each at    *)
(* most once, and none gets lost between queue and lgw_send.               *)
THEOREM DownlinksInOrder == Spec => []InOrder
<1>1. IInv => InOrder
  BY DEF IInv
<1> QED BY <1>1, ControllerInvariant, PTL

(* The sender never sleeps over a downlink or a stop nobody will wake it   *)
(* for.                                                                    *)
THEOREM SenderIsWoken == Spec => []NoLostWakeup
<1>1. IInv => NoLostWakeup
  BY DEF IInv
<1> QED BY <1>1, ControllerInvariant, PTL

(* lgw_send is never called while the last packet is on the air.           *)
THEOREM NeverOverruns == Spec => []NoOverrun
<1>1. IInv => NoOverrun
  BY DEF IInv
<1> QED BY <1>1, ControllerInvariant, PTL

-----------------------------------------------------------------------------
(* What stop() and join() do to a restart.                                 *)

InStop == {"stop1", "stop2", "stop3"}
StopAlone == \A t, u \in Stoppable : pc[t] \in InStop /\ pc[u] \in InStop => t = u

(* join() joins a thread only if its run flag is set, and the stop() of    *)
(* the same restart has cleared both.                                      *)
RestartJoinsNobody == pc["stiot"] \notin {"join1", "join3"}

(* sendMutex belongs to the one thread that is in stop(), and from there   *)
(* on only fromStiot itself, which starts the threads, sets a flag again.  *)
StopOwner    == \A t \in Stoppable : pc[t] \in InStop <=> owner["sendMutex"] = t
FlagsCleared == pc["stiot"] \in {"stop2", "stop3"} \cup JoinPc => ~sendRun /\ ~receiveRun
Restart == TypeOK /\ Control /\ StopOwner /\ FlagsCleared /\ RestartJoinsNobody

(* Every step keeps what is known of a stop or a restart under way.        *)
LEMMA RestartStep ==
  ASSUME IInv, Restart, [Next]_vars
  PROVE  StopOwner' /\ FlagsCleared' /\ RestartJoinsNobody'
<1> USE DEF Restart, TypeOK, Control, PcOK, Label, Pc, StopPc, JoinPc, WorkersJoinable,
            StopOwner, FlagsCleared, RestartJoinsNobody, InStop, Stoppable, Lock, Unlock,
            Mutex, Thread, At, Goto, flagVars
<1>1. CASE SendStep
  BY <1>1 DEF SendStep, SendLockQueue, SendTest, SendWait, SendWake, SendPop, SendDrained,
     SendStatus, SendEmit
<1>2. CASE ReceiveStep
  BY <1>2 DEF ReceiveStep, ReceiveTest, ReceiveNothing, ReceivePackets, ReceiveError,
     ReceiveEnd
<1>3. CASE Stop
  BY <1>3 DEF Stop, StopLockSend, StopClear, StopLockQueue, StopNotify, AfterStop
<1>4. CASE Join
  BY <1>4 DEF Join, Joiner, JoinTest, JoinThread, JoinHal, AfterJoin
<1>5. CASE StiotStep
  BY <1>5 DEF StiotStep, StiotSeta, StartConcentrator, SpawnReceive, SpawnSend, StiotPush,
     StiotNotify, StiotEnd
<1>6. CASE MainStep
  BY <1>6 DEF MainStep, Signal, MainJoin, MainExit
<1>7. CASE TxDone \/ SpuriousWake \/ UNCHANGED vars
  BY <1>7 DEF TxDone, SpuriousWake, vars
<1> QED BY <1>1, <1>2, <1>3, <1>4, <1>5, <1>6, <1>7 DEF Next

(* One thread at a time is in stop(), with sendMutex, and from there on    *)
(* until the restart both run flags stay cleared.                          *)
THEOREM RestartInvariant == Spec => []Restart
<1>1. Init => Restart
  <2> SUFFICES ASSUME Init PROVE Restart
    OBVIOUS
  <2>1. TypeOK /\ Control
    BY InitIInv DEF IInv
  <2>2. StopOwner /\ FlagsCleared /\ RestartJoinsNobody
    BY DEF Init, StopOwner, FlagsCleared, RestartJoinsNobody, InStop, Stoppable, JoinPc, Mutex
  <2> QED BY <2>1, <2>2 DEF Restart
<1>2. IInv /\ IInv' /\ Restart /\ [Next]_vars => Restart'
  BY RestartStep DEF Restart, IInv
<1> QED BY <1>1, <1>2, ControllerInvariant, PTL DEF Spec

(* stop() is never run by two threads at once.                             *)
THEOREM OneStopAtATime == Spec => []StopAlone
<1>1. Restart => StopAlone
  BY DEF Restart, StopOwner, StopAlone
<1> QED BY <1>1, RestartInvariant, PTL

(* The join() of a restart joins neither thread: with the flags clear it   *)
(* goes straight to lgw_stop, over threads that may still run.             *)
THEOREM RestartWaitsForNobody == Spec => []RestartJoinsNobody
<1>1. Restart => RestartJoinsNobody
  BY DEF Restart
<1> QED BY <1>1, RestartInvariant, PTL
=============================================================================
