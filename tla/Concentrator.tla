---------------------------- MODULE Concentrator ----------------------------
(***************************************************************************)
(* The life of ConcentratorController.cpp and how the application stops    *)
(* (MainApp.cpp).  Four threads meet on its three mutexes:                 *)
(*   "stiot"    fromStiot of the converter: hands over downlinks, and      *)
(*              (re)starts the concentrator on a SETA of the server;       *)
(*   "send"     processStiot, which transmits the downlinks;               *)
(*   "receive"  receiveHal, which polls for packets;                       *)
(*   "main"     main, which takes the signal and then joins everything.    *)
(* shutDown runs on the thread the signal reaches: main for CTRL+C, the    *)
(* receiving thread when that raises SIGINT itself.                        *)
(***************************************************************************)
EXTENDS Naturals, Sequences

CONSTANTS MaxSeta,   \* bound: SETA messages of the server
          MaxDown,   \* bound: downlinks
          MaxRx      \* bound: polls of the radio that return something

ASSUME BoundsAssumption == MaxSeta \in Nat /\ MaxDown \in Nat /\ MaxRx \in Nat

Thread == {"stiot", "send", "receive", "main"}
Mutex  == {"queueMutex", "sendMutex", "receiveMutex"}

VARIABLES
  pc,                    \* per thread: its next step
  owner,                 \* per mutex: who holds it, or "free"
  serverData,            \* downlinks handed over and not taken
  msg,                   \* the downlink sendHal works on, as a sequence of <= 1
  sendRun, receiveRun,   \* the run flags
  joinable,              \* the std::thread objects a thread is attached to
  hal,                   \* lgw_is_started
  tx,                    \* the radio's transmitter
  convRun, connRun,      \* the converter's and the connection's run flags
  notified,              \* sendConditional: its waiter has been notified
  signalled,             \* CTRL+C has been pressed
  oneTime, setas, downs, polls,   \* fromStiot's flag; what the bounds count
  crashed,               \* std::terminate
  sent, failed, overrun  \* history: downlinks lgw_send took, and refused;
                         \* a downlink was programmed over another

vars == <<pc, owner, serverData, msg, sendRun, receiveRun, joinable, hal, tx, convRun,
          connRun, notified, signalled, oneTime, setas, downs, polls, crashed, sent,
          failed, overrun>>

queueVars == <<serverData, msg, sent, failed, overrun, tx, notified>>
flagVars  == <<sendRun, receiveRun, joinable, hal, crashed>>
appVars   == <<convRun, connRun, signalled, oneTime, setas, downs, polls>>

StopPc == {"stop0", "stop1", "stop2", "stop3"}
JoinPc == {"join0", "join1", "join2", "join3", "join4"}
Pc == [stiot   |-> {"idle", "notify", "start", "spawnRx", "spawnTx", "ended"}
                     \cup StopPc \cup JoinPc,
       send    |-> {"none", "lockQueue", "test", "loop", "waiting", "drain", "status",
                    "emit", "dead"},
       receive |-> {"none", "lock", "test", "poll", "unlock", "dead"} \cup StopPc,
       main    |-> {"running", "joinConverter", "exited"} \cup StopPc \cup JoinPc]

TypeOK ==
  /\ \A t \in Thread : pc[t] \in Pc[t]
  /\ owner \in [Mutex -> Thread \cup {"free"}]
  /\ serverData \in Seq(1..MaxDown) /\ msg \in Seq(1..MaxDown) /\ Len(msg) <= 1
  /\ sendRun \in BOOLEAN /\ receiveRun \in BOOLEAN
  /\ joinable \subseteq {"send", "receive"}
  /\ hal \in BOOLEAN /\ tx \in {"free", "emitting"}
  /\ convRun \in BOOLEAN /\ connRun \in BOOLEAN
  /\ notified \in BOOLEAN /\ signalled \in BOOLEAN /\ oneTime \in BOOLEAN
  /\ setas \in 0..MaxSeta /\ downs \in 0..MaxDown /\ polls \in 0..MaxRx
  /\ crashed \in BOOLEAN /\ overrun \in BOOLEAN
  /\ sent \in Seq(1..MaxDown) /\ failed \in Seq(1..MaxDown)

Init ==
  /\ pc = [stiot |-> "idle", send |-> "none", receive |-> "none", main |-> "running"]
  /\ owner = [m \in Mutex |-> "free"]
  /\ serverData = <<>> /\ msg = <<>>
  /\ sendRun = FALSE /\ receiveRun = FALSE /\ joinable = {}
  /\ hal = FALSE /\ tx = "free"
  /\ convRun = TRUE /\ connRun = TRUE
  /\ notified = FALSE /\ signalled = FALSE /\ oneTime = FALSE
  /\ setas = 0 /\ downs = 0 /\ polls = 0
  /\ crashed = FALSE /\ overrun = FALSE /\ sent = <<>> /\ failed = <<>>

-----------------------------------------------------------------------------
At(t, l)   == pc[t] = l
Goto(t, l) == pc' = [pc EXCEPT ![t] = l]
Lock(t, m) == owner[m] = "free" /\ owner' = [owner EXCEPT ![m] = t]
(* Unlocking a mutex one does not hold is undefined; the mutexes of this   *)
(* platform are free afterwards, whoever held them.                        *)
Unlock(m)  == owner' = [owner EXCEPT ![m] = "free"]

-----------------------------------------------------------------------------
(* processStiot.                                                           *)

SendLockQueue ==
  /\ At("send", "lockQueue") /\ Lock("send", "queueMutex") /\ Goto("send", "test")
  /\ UNCHANGED <<queueVars, flagVars, appVars>>

(* The test of the flag takes sendMutex with queueMutex held.              *)
SendTest ==
  /\ At("send", "test") /\ owner["sendMutex"] = "free"
  /\ IF sendRun THEN Goto("send", "loop") /\ UNCHANGED owner
     ELSE Unlock("queueMutex") /\ Goto("send", "dead")
  /\ UNCHANGED <<queueVars, flagVars, appVars>>

(* One wait, not a loop: any wake-up leads to the drain.                   *)
SendWait ==
  /\ At("send", "loop")
  /\ IF serverData = <<>>
     THEN Unlock("queueMutex") /\ Goto("send", "waiting") /\ notified' = FALSE
     ELSE Goto("send", "drain") /\ UNCHANGED <<owner, notified>>
  /\ UNCHANGED <<serverData, msg, sent, failed, overrun, tx, flagVars, appVars>>

SendWake ==
  /\ At("send", "waiting") /\ notified
  /\ Lock("send", "queueMutex") /\ Goto("send", "drain")
  /\ UNCHANGED <<queueVars, flagVars, appVars>>

(* Mutant: the latest downlink first.                                      *)
SendPopLast ==
  /\ At("send", "drain") /\ serverData # <<>>
  /\ LET last == Len(serverData) IN
       msg' = <<serverData[last]>> /\ serverData' = SubSeq(serverData, 1, last - 1)
  /\ Goto("send", "status")
  /\ UNCHANGED <<owner, sent, failed, overrun, tx, notified, flagVars, appVars>>

SendPop ==
  /\ At("send", "drain") /\ serverData # <<>>
  /\ msg' = <<Head(serverData)>> /\ serverData' = Tail(serverData)
  /\ Goto("send", "status")
  /\ UNCHANGED <<owner, sent, failed, overrun, tx, notified, flagVars, appVars>>

SendDrained ==
  /\ At("send", "drain") /\ serverData = <<>>
  /\ Goto("send", "test")
  /\ UNCHANGED <<owner, queueVars, flagVars, appVars>>

(* Mutant: sendHal does not wait for TX_FREE.                              *)
SendStatusUnasked ==
  /\ At("send", "status") /\ hal
  /\ Goto("send", "emit")
  /\ UNCHANGED <<owner, queueVars, flagVars, appVars>>

(* sendHal polls lgw_status until it reads TX_FREE; a stopped concentrator *)
(* answers TX_OFF, for ever.                                               *)
SendStatus ==
  /\ At("send", "status") /\ hal /\ tx = "free"
  /\ Goto("send", "emit")
  /\ UNCHANGED <<owner, queueVars, flagVars, appVars>>

(* toHal or lgw_send may refuse the packet; lgw_send always does when the  *)
(* concentrator has been stopped since.                                    *)
SendEmit ==
  /\ At("send", "emit")
  /\ \/ /\ hal
        /\ sent' = sent \o msg /\ UNCHANGED failed
        /\ overrun' = (overrun \/ tx # "free") /\ tx' = "emitting"
     \/ failed' = failed \o msg /\ UNCHANGED <<sent, overrun, tx>>
  /\ msg' = <<>>
  /\ Goto("send", "drain")
  /\ UNCHANGED <<owner, serverData, notified, flagVars, appVars>>

-----------------------------------------------------------------------------
(* receiveHal.                                                             *)

(* The test of the flag, with receiveMutex taken for it ("lock") or not    *)
(* ("test", after a `continue`); it is unlocked in both cases, whoever     *)
(* holds it, and when the flag is clear once more after the loop.          *)
ReceiveTest ==
  /\ \/ At("receive", "lock") /\ owner["receiveMutex"] = "free"
     \/ At("receive", "test")
  /\ Unlock("receiveMutex")
  /\ Goto("receive", IF receiveRun THEN "poll" ELSE "unlock")
  /\ UNCHANGED <<queueVars, flagVars, appVars>>

ReceiveNothing ==
  /\ At("receive", "poll") /\ hal /\ Goto("receive", "test")
  /\ UNCHANGED <<owner, queueVars, flagVars, appVars>>

(* Packets, for addBulk of the converter.                                  *)
ReceivePackets ==
  /\ At("receive", "poll") /\ hal /\ polls < MaxRx
  /\ polls' = polls + 1
  /\ Goto("receive", "lock")
  /\ UNCHANGED <<owner, queueVars, flagVars, convRun, connRun, signalled, oneTime,
                 setas, downs>>

(* The loop ends: on an error of lgw_receive, which it always returns when *)
(* the concentrator is stopped, or because the flag is clear (halStatus is *)
(* not initialised then and may be anything).  Below zero it raises        *)
(* SIGINT, whose handler runs on this thread.                              *)
ReceiveError ==
  /\ At("receive", "poll")
  /\ IF hal THEN polls < MaxRx /\ polls' = polls + 1 ELSE UNCHANGED polls
  /\ Unlock("receiveMutex")
  /\ Goto("receive", "stop0")
  /\ convRun' = FALSE /\ connRun' = FALSE
  /\ UNCHANGED <<queueVars, flagVars, signalled, oneTime, setas, downs>>

ReceiveEnd ==
  /\ At("receive", "unlock")
  /\ \/ Goto("receive", "dead") /\ UNCHANGED <<convRun, connRun>>
     \/ Goto("receive", "stop0") /\ convRun' = FALSE /\ connRun' = FALSE
  /\ UNCHANGED <<owner, queueVars, flagVars, signalled, oneTime, setas, downs, polls>>

-----------------------------------------------------------------------------
(* stop(), on the thread that calls it: sendMutex and receiveMutex are     *)
(* held to its end, over the lock of queueMutex.                           *)
(* Mutant: the handler on the receiving thread goes on to join it.         *)
AfterStopJoins == [stiot |-> "join0", receive |-> "join0", main |-> "running"]

AfterStop == [stiot |-> "join0", receive |-> "dead", main |-> "running"]
Stoppable == {"stiot", "receive", "main"}

StopLockSend(t) ==
  /\ At(t, "stop0") /\ Lock(t, "sendMutex") /\ Goto(t, "stop1")
  /\ UNCHANGED <<queueVars, flagVars, appVars>>

StopClear(t) ==
  /\ At(t, "stop1") /\ Lock(t, "receiveMutex")
  /\ receiveRun' = FALSE /\ sendRun' = FALSE
  /\ Goto(t, "stop2")
  /\ UNCHANGED <<queueVars, joinable, hal, crashed, appVars>>

(* Mutant: stop() notifies without the lock of queueMutex.                 *)
StopNoLockQueue(t) ==
  /\ At(t, "stop2")
  /\ Goto(t, "stop3")
  /\ UNCHANGED <<owner, queueVars, flagVars, appVars>>

StopLockQueue(t) ==
  /\ At(t, "stop2") /\ owner["queueMutex"] = "free"   \* locked and unlocked
  /\ Goto(t, "stop3")
  /\ UNCHANGED <<owner, queueVars, flagVars, appVars>>

NotifyOne == notified' = (notified \/ At("send", "waiting"))

StopNotify(t) ==
  /\ At(t, "stop3") /\ NotifyOne
  /\ owner' = [owner EXCEPT !["sendMutex"] = "free", !["receiveMutex"] = "free"]
  /\ Goto(t, AfterStop[t])
  /\ UNCHANGED <<serverData, msg, sent, failed, overrun, tx, flagVars, appVars>>

Stop == \E t \in Stoppable :
          StopLockSend(t) \/ StopClear(t) \/ StopLockQueue(t) \/ StopNotify(t)

-----------------------------------------------------------------------------
(* join(), by fromStiot and by main: a thread is joined only if its flag   *)
(* is still set.  Then lgw_stop.                                           *)
AfterJoin == [stiot |-> "start", main |-> "joinConverter"]
Joiner == {"stiot", "main"}

JoinTest(t) ==
  /\ \/ /\ At(t, "join0") /\ owner["receiveMutex"] = "free"
        /\ Goto(t, IF receiveRun THEN "join1" ELSE "join2")
     \/ /\ At(t, "join2") /\ owner["sendMutex"] = "free"
        /\ Goto(t, IF sendRun THEN "join3" ELSE "join4")
  /\ UNCHANGED <<owner, queueVars, flagVars, appVars>>

(* std::thread::join returns once the thread has ended.                    *)
JoinThread(t) ==
  /\ \/ /\ At(t, "join1") /\ At("receive", "dead")
        /\ joinable' = joinable \ {"receive"} /\ Goto(t, "join2")
     \/ /\ At(t, "join3") /\ At("send", "dead")
        /\ joinable' = joinable \ {"send"} /\ Goto(t, "join4")
  /\ UNCHANGED <<owner, queueVars, sendRun, receiveRun, hal, crashed, appVars>>

(* lgw_stop, which also resets the radio.                                  *)
JoinHal(t) ==
  /\ At(t, "join4")
  /\ hal' = FALSE /\ tx' = "free"
  /\ Goto(t, AfterJoin[t])
  /\ UNCHANGED <<owner, serverData, msg, sent, failed, overrun, notified, sendRun,
                 receiveRun, joinable, crashed, appVars>>

Join == \E t \in Joiner : JoinTest(t) \/ JoinThread(t) \/ JoinHal(t)

-----------------------------------------------------------------------------
(* fromStiot.                                                              *)

(* A SETA: the first one starts the concentrator, a later one stops it,    *)
(* joins it and starts it again.                                           *)
StiotSeta ==
  /\ At("stiot", "idle") /\ convRun /\ setas < MaxSeta
  /\ setas' = setas + 1
  /\ oneTime' = TRUE
  /\ Goto("stiot", IF oneTime THEN "stop0" ELSE "start")
  /\ UNCHANGED <<owner, queueVars, flagVars, convRun, connRun, signalled, downs, polls>>

(* startConcentrator: a bad configuration or a failing lgw_start leaves    *)
(* things as they are, and fromStiot does not look at the result.          *)
StartConcentrator ==
  /\ At("stiot", "start")
  /\ \/ Goto("stiot", "idle") /\ UNCHANGED hal
     \/ Goto("stiot", "spawnRx") /\ ~hal /\ hal' = TRUE
  /\ UNCHANGED <<owner, queueVars, sendRun, receiveRun, joinable, crashed, appVars>>

(* The flag is set without its mutex, and the new thread is moved into a   *)
(* std::thread: if that is still joinable the program is terminated.       *)
SpawnReceive ==
  /\ At("stiot", "spawnRx")
  /\ receiveRun' = TRUE
  /\ IF "receive" \in joinable
     THEN crashed' = TRUE /\ UNCHANGED <<pc, joinable>>
     ELSE /\ joinable' = joinable \cup {"receive"} /\ UNCHANGED crashed
          /\ pc' = [pc EXCEPT !["stiot"] = "spawnTx", !["receive"] = "lock"]
  /\ UNCHANGED <<owner, queueVars, sendRun, hal, appVars>>

SpawnSend ==
  /\ At("stiot", "spawnTx")
  /\ sendRun' = TRUE
  /\ IF "send" \in joinable
     THEN crashed' = TRUE /\ UNCHANGED <<pc, joinable>>
     ELSE /\ joinable' = joinable \cup {"send"} /\ UNCHANGED crashed
          /\ pc' = [pc EXCEPT !["stiot"] = "idle", !["send"] = "lockQueue"]
  /\ UNCHANGED <<owner, queueVars, receiveRun, hal, appVars>>

(* addToQueue.                                                             *)
StiotPush ==
  /\ At("stiot", "idle") /\ convRun /\ downs < MaxDown /\ owner["queueMutex"] = "free"
  /\ downs' = downs + 1
  /\ serverData' = Append(serverData, downs + 1)
  /\ Goto("stiot", "notify")
  /\ UNCHANGED <<owner, msg, sent, failed, overrun, tx, notified, flagVars, convRun,
                 connRun, signalled, oneTime, setas, polls>>

(* Mutant: addToQueue notifies nobody.                                     *)
StiotSilent ==
  /\ At("stiot", "notify") /\ Goto("stiot", "idle")
  /\ UNCHANGED <<owner, queueVars, flagVars, appVars>>

StiotNotify ==
  /\ At("stiot", "notify") /\ NotifyOne /\ Goto("stiot", "idle")
  /\ UNCHANGED <<owner, serverData, msg, sent, failed, overrun, tx, flagVars, appVars>>

StiotEnd ==
  /\ At("stiot", "idle") /\ ~convRun /\ Goto("stiot", "ended")
  /\ UNCHANGED <<owner, queueVars, flagVars, appVars>>

-----------------------------------------------------------------------------
(* main: CTRL+C runs shutDown on it; when the connection has ended it      *)
(* joins the concentrator and the converter, and returns.                  *)
Signal ==
  /\ At("main", "running") /\ ~signalled
  /\ signalled' = TRUE
  /\ convRun' = FALSE /\ connRun' = FALSE
  /\ Goto("main", "stop0")
  /\ UNCHANGED <<owner, queueVars, flagVars, oneTime, setas, downs, polls>>

MainJoin ==
  /\ At("main", "running") /\ ~connRun /\ Goto("main", "join0")
  /\ UNCHANGED <<owner, queueVars, flagVars, appVars>>

MainExit ==
  /\ At("main", "joinConverter") /\ At("stiot", "ended") /\ Goto("main", "exited")
  /\ UNCHANGED <<owner, queueVars, flagVars, appVars>>

(* The radio ends a transmission.                                          *)
TxDone ==
  /\ tx = "emitting" /\ tx' = "free"
  /\ UNCHANGED <<pc, owner, serverData, msg, sent, failed, overrun, notified, flagVars,
                 appVars>>

SpuriousWake ==
  /\ At("send", "waiting") /\ ~notified /\ notified' = TRUE
  /\ UNCHANGED <<pc, owner, serverData, msg, sent, failed, overrun, tx, flagVars, appVars>>

-----------------------------------------------------------------------------
SendStep    == \/ SendLockQueue \/ SendTest \/ SendWait \/ SendWake
               \/ SendPop \/ SendDrained \/ SendStatus \/ SendEmit
ReceiveStep == \/ ReceiveTest \/ ReceiveNothing \/ ReceivePackets
               \/ ReceiveError \/ ReceiveEnd
StiotStep   == \/ StiotSeta \/ StartConcentrator \/ SpawnReceive \/ SpawnSend
               \/ StiotPush \/ StiotNotify \/ StiotEnd
MainStep    == Signal \/ MainJoin \/ MainExit

Alive == ~crashed /\ ~At("main", "exited")
Next == Alive /\ (SendStep \/ ReceiveStep \/ Stop \/ Join \/ StiotStep \/ MainStep
                  \/ TxDone \/ SpuriousWake)

Spec == Init /\ [][Next]_vars

(* Threads run when they can, and a mutex that is free again and again is  *)
(* obtained; the radio ends its transmissions.                             *)
StepOf(t) == CASE t = "send"    -> SendStep
               [] t = "receive" -> ReceiveStep \/ (Stop /\ pc'["receive"] # pc["receive"])
               [] t = "stiot"   -> (StiotStep /\ ~StiotSeta /\ ~StiotPush)
                                   \/ ((Stop \/ Join) /\ pc'["stiot"] # pc["stiot"])
               [] t = "main"    -> (MainJoin \/ MainExit)
                                   \/ ((Stop \/ Join) /\ pc'["main"] # pc["main"])
Fairness == /\ \A t \in Thread : SF_vars(Alive /\ StepOf(t))
            /\ WF_vars(Alive /\ TxDone)
FairSpec == Spec /\ Fairness

-----------------------------------------------------------------------------
(* Properties.                                                             *)

(* Downlinks leave in the order they were handed over, each at most once,  *)
(* and none is lost on the way through the queue and sendHal.              *)
InOrder == LET n == Len(sent) + Len(failed) IN
  /\ \A i, j \in DOMAIN sent : i < j => sent[i] < sent[j]
  /\ \A i \in DOMAIN (msg \o serverData) : (msg \o serverData)[i] = n + i
  /\ n + Len(msg) + Len(serverData) = downs

(* The sender does not sleep on a downlink, nor on the stop flag: whoever  *)
(* pushed or stopped has its notification still to give.                   *)
NoLostWakeup ==
  At("send", "waiting") /\ ~notified =>
    /\ serverData # <<>> => At("stiot", "notify")
    /\ ~sendRun => \E t \in Stoppable : pc[t] \in {"stop2", "stop3"}

(* A downlink is never programmed over one still on the air: "Trying to    *)
(* send a packet while the previous packet has not finished being send     *)
(* will result in the previous packet not being sent" (libloragw readme).  *)
NoOverrun == ~overrun

(* While the concentrator runs and nobody stops it, downlinks handed over  *)
(* are taken for transmission.  (A stop may wait for the sender for ever:  *)
(* see SignalExits.)                                                       *)
Stopping == ~connRun \/ \E t \in Thread : pc[t] \in StopPc
DownlinkSent ==
  (serverData # <<>> /\ hal)
     ~> (serverData = <<>> \/ ~hal \/ crashed \/ Stopping)

(* "need to turn off and turn on" (MessageConverter.cpp:142): a second     *)
(* SETA restarts the concentrator, and the program survives it.            *)
RestartSurvives == ~crashed

(* "Close application by pressing CTRL+C" (PacketConverter/README.md:23).  *)
SignalExits == signalled ~> (At("main", "exited") \/ crashed)
=============================================================================
