----------------------------- MODULE Connection -----------------------------
(***************************************************************************)
(* The TLS connection to the server (ConnectionController.cpp) with the    *)
(* threads that meet on it: main, which connects and later joins; the      *)
(* connection's own thread, process(); fromLora and fromStiot, which hand  *)
(* it messages while each holds the data mutex of its own queue; the timer,*)
(* which gives up on a connection that is not made in time; and the signal *)
(* handler, shutDown(), which runs on whichever thread takes the signal.   *)
(*                                                                         *)
(* processMutex guards processRun, queueMutex guards endDeviceData.  The   *)
(* process thread keeps queueMutex for as long as it has messages to       *)
(* write; every other use of it is one step.                               *)
(*                                                                         *)
(* The TLS library, the server and the network are the environment.  One   *)
(* BIO_read returns what one TLS record carries, which never fills the     *)
(* 64 kB buffer.                                                           *)
(***************************************************************************)
EXTENDS Naturals, Sequences

CONSTANTS MaxPut,     \* bound: calls of addToQueue or addBulk of each thread
          BulkSize,   \* bound: the sizes of the vectors that addBulk puts
          MaxRecord,  \* bound: messages of the server, of which two records are
              \* on their way at a time
          MaxSignal   \* bound: signals from outside

ASSUME BoundAssumption == /\ MaxPut \in Nat /\ BulkSize \subseteq Nat \ {0}
                          /\ MaxRecord \in Nat /\ MaxSignal \in Nat

VARIABLES
  endDeviceData,  \* messages for the server, not taken yet
  hand,           \* the message send() is writing, if any
  taken,          \* history: messages given to TCP, in order
  link,           \* the TLS connection as the socket shows it
  records,        \* records of the server, not read yet
  stream,         \* what has been read and not parsed
  converted,      \* messages handed to the converter, in order
  processRun, connected,
  processMutex,   \* its owner, or "none"
  pc,             \* the process thread
  mainPc,
  handler,        \* shutDown() on each of the threads a signal can hit
  calling,        \* fromLora, fromStiot: holds its data mutex, wants queueMutex
  puts,           \* calls made by each
  timerRun,
  sent, signals,  \* messages the server wrote; signals from outside
  alive           \* the operating system's process

shutVars == <<processRun, timerRun, handler>>
upVars   == <<endDeviceData, hand, taken>>
downVars == <<records, stream, converted>>
envVars  == <<link, sent, signals, alive>>
vars == <<shutVars, upVars, downVars, envVars, connected, processMutex, pc, mainPc,
          calling, puts>>

Producer == {"fromLora", "fromStiot"}
Thread   == {"main", "timer", "process"}
SETR     == <<"main", 0, 0>>
Size(p)  == IF p = "fromLora" THEN BulkSize ELSE {1}
Item     == {SETR} \cup Producer \X (0..MaxPut) \X UNION {1..n : n \in BulkSize \cup {1}}

(* Where shutDown() is on a thread; or fromStiot, which a SETA makes call  *)
(* concentrator->stop() too.                                               *)
Place == {"none", "converter", "connection", "concentrator", "stuck"}
Caller == Thread \cup {"fromStiot"}

(* Mutant: what follows the first JSON text is put up with.                *)
ParsesPrefix(text) == Len(text) >= 1

(* A record carries messages of the server, by number; only one message    *)
(* and the whole of it is a JSON text that fromJsonString parses.          *)
Parses(text) == Len(text) = 1
Odd == <<0, 0>>   \* two messages in one record, or a part of one

TypeOK ==
  /\ endDeviceData \in Seq(Item) /\ taken \in Seq(Item)
  /\ hand \in Seq(Item) /\ Len(hand) <= 1
  /\ link \in {"none", "up", "closed", "reset"}
  /\ records \in Seq(Seq(Nat)) /\ stream \in Seq(Nat) /\ converted \in Seq(Nat)
  /\ processRun \in BOOLEAN /\ connected \in BOOLEAN /\ timerRun \in BOOLEAN
  /\ processMutex \in {"none", "main"}
  /\ pc \in {"none", "loop", "send", "write", "read", "parse", "down", "raised", "ended"}
  /\ mainPc \in {"connect", "lock", "locked", "setr", "join", "end"}
  /\ handler \in [Caller -> Place]
  /\ calling \in [Producer -> BOOLEAN] /\ puts \in [Producer -> 0..MaxPut]
  /\ alive \in BOOLEAN
  /\ sent \in Nat /\ signals \in 0..MaxSignal

Init ==
  /\ endDeviceData = <<>> /\ hand = <<>> /\ taken = <<>>
  /\ link = "none" /\ records = <<>> /\ stream = <<>> /\ converted = <<>>
  /\ processRun = TRUE /\ connected = FALSE /\ processMutex = "none"
  /\ pc = "none" /\ mainPc = "connect"
  /\ handler = [t \in Caller |-> "none"]
  /\ calling = [p \in Producer |-> FALSE] /\ puts = [p \in Producer |-> 0]
  /\ timerRun = TRUE
  /\ sent = 0 /\ signals = 0 /\ alive = TRUE

(* A thread does nothing else while the handler runs on it.                *)
Runs(t) == alive /\ handler[t] = "none"
QueueFree == pc # "write"

(* A handler, or fromStiot, does not come back from concentrator->stop().  *)
StuckStopping == \E t \in Caller : handler[t] = "stuck"
DataFree(p) == ~calling[p] /\ (p = "fromStiot" => handler[p] = "none")

-----------------------------------------------------------------------------
(* shutDown(), on thread t.                                                *)
Handle(t) == handler' = [handler EXCEPT ![t] = "converter"]

(* converter->stop() locks and unlocks the data mutexes of both queues.    *)
HandlerConverter(t) ==
  /\ alive /\ handler[t] = "converter"
  /\ \A p \in Producer : DataFree(p)
  /\ timerRun' = FALSE
  /\ handler' = [handler EXCEPT ![t] = "connection"]
  /\ UNCHANGED <<processRun, upVars, downVars, envVars, connected, processMutex, pc,
                 mainPc, calling, puts>>

(* stop(): it waits for processMutex, its own thread's included.           *)
HandlerConnection(t) ==
  /\ alive /\ handler[t] = "connection"
  /\ processMutex = "none"
  /\ processRun' = FALSE
  /\ handler' = [handler EXCEPT ![t] = "concentrator"]
  /\ UNCHANGED <<timerRun, upVars, downVars, envVars, connected, processMutex, pc,
                 mainPc, calling, puts>>

(* concentrator->stop(), the last call.  Against the thread that sends to  *)
(* the radio, which a SETA of the server has started, it may wait for ever *)
(* (Concentrator has the two mutexes), and then keeps sendMutex.           *)
HandlerConcentrator(t) ==
  /\ alive /\ handler[t] = "concentrator"
  /\ ~StuckStopping
  /\ \/ handler' = [handler EXCEPT ![t] = "none"]
     \/ converted # <<>> /\ handler' = [handler EXCEPT ![t] = "stuck"]
  /\ UNCHANGED <<processRun, timerRun, upVars, downVars, envVars, connected,
                 processMutex, pc, mainPc, calling, puts>>

Handling(t) == HandlerConverter(t) \/ HandlerConnection(t) \/ HandlerConcentrator(t)

(* SIGINT or SIGTERM from outside goes to the main thread.                 *)
Signal ==
  /\ Runs("main") /\ mainPc # "end" /\ signals < MaxSignal
  /\ signals' = signals + 1
  /\ Handle("main")
  /\ UNCHANGED <<processRun, timerRun, upVars, downVars, link, sent, alive,
                 connected, processMutex, pc, mainPc, calling, puts>>

(* The timer thread looks every two seconds; how long the connection may   *)
(* take before CONNECTION_TIMEOUT is over is left open.                    *)
TimerTimeout ==
  /\ alive /\ timerRun /\ handler["timer"] = "none"
  /\ ~connected
  /\ Handle("timer")
  /\ UNCHANGED <<processRun, timerRun, upVars, downVars, envVars, connected,
                 processMutex, pc, mainPc, calling, puts>>

-----------------------------------------------------------------------------
(* The main thread: start(), the first message, join().                    *)

(* BIO_do_connect succeeds, is to be retried, or fails; a start() that has *)
(* failed makes main call the handler itself.                              *)
Connect ==
  /\ Runs("main") /\ mainPc = "connect"
  /\ \/ /\ link' = "up" /\ pc' = "loop" /\ mainPc' = "setr" /\ UNCHANGED handler
     \/ mainPc' = "lock" /\ UNCHANGED <<link, pc, handler>>
     \/ mainPc' = "end" /\ Handle("main") /\ UNCHANGED <<link, pc>>
  /\ UNCHANGED <<processRun, timerRun, upVars, downVars, sent, signals, alive,
                 connected, processMutex, calling, puts>>

ConnectLock ==
  /\ Runs("main") /\ mainPc = "lock" /\ processMutex = "none"
  /\ processMutex' = "main" /\ mainPc' = "locked"
  /\ UNCHANGED <<shutVars, upVars, downVars, envVars, connected, pc, calling, puts>>

(* Mutant: the loop that connects does not look at processRun.             *)
ConnectTestAlways ==
  /\ Runs("main") /\ mainPc = "locked"
  /\ processMutex' = "none" /\ mainPc' = "connect" /\ UNCHANGED handler
  /\ UNCHANGED <<processRun, timerRun, upVars, downVars, envVars, connected, pc,
                 calling, puts>>

ConnectTest ==
  /\ Runs("main") /\ mainPc = "locked"
  /\ processMutex' = "none"
  /\ IF processRun
     THEN mainPc' = "connect" /\ UNCHANGED handler
     ELSE mainPc' = "end" /\ Handle("main")
  /\ UNCHANGED <<processRun, timerRun, upVars, downVars, envVars, connected, pc,
                 calling, puts>>

PutSetr ==
  /\ Runs("main") /\ mainPc = "setr" /\ QueueFree
  /\ endDeviceData' = Append(endDeviceData, SETR)
  /\ mainPc' = "join"
  /\ UNCHANGED <<shutVars, hand, taken, downVars, envVars, connected, processMutex,
                 pc, calling, puts>>

Join ==
  /\ Runs("main") /\ mainPc = "join" /\ pc = "ended"
  /\ mainPc' = "end"
  /\ UNCHANGED <<shutVars, upVars, downVars, envVars, connected, processMutex, pc,
                 calling, puts>>

Main == Connect \/ ConnectLock \/ ConnectTest \/ PutSetr \/ Join

-----------------------------------------------------------------------------
(* The process thread.                                                     *)
(* Its start, and the head of its loop, with processMutex.                 *)
Loop ==
  /\ Runs("process") /\ pc = "loop" /\ processMutex = "none"
  /\ pc' = IF processRun THEN "send" ELSE "ended"
  /\ connected' = TRUE
  /\ UNCHANGED <<shutVars, upVars, downVars, envVars, processMutex, mainPc, calling,
                 puts>>

(* send(): it has queueMutex from here until the queue is empty.           *)
Send ==
  /\ Runs("process") /\ pc = "send"
  /\ IF endDeviceData = <<>>
     THEN pc' = "read" /\ UNCHANGED <<hand, endDeviceData>>
     ELSE /\ pc' = "write"
          /\ hand' = <<Head(endDeviceData)>> /\ endDeviceData' = Tail(endDeviceData)
  /\ UNCHANGED <<shutVars, taken, downVars, envVars, connected, processMutex, mainPc,
                 calling, puts>>

(* Mutant: a write that fails is given up after the first try.             *)
WriteOnce ==
  /\ Runs("process") /\ pc = "write"
  /\ IF link = "up" THEN taken' = taken \o hand ELSE UNCHANGED taken
  /\ IF endDeviceData = <<>>
     THEN pc' = "read" /\ hand' = <<>> /\ UNCHANGED endDeviceData
     ELSE /\ UNCHANGED pc
          /\ hand' = <<Head(endDeviceData)>> /\ endDeviceData' = Tail(endDeviceData)
  /\ UNCHANGED <<shutVars, downVars, envVars, connected, processMutex, mainPc,
                 calling, puts>>

(* Mutant: the message written stays in hand when the next one is taken.   *)
WriteKeeps ==
  /\ Runs("process") /\ pc = "write"
  /\ link \in {"up", "closed"}
  /\ taken' = taken \o hand
  /\ IF endDeviceData = <<>>
     THEN pc' = "read" /\ hand' = <<>> /\ UNCHANGED endDeviceData
     ELSE /\ UNCHANGED pc
          /\ hand' = Append(hand, Head(endDeviceData))
          /\ endDeviceData' = Tail(endDeviceData)
  /\ UNCHANGED <<shutVars, downVars, envVars, connected, processMutex, mainPc,
                 calling, puts>>

(* BIO_write is repeated until it succeeds, which it does while the link   *)
(* is up, and may do once more after the server has closed it.             *)
Write ==
  /\ Runs("process") /\ pc = "write"
  /\ link \in {"up", "closed"}
  /\ taken' = taken \o hand
  /\ IF endDeviceData = <<>>
     THEN pc' = "read" /\ hand' = <<>> /\ UNCHANGED endDeviceData
     ELSE /\ UNCHANGED pc
          /\ hand' = <<Head(endDeviceData)>> /\ endDeviceData' = Tail(endDeviceData)
  /\ UNCHANGED <<shutVars, downVars, envVars, connected, processMutex, mainPc,
                 calling, puts>>

(* BIO_read: data, nothing yet, an error (ignored, like nothing), or the   *)
(* end of the connection, after which it is over for this thread.  With    *)
(* nothing read, select() waits for data half a second at most: it changes *)
(* nothing, and the loop goes on either way.                               *)
Read ==
  /\ Runs("process") /\ pc = "read"
  /\ \/ /\ records # <<>> /\ link # "reset"
        /\ stream' = stream \o Head(records) /\ records' = Tail(records)
        /\ pc' = "parse" /\ UNCHANGED link
     \/ /\ records = <<>> /\ link = "up"
        /\ pc' = "loop" /\ UNCHANGED <<link, records, stream>>
     \/ /\ records = <<>> /\ link = "closed"
        /\ pc' = "down"
        /\ UNCHANGED <<link, records, stream>>
     \/ /\ link = "reset" /\ link' = "closed" /\ records' = <<>>
        /\ pc' = "loop" /\ UNCHANGED stream
  /\ UNCHANGED <<shutVars, upVars, converted, sent, signals, alive, connected,
                 processMutex, mainPc, calling, puts>>

(* Mutant: a message that finds fromStiot's data mutex taken is dropped.   *)
ParseTry ==
  /\ Runs("process") /\ pc = "parse"
  /\ IF ~Parses(stream)
     THEN alive' = FALSE /\ UNCHANGED <<stream, converted, pc>>
     ELSE /\ converted' = IF DataFree("fromStiot") THEN converted \o stream ELSE converted
          /\ stream' = <<>> /\ pc' = "loop" /\ UNCHANGED alive
  /\ UNCHANGED <<shutVars, upVars, records, link, sent, signals, connected,
                 processMutex, mainPc, calling, puts>>

(* The stream is one JSON text, or json::parse throws and nobody catches.  *)
(* addToQueue of the converter waits for the data mutex of fromStiot.      *)
Parse ==
  /\ Runs("process") /\ pc = "parse"
  /\ IF ~Parses(stream)
     THEN alive' = FALSE /\ UNCHANGED <<stream, converted, pc>>
     ELSE /\ DataFree("fromStiot")
          /\ converted' = converted \o stream /\ stream' = <<>>
          /\ pc' = "loop" /\ UNCHANGED alive
  /\ UNCHANGED <<shutVars, upVars, records, link, sent, signals, connected,
                 processMutex, mainPc, calling, puts>>

(* raise(SIGINT): the handler runs on this very thread.  The unlock before *)
(* it finds processMutex free, or held for an instant by another thread.   *)
Raise ==
  /\ Runs("process") /\ pc = "down"
  /\ pc' = "raised" /\ Handle("process")
  /\ UNCHANGED <<processRun, timerRun, upVars, downVars, envVars, connected,
                 processMutex, mainPc, calling, puts>>

(* raise() has come back from the handler: the thread ends.                *)
Return ==
  /\ Runs("process") /\ pc = "raised"
  /\ pc' = "ended"
  /\ UNCHANGED <<shutVars, upVars, downVars, envVars, connected, processMutex, mainPc,
                 calling, puts>>

Process == Loop \/ Send \/ Write \/ Read \/ Parse \/ Raise \/ Return

-----------------------------------------------------------------------------
(* fromLora and fromStiot.  Nothing reaches them before the connection is  *)
(* made.                                                                   *)
Call(p) ==
  /\ alive /\ DataFree(p) /\ puts[p] < MaxPut /\ mainPc = "join"
  /\ calling' = [calling EXCEPT ![p] = TRUE]
  /\ puts' = [puts EXCEPT ![p] = @ + 1]
  /\ UNCHANGED <<shutVars, upVars, downVars, envVars, connected, processMutex, pc,
                 mainPc>>

(* addToQueue puts one message, addBulk of fromLora a vector, whose empty  *)
(* case changes nothing.                                                   *)
Put(p) ==
  /\ alive /\ calling[p] /\ QueueFree
  /\ \E n \in Size(p) :
       endDeviceData' = endDeviceData \o [i \in 1..n |-> <<p, puts[p], i>>]
  /\ calling' = [calling EXCEPT ![p] = FALSE]
  /\ UNCHANGED <<shutVars, hand, taken, downVars, envVars, connected, processMutex,
                 pc, mainPc, puts>>

(* fromStiot stops the concentrator for a second SETA, with its data mutex:*)
(* it does not come back, goes on as before, or ends the process when new  *)
(* threads are started over the old ones (Concentrator has all of this).   *)
Seta ==
  /\ alive /\ DataFree("fromStiot") /\ Len(converted) >= 2
  /\ \/ handler' = [handler EXCEPT !["fromStiot"] = "stuck"] /\ UNCHANGED alive
     \/ alive' = FALSE /\ UNCHANGED handler
  /\ UNCHANGED <<processRun, timerRun, upVars, downVars, link, sent, signals,
                 connected, processMutex, pc, mainPc, calling, puts>>

-----------------------------------------------------------------------------
(* The environment.                                                        *)
ServerWrites ==
  /\ alive /\ link = "up" /\ sent < MaxRecord /\ Len(records) < 2
  /\ \A i \in DOMAIN records : records[i] # Odd
  /\ sent' = sent + 1
  /\ \E r \in {<<sent + 1>>, Odd} : records' = Append(records, r)
  /\ UNCHANGED <<shutVars, upVars, stream, converted, link, signals, alive,
                 connected, processMutex, pc, mainPc, calling, puts>>

(* The server closes the connection, or an error ends it.                  *)
LinkLost ==
  /\ alive /\ link = "up"
  /\ link' \in {"closed", "reset"}
  /\ UNCHANGED <<shutVars, upVars, downVars, sent, signals, alive, connected,
                 processMutex, pc, mainPc, calling, puts>>

(* A write to a connection that is gone may bring SIGPIPE, which nothing   *)
(* handles.                                                                *)
Sigpipe ==
  /\ alive /\ pc = "write" /\ link \in {"closed", "reset"}
  /\ alive' = FALSE
  /\ UNCHANGED <<shutVars, upVars, downVars, link, sent, signals, connected,
                 processMutex, pc, mainPc, calling, puts>>

Next ==
  \/ Main \/ Process \/ TimerTimeout
  \/ \E t \in Thread : Handling(t)
  \/ Seta \/ \E p \in Producer : Call(p) \/ Put(p)
  \/ Signal \/ ServerWrites \/ LinkLost \/ Sigpipe

Spec == Init /\ [][Next]_vars

(* Every thread runs when it can.  processMutex is held for instants only, *)
(* so a thread that wants it gets it.  A data mutex, and queueMutex but for*)
(* a write on a lost link, are taken so seldom that who waits for them     *)
(* finds them free in the end.  Nothing is assumed of the server, of the   *)
(* network, or of a write once the link is lost.                           *)
Fairness ==
  /\ WF_vars(Main) /\ WF_vars((pc # "write" \/ link = "up") /\ Process)
  /\ WF_vars(TimerTimeout)
  /\ \A t \in Thread : SF_vars(Handling(t))
  /\ \A p \in Producer : WF_vars(Put(p))
FairSpec == Spec /\ Fairness

-----------------------------------------------------------------------------
(* Properties.                                                             *)

(* send() is writing on a connection that is gone: nothing but a lucky     *)
(* write or SIGPIPE gets it out of there, and it has queueMutex.           *)
StuckWriting == pc = "write" /\ link # "up"
(* A signal found main inside the critical section of the connecting loop: *)
(* stop() waits for a mutex its own thread holds.                          *)
SelfDeadlock == handler["main"] # "none" /\ processMutex = "main"

(* What the threads put comes out once and in order, across queue, message *)
(* in hand and TCP: the connection implements the mailbox; the box is      *)
(* closed by stop() or by the loss of the link.                            *)
C == INSTANCE Mailbox WITH box <- hand \o endDeviceData,
                           open <- processRun /\ pc \notin {"down", "raised"},
                           ended <- (pc = "ended")
UplinkInOrder == C!MSpec

(* The converter gets the server's messages whole, once and in order: a    *)
(* stream left uncleared, a record read before a stop or one that glues    *)
(* two messages may end the process but never skip or repeat one.          *)
DownlinkInOrder == converted = [i \in 1..Len(converted) |-> i]

(* Messages alone in their records are all handed over once the server     *)
(* pauses (MaxRecord), unless a stop, the loss of the link or the end of   *)
(* the process comes first; and the process does not end as long as every  *)
(* record holds one message and the link is up, but for a second SETA.     *)
OneByOne == /\ \A i \in DOMAIN records : Parses(records[i])
            /\ stream = <<>> \/ Parses(stream)
Restarted == Len(converted) >= 2 /\ (~alive \/ StuckStopping)
DownlinkArrives ==
  (link = "up" /\ alive /\ OneByOne) ~>
    (Len(converted) = sent \/ ~processRun \/ link # "up" \/ ~OneByOne \/ Restarted)

(* What must come to an end does.  The loss of the link is noticed: the    *)
(* program is told to stop, unless send() is caught writing, fromStiot is  *)
(* stuck stopping the concentrator, or the process dies.  A signal, however*)
(* it came about, ends the connection's thread, and the handler comes back *)
(* and lets main go on, unless send() is caught writing on a lost link, the*)
(* signal came while main held processMutex, or the handler or fromStiot   *)
(* is stuck stopping the concentrator.  A connection that is not made in   *)
(* time is given up.                                                       *)
LossNoticed ==
  (link \in {"closed", "reset"}) ~> (~processRun \/ StuckWriting \/ StuckStopping \/ ~alive)
StopEnds ==
  (\E t \in Thread : handler[t] # "none") ~>
    \/ pc \in {"none", "ended"} /\ mainPc = "end" /\ \A t \in Thread : handler[t] = "none"
    \/ StuckWriting \/ SelfDeadlock \/ StuckStopping \/ ~alive
ConnectEnds == (mainPc = "connect") ~> (mainPc \in {"setr", "join", "end"} \/ SelfDeadlock)
Ends == LossNoticed /\ StopEnds /\ ConnectEnds
=============================================================================
