-------------------------- MODULE Connection_proofs --------------------------
(***************************************************************************)
(* Proofs about Connection, for any number of messages, records and        *)
(* signals.                                                                *)
(***************************************************************************)
EXTENDS Connection, SequenceTheorems, TLAPS

-----------------------------------------------------------------------------
(* The parts of the inductive invariant.                                   *)

(* send() has one message in hand while it writes, and none otherwise.     *)
InHand ==
  /\ pc = "write" => Len(hand) = 1
  /\ pc # "write" => hand = <<>>

(* The process thread is created once, by the connection that is made; a   *)
(* stop or the loss of the link is for good; and the thread ends for one   *)
(* of the two only.                                                        *)
Lifetime ==
  /\ mainPc \in {"connect", "lock", "locked"} => pc = "none" /\ link = "none"
  /\ pc = "ended" => ~processRun
  /\ pc = "raised" => ~processRun \/ handler["process"] \in {"converter", "connection"}
  /\ handler["process"] # "none" => pc = "raised"

(* What has been read and not parsed, and the records after it, go on      *)
(* where the converter is: one message each, or, at the end, a record that *)
(* is no message.  As long as the link is up nothing has been lost, and    *)
(* the server's count says where they end.                                 *)
Whole(s, k) == s = <<k>> \/ s = Odd
Follow(recs, n) == \A i \in 1..Len(recs) :
                     \/ recs[i] = <<n + i>>
                     \/ recs[i] = Odd /\ i = Len(recs)
InStep ==
  /\ DownlinkInOrder
  /\ pc # "parse" => stream = <<>>
  /\ stream = <<>> \/ Whole(stream, Len(converted) + 1)
  /\ Parses(stream) \/ stream = <<>> =>
       /\ Follow(records, Len(converted) + Len(stream))
       /\ link \in {"none", "up"} => sent = Len(converted) + Len(stream) + Len(records)

IInv == TypeOK /\ InHand /\ Lifetime /\ InStep

-----------------------------------------------------------------------------
(* The shape of the state.                                                 *)

(* What a producer puts is a sequence of items.                            *)
Bulk(p, n) == [i \in 1..n |-> <<p, puts[p], i>>]

(* A bulk is a sequence of as many items.                                  *)
LEMMA BulkType ==
  ASSUME TypeOK, NEW p \in Producer, NEW n \in Size(p)
  PROVE  Bulk(p, n) \in Seq(Item) /\ Len(Bulk(p, n)) = n /\ n \in Nat \ {0}
<1>1. puts[p] \in 0..MaxPut /\ n \in BulkSize \cup {1} /\ n \in Nat \ {0}
  BY BoundAssumption DEF TypeOK, Size
<1>2. \A i \in 1..n : <<p, puts[p], i>> \in Item
  BY <1>1 DEF Item
<1> QED BY <1>1, <1>2 DEF Bulk

(* TypeOK in three parts.                                                  *)
UpType == /\ endDeviceData \in Seq(Item) /\ taken \in Seq(Item)
          /\ hand \in Seq(Item) /\ Len(hand) <= 1
DownType == records \in Seq(Seq(Nat)) /\ stream \in Seq(Nat) /\ converted \in Seq(Nat)
ControlType ==
  /\ link \in {"none", "up", "closed", "reset"}
  /\ processRun \in BOOLEAN /\ connected \in BOOLEAN /\ timerRun \in BOOLEAN
  /\ processMutex \in {"none", "main"}
  /\ pc \in {"none", "loop", "send", "write", "read", "parse", "down", "raised", "ended"}
  /\ mainPc \in {"connect", "lock", "locked", "setr", "join", "end"}
  /\ handler \in [Caller -> Place]
  /\ calling \in [Producer -> BOOLEAN] /\ puts \in [Producer -> 0..MaxPut]
  /\ alive \in BOOLEAN
  /\ sent \in Nat /\ signals \in 0..MaxSignal

(* The three parts are the whole.                                          *)
LEMMA TypeParts == TypeOK <=> UpType /\ DownType /\ ControlType
BY DEF TypeOK, UpType, DownType, ControlType

(* Messages of the threads stay messages, wherever they are.               *)
LEMMA UpTypeStep == ASSUME TypeOK, InHand, [Next]_vars PROVE UpType'
<1> USE DEF UpType
<1>t. UpType /\ DownType /\ ControlType
  BY TypeParts
<1>h. ASSUME endDeviceData # <<>>, hand' = <<Head(endDeviceData)>>,
             endDeviceData' = Tail(endDeviceData)
      PROVE  endDeviceData' \in Seq(Item) /\ hand' \in Seq(Item) /\ Len(hand') <= 1
  <2>1. Head(endDeviceData) \in Item /\ Tail(endDeviceData) \in Seq(Item)
    BY <1>h, <1>t, HeadTailProperties
  <2>2. \A x \in Item : <<x>> \in Seq(Item) /\ Len(<<x>>) <= 1
    OBVIOUS
  <2> QED BY <1>h, <2>1, <2>2
<1>e. hand' = <<>> => hand' \in Seq(Item) /\ Len(hand') <= 1
  OBVIOUS
<1>1. CASE PutSetr
  <2>1. Append(endDeviceData, SETR) \in Seq(Item)
    BY <1>t, AppendProperties DEF Item
  <2> QED BY <1>1, <1>t, <2>1 DEF PutSetr
<1>2. CASE Send
  <2>1. \/ UNCHANGED <<hand, endDeviceData>>
        \/ /\ endDeviceData # <<>>
           /\ hand' = <<Head(endDeviceData)>> /\ endDeviceData' = Tail(endDeviceData)
    BY <1>2 DEF Send
  <2>2. taken' = taken
    BY <1>2 DEF Send
  <2>3. endDeviceData' \in Seq(Item) /\ hand' \in Seq(Item) /\ Len(hand') <= 1
    <3>1. CASE UNCHANGED <<hand, endDeviceData>>
      BY <3>1, <1>t
    <3> QED BY <2>1, <3>1, <1>h
  <2> QED BY <1>t, <2>2, <2>3
<1>3. CASE Write
  <2>1. taken \o hand \in Seq(Item)
    BY <1>t, ConcatProperties
  <2>2. taken' \in Seq(Item)
    BY <1>3, <2>1 DEF Write
  <2>3. \/ hand' = <<>> /\ endDeviceData' = endDeviceData
        \/ /\ endDeviceData # <<>>
           /\ hand' = <<Head(endDeviceData)>> /\ endDeviceData' = Tail(endDeviceData)
    BY <1>3 DEF Write
  <2>4. endDeviceData' \in Seq(Item) /\ hand' \in Seq(Item) /\ Len(hand') <= 1
    <3>1. CASE hand' = <<>> /\ endDeviceData' = endDeviceData
      BY <3>1, <1>t, <1>e
    <3> QED BY <2>3, <3>1, <1>h
  <2> QED BY <2>2, <2>4
<1>4. ASSUME NEW p \in Producer, Put(p) PROVE UpType'
  <2>1. PICK n \in Size(p) : endDeviceData' = endDeviceData \o Bulk(p, n)
    BY <1>4 DEF Put, Bulk
  <2>2. endDeviceData' \in Seq(Item)
    BY <1>t, <2>1, BulkType, ConcatProperties
  <2> QED BY <1>4, <1>t, <2>2 DEF Put
<1>5. CASE \/ Connect \/ ConnectLock \/ ConnectTest \/ Join \/ Loop \/ Read \/ Parse \/ Raise
           \/ Return \/ TimerTimeout \/ Signal \/ Seta \/ Sigpipe \/ LinkLost \/ ServerWrites \/ UNCHANGED vars
  BY <1>5, <1>t DEF Connect, ConnectLock, ConnectTest, Join, Loop, Read, Parse, Raise,
     Return, TimerTimeout, Signal, Seta, Sigpipe, LinkLost, ServerWrites, vars, upVars
<1>6. ASSUME NEW t \in Thread, Handling(t) PROVE UpType'
  BY <1>6, <1>t DEF Handling, HandlerConverter, HandlerConnection, HandlerConcentrator, upVars
<1>7. ASSUME NEW p \in Producer, Call(p) PROVE UpType'
  BY <1>7, <1>t DEF Call, upVars
<1> QED BY <1>1, <1>2, <1>3, <1>4, <1>5, <1>6, <1>7 DEF Next, Main, Process

(* What the server sent stays a sequence of numbers, or of such.           *)
LEMMA DownTypeStep == ASSUME TypeOK, [Next]_vars PROVE DownType'
<1> USE DEF DownType
<1>t. DownType /\ ControlType
  BY TypeParts
<1>1. CASE Read
  <2>1. records # <<>> => /\ stream \o Head(records) \in Seq(Nat)
                          /\ Tail(records) \in Seq(Seq(Nat))
    <3>1. records # <<>> => Head(records) \in Seq(Nat) /\ Tail(records) \in Seq(Seq(Nat))
      BY <1>t, HeadTailProperties
    <3> QED BY <1>t, <3>1, ConcatProperties
  <2>2. /\ converted' = converted
        /\ \/ /\ records # <<>> /\ stream' = stream \o Head(records)
              /\ records' = Tail(records)
           \/ stream' = stream /\ (records' = records \/ records' = <<>>)
    BY <1>1 DEF Read
  <2>3. stream' \in Seq(Nat)
    BY <1>t, <2>1, <2>2
  <2>4. records' \in Seq(Seq(Nat))
    <3>1. records' = <<>> => records' \in Seq(Seq(Nat))
      OBVIOUS
    <3> QED BY <1>t, <2>1, <2>2, <3>1
  <2> QED BY <1>t, <2>2, <2>3, <2>4
<1>2. CASE Parse
  <2>1. converted \o stream \in Seq(Nat)
    BY <1>t, ConcatProperties
  <2>2. /\ records' = records
        /\ \/ converted' = converted \o stream /\ stream' = <<>>
           \/ converted' = converted /\ stream' = stream
    BY <1>2 DEF Parse
  <2>3. stream' = <<>> => stream' \in Seq(Nat)
    OBVIOUS
  <2>4. converted' \in Seq(Nat) /\ stream' \in Seq(Nat)
    <3>1. CASE converted' = converted \o stream /\ stream' = <<>>
      BY <3>1, <2>1, <2>3
    <3> QED BY <2>2, <3>1, <1>t
  <2> QED BY <1>t, <2>2, <2>4
<1>3. CASE ServerWrites
  <2>1. <<sent + 1>> \in Seq(Nat) /\ Odd \in Seq(Nat)
    <3>1. sent + 1 \in Nat
      BY <1>t DEF ControlType
    <3> QED BY <3>1 DEF Odd
  <2>2. \A r \in Seq(Nat) : Append(records, r) \in Seq(Seq(Nat))
    BY <1>t, AppendProperties
  <2> QED BY <1>3, <1>t, <2>1, <2>2 DEF ServerWrites
<1>4. CASE \/ Main \/ Loop \/ Send \/ Write \/ Raise \/ Return \/ TimerTimeout \/ Signal
           \/ Seta \/ Sigpipe \/ LinkLost \/ UNCHANGED vars
  BY <1>4, <1>t DEF Main, Connect, ConnectLock, ConnectTest, PutSetr, Join, Loop, Send, Write,
     Raise, Return, TimerTimeout, Signal, Seta, Sigpipe, LinkLost, vars, downVars
<1>5. ASSUME NEW t \in Thread, Handling(t) PROVE DownType'
  BY <1>5, <1>t DEF Handling, HandlerConverter, HandlerConnection, HandlerConcentrator, downVars
<1>6. ASSUME NEW p \in Producer, Call(p) \/ Put(p) PROVE DownType'
  BY <1>6, <1>t DEF Call, Put, downVars
<1> QED BY <1>1, <1>2, <1>3, <1>4, <1>5, <1>6 DEF Next, Process

(* Flags, threads, handlers and counters keep their ranges.                *)
LEMMA ControlTypeStep == ASSUME TypeOK, [Next]_vars PROVE ControlType'
<1> USE DEF ControlType
<1>t. ControlType /\ {"main", "timer", "process", "fromStiot"} \subseteq Caller /\ Thread \subseteq Caller
  BY TypeParts DEF Thread, Caller
<1>1. CASE Main
  BY <1>1, <1>t DEF Main, Connect, ConnectLock, ConnectTest, PutSetr, Join, Handle, shutVars, envVars,
     Place
<1>2. CASE Loop \/ Send \/ Write
  <2>1. CASE Loop
    BY <1>t, <2>1 DEF Loop, shutVars, envVars
  <2>2. CASE Send
    BY <1>t, <2>2 DEF Send, shutVars, envVars
  <2>3. CASE Write
    BY <1>t, <2>3 DEF Write, shutVars, envVars
  <2> QED BY <1>2, <2>1, <2>2, <2>3
<1>6. CASE Read
  BY <1>6, <1>t DEF Read, shutVars
<1>7. CASE Parse
  BY <1>7, <1>t DEF Parse, shutVars
<1>8. CASE Raise
  BY <1>8, <1>t DEF Raise, Handle, envVars, Place
<1>15. CASE Return
  BY <1>15, <1>t DEF Return, shutVars, envVars
<1>3. CASE LinkLost
  BY <1>3, <1>t DEF LinkLost, shutVars
<1>16. CASE Seta
  <2>1. handler' \in [Caller -> Place] /\ alive' \in BOOLEAN
    BY <1>16, <1>t DEF Seta, Place
  <2> QED BY <1>16, <1>t, <2>1 DEF Seta
<1>12. CASE Sigpipe
  BY <1>12, <1>t DEF Sigpipe, shutVars
<1>13. CASE UNCHANGED vars
  BY <1>13, <1>t DEF vars, shutVars, envVars
<1>9. CASE TimerTimeout
  BY <1>9, <1>t DEF TimerTimeout, Handle, envVars, Place
<1>10. CASE Signal
  BY <1>10, <1>t, BoundAssumption DEF Signal, Handle, Place
<1>11. CASE ServerWrites
  BY <1>11, <1>t DEF ServerWrites, shutVars
<1>4. ASSUME NEW t \in Thread, Handling(t) PROVE ControlType'
  <2>1. handler' \in [Caller -> Place]
    BY <1>4, <1>t DEF Handling, HandlerConverter, HandlerConnection, HandlerConcentrator, Place
  <2>2. timerRun' \in BOOLEAN /\ processRun' \in BOOLEAN
    BY <1>4, <1>t DEF Handling, HandlerConverter, HandlerConnection, HandlerConcentrator
  <2> QED BY <1>4, <1>t, <2>1, <2>2 DEF Handling, HandlerConverter, HandlerConnection, HandlerConcentrator,
      envVars
<1>5. ASSUME NEW p \in Producer, Call(p) PROVE ControlType'
  <2>1. puts[p] + 1 \in 0..MaxPut
    BY <1>5, <1>t, BoundAssumption DEF Call
  <2>2. puts' \in [Producer -> 0..MaxPut] /\ calling' \in [Producer -> BOOLEAN]
    BY <1>5, <1>t, <2>1 DEF Call
  <2> QED BY <1>5, <1>t, <2>2 DEF Call, shutVars, envVars
<1>14. ASSUME NEW p \in Producer, Put(p) PROVE ControlType'
  <2>1. calling' \in [Producer -> BOOLEAN]
    BY <1>14, <1>t DEF Put
  <2> QED BY <1>14, <1>t, <2>1 DEF Put, shutVars, envVars
<1> QED BY <1>1, <1>2, <1>3, <1>4, <1>5, <1>6, <1>7, <1>8, <1>9, <1>10, <1>11, <1>12, <1>13, <1>14, <1>15,
   <1>16 DEF Next, Process

(* send() takes one message at a time.                                     *)
LEMMA InHandStep == ASSUME TypeOK, InHand, Lifetime, [Next]_vars PROVE InHand'
<1> USE DEF InHand
<1>1. CASE Main
  <2>1. mainPc = "connect" => pc # "write"
    BY DEF Lifetime
  <2> QED BY <1>1, <2>1 DEF Main, Connect, ConnectLock, ConnectTest, PutSetr, Join, upVars
<1>2. CASE Send \/ Write
  BY <1>2 DEF Send, Write
<1>3. CASE Loop \/ Read \/ Parse \/ Raise \/ Return
  BY <1>3 DEF Loop, Read, Parse, Raise, Return, upVars
<1>4. CASE TimerTimeout \/ Signal \/ Seta \/ Sigpipe \/ LinkLost \/ ServerWrites \/ UNCHANGED vars
  BY <1>4 DEF TimerTimeout, Signal, Seta, Sigpipe, LinkLost, ServerWrites, vars, upVars
<1>5. ASSUME NEW t \in Thread, Handling(t) PROVE InHand'
  BY <1>5 DEF Handling, HandlerConverter, HandlerConnection, HandlerConcentrator, upVars
<1>6. ASSUME NEW p \in Producer, Call(p) \/ Put(p) PROVE InHand'
  BY <1>6 DEF Call, Put, upVars
<1> QED BY <1>1, <1>2, <1>3, <1>4, <1>5, <1>6 DEF Next, Process

(* The thread's life, from the connection to its end.                      *)
LEMMA LifetimeStep == ASSUME TypeOK, Lifetime, [Next]_vars PROVE Lifetime'
<1> USE DEF Lifetime
<1>t. handler \in [Caller -> Place] /\ "process" \in Thread /\ Thread \subseteq Caller
  BY DEF TypeOK, Thread, Caller
<1>1. CASE Main
  BY <1>1, <1>t DEF Main, Connect, ConnectLock, ConnectTest, PutSetr, Join, Handle, shutVars, envVars
<1>2. CASE Send \/ Write \/ Loop \/ Read \/ Parse
  BY <1>2 DEF Send, Write, Loop, Read, Parse, shutVars, envVars, Runs
<1>3. CASE Raise
  BY <1>3, <1>t DEF Raise, Handle, envVars
<1>8. CASE Return
  BY <1>8 DEF Return, Runs, shutVars, envVars
<1>4. CASE TimerTimeout \/ Signal
  BY <1>4, <1>t DEF TimerTimeout, Signal, Handle, envVars
<1>9. CASE Seta
  <2>1. handler'["process"] = handler["process"]
    BY <1>9, <1>t DEF Seta
  <2> QED BY <1>9, <2>1 DEF Seta
<1>5. CASE Sigpipe \/ LinkLost \/ ServerWrites \/ UNCHANGED vars
  BY <1>5 DEF Sigpipe, LinkLost, ServerWrites, vars, shutVars, envVars
<1>6. ASSUME NEW t \in Thread, Handling(t) PROVE Lifetime'
  BY <1>6, <1>t DEF Handling, HandlerConverter, HandlerConnection, HandlerConcentrator, envVars
<1>7. ASSUME NEW p \in Producer, Call(p) \/ Put(p) PROVE Lifetime'
  BY <1>7 DEF Call, Put, shutVars, envVars
<1> QED BY <1>1, <1>2, <1>3, <1>4, <1>5, <1>6, <1>7, <1>8, <1>9 DEF Next, Process

-----------------------------------------------------------------------------
(* The messages of the server.                                             *)

(* When the first record is a message, the others go on after it.          *)
LEMMA FollowTail ==
  ASSUME NEW recs \in Seq(Seq(Nat)), NEW n \in Nat, recs # <<>>, Follow(recs, n),
         Head(recs) # Odd
  PROVE  Follow(Tail(recs), n + 1) /\ Head(recs) = <<n + 1>>
<1>1. Len(recs) \in Nat \ {0} /\ Len(Tail(recs)) = Len(recs) - 1
  BY HeadTailProperties, EmptySeq
<1>2. \A i \in 1..Len(Tail(recs)) : Tail(recs)[i] = recs[i + 1]
  BY <1>1
<1>3. Head(recs) = recs[1]
  OBVIOUS
<1>4. Head(recs) = <<n + 1>>
  <2>1. 1 \in 1..Len(recs)
    BY <1>1
  <2>2. recs[1] = <<n + 1>> \/ recs[1] = Odd
    BY <2>1 DEF Follow
  <2> QED BY <2>2, <1>3
<1>5. ASSUME NEW i \in 1..Len(Tail(recs))
      PROVE  \/ Tail(recs)[i] = <<(n + 1) + i>>
             \/ Tail(recs)[i] = Odd /\ i = Len(Tail(recs))
  <2>1. i \in Nat /\ i + 1 \in 1..Len(recs) /\ n + (i + 1) = (n + 1) + i
    BY <1>1
  <2>2. \/ recs[i + 1] = <<n + (i + 1)>>
        \/ recs[i + 1] = Odd /\ i + 1 = Len(recs)
    BY <2>1 DEF Follow
  <2>3. i + 1 = Len(recs) => i = Len(Tail(recs))
    <3>1. Len(recs) \in Nat /\ Len(Tail(recs)) = Len(recs) - 1 /\ i \in Nat
      BY <1>1, <2>1
    <3> DEFINE m == Len(recs)
               t == Len(Tail(recs))
    <3>2. m \in Nat /\ t = m - 1 /\ i \in Nat
      BY <3>1
    <3> HIDE DEF m, t
    <3>3. i + 1 = m => i = t
      BY <3>2
    <3> QED BY <3>3 DEF m, t
  <2> QED BY <1>2, <2>1, <2>2, <2>3
<1> QED BY <1>4, <1>5 DEF Follow

(* The server's next record goes on where the last one ended.              *)
LEMMA FollowAppend ==
  ASSUME NEW recs \in Seq(Seq(Nat)), NEW n \in Nat, NEW r \in Seq(Nat), Follow(recs, n),
         \A i \in 1..Len(recs) : recs[i] # Odd,
         r = <<n + Len(recs) + 1>> \/ r = Odd
  PROVE  Follow(Append(recs, r), n)
<1>1. /\ Len(recs) \in Nat /\ Len(Append(recs, r)) = Len(recs) + 1
      /\ \A i \in 1..Len(recs) : Append(recs, r)[i] = recs[i]
      /\ Append(recs, r)[Len(recs) + 1] = r
  BY AppendProperties
<1>2. ASSUME NEW i \in 1..Len(Append(recs, r))
      PROVE  \/ Append(recs, r)[i] = <<n + i>>
             \/ Append(recs, r)[i] = Odd /\ i = Len(Append(recs, r))
  <2>1. CASE i \in 1..Len(recs)
    BY <1>1, <2>1 DEF Follow
  <2>2. CASE i = Len(recs) + 1
    <3>1. n + Len(recs) + 1 = n + i
      BY <1>1, <2>2
    <3> QED BY <1>1, <2>2, <3>1
  <2> QED BY <1>1, <2>1, <2>2
<1> QED BY <1>2 DEF Follow

(* BIO_read hands over the record at the head, which is next in turn.      *)
LEMMA InStepRead == ASSUME TypeOK, InStep, Read PROVE InStep'
<1>t. records \in Seq(Seq(Nat)) /\ Len(converted) \in Nat /\ pc = "read"
  BY DEF TypeOK, Read
<1>i. stream = <<>> /\ Len(stream) = 0 /\ Len(converted) + Len(stream) = Len(converted)
  BY <1>t DEF InStep
<1>c. converted' = converted /\ sent' = sent
  BY DEF Read
<1>d. DownlinkInOrder'
  BY <1>c DEF InStep, DownlinkInOrder
<1>f. /\ Follow(records, Len(converted))
      /\ link \in {"none", "up"} => sent = Len(converted) + Len(records)
  BY <1>i DEF InStep
<1>1. CASE /\ records # <<>> /\ stream' = stream \o Head(records) /\ records' = Tail(records)
           /\ pc' = "parse" /\ link' = link
  <2>1. /\ Head(records) \in Seq(Nat) /\ Len(records) \in Nat \ {0}
        /\ Len(Tail(records)) = Len(records) - 1
    BY <1>1, <1>t, HeadTailProperties, EmptySeq
  <2>2. stream' = Head(records)
    BY <1>1, <1>i, <2>1
  <2>3. CASE Head(records) = Odd
    <3>1. Whole(stream', Len(converted') + 1) /\ ~Parses(stream') /\ stream' # <<>>
      BY <2>2, <2>3 DEF Whole, Odd, Parses
    <3> QED BY <1>1, <1>d, <3>1 DEF InStep
  <2>4. CASE Head(records) # Odd
    <3>1. Follow(Tail(records), Len(converted) + 1) /\ Head(records) = <<Len(converted) + 1>>
      BY <1>1, <1>t, <1>f, <2>4, FollowTail
    <3>2. Whole(stream', Len(converted') + 1) /\ Len(stream') = 1
      BY <2>2, <3>1, <1>c DEF Whole
    <3>3. Follow(records', Len(converted') + Len(stream'))
      BY <1>1, <1>c, <3>1, <3>2
    <3>4. link' \in {"none", "up"} => sent' = Len(converted') + Len(stream') + Len(records')
      <4> DEFINE n == Len(converted)
                 m == Len(records)
      <4>1. n \in Nat /\ m \in Nat \ {0} /\ (link \in {"none", "up"} => sent = n + m)
        BY <1>t, <1>f, <2>1
      <4>2. n + m = n + 1 + (m - 1)
        <5> HIDE DEF n, m
        <5> QED BY <4>1
      <4> QED BY <1>1, <1>c, <2>1, <3>2, <4>1, <4>2
    <3> QED BY <1>1, <1>d, <3>2, <3>3, <3>4 DEF InStep
  <2> QED BY <2>3, <2>4
<1>2. CASE /\ \/ pc' = "loop" /\ UNCHANGED <<link, records, stream>>
              \/ pc' = "down" /\ UNCHANGED <<link, records, stream>>
  BY <1>2, <1>t, <1>c, <1>d DEF InStep
<1>3. CASE link' = "closed" /\ records' = <<>> /\ pc' = "loop" /\ stream' = stream
  <2>1. Follow(records', Len(converted') + Len(stream'))
    BY <1>3 DEF Follow
  <2> QED BY <1>3, <1>i, <1>d, <2>1 DEF InStep
<1> QED BY <1>1, <1>2, <1>3 DEF Read

(* Only the next message parses, and it is handed over as a whole.         *)
LEMMA InStepParse == ASSUME TypeOK, InStep, Parse PROVE InStep'
<1>t. records \in Seq(Seq(Nat)) /\ converted \in Seq(Nat) /\ Len(converted) \in Nat /\ pc = "parse"
  BY DEF TypeOK, Parse
<1>c. records' = records /\ sent' = sent /\ link' = link
  BY DEF Parse
<1>1. CASE ~Parses(stream)
  <2>1. UNCHANGED <<stream, converted, pc>>
    BY <1>1 DEF Parse
  <2> QED BY <2>1, <1>c DEF InStep, DownlinkInOrder
<1>2. CASE Parses(stream)
  <2>1. stream = <<Len(converted) + 1>> /\ Len(stream) = 1
    <3>1. stream # <<>>
      BY <1>2 DEF Parses
    <3>2. Whole(stream, Len(converted) + 1)
      BY <3>1 DEF InStep
    <3> QED BY <1>2, <3>2 DEF Whole, Odd, Parses
  <2>2. converted' = converted \o stream /\ stream' = <<>>
    BY <1>2 DEF Parse
  <2>3. /\ Len(converted') = Len(converted) + 1
        /\ \A i \in 1..Len(converted) : converted'[i] = converted[i]
        /\ converted'[Len(converted) + 1] = Len(converted) + 1
    BY <1>t, <2>1, <2>2
  <2>4. DownlinkInOrder'
    <3> DEFINE n == Len(converted)
    <3>1. \A i \in 1..n : converted[i] = i
      BY DEF InStep, DownlinkInOrder
    <3>2. \A i \in 1..(n + 1) : converted'[i] = i
      <4>1. \A i \in 1..(n + 1) : i \in 1..n \/ i = n + 1
        BY <1>t
      <4> QED BY <2>3, <3>1, <4>1
    <3>3. converted' \in Seq(Nat)
      <4>1. <<n + 1>> \in Seq(Nat)
        BY <1>t
      <4> QED BY <1>t, <2>1, <2>2, <4>1, ConcatProperties
    <3>4. converted' = [i \in 1..Len(converted') |-> converted'[i]]
      BY <3>3
    <3>5. Len(converted') = n + 1
      BY <2>3
    <3> HIDE DEF n
    <3>6. converted' = [i \in 1..(n + 1) |-> i]
      BY <3>2, <3>4, <3>5
    <3> QED BY <3>5, <3>6 DEF DownlinkInOrder
  <2>5. Len(converted') + Len(stream') = Len(converted) + Len(stream)
    BY <1>t, <2>1, <2>2, <2>3
  <2> QED BY <1>2, <2>2, <2>4, <2>5, <1>c DEF InStep
<1> QED BY <1>1, <1>2

(* The server writes one more record behind those on their way.            *)
LEMMA InStepServer == ASSUME TypeOK, InStep, ServerWrites PROVE InStep'
<1>t. /\ records \in Seq(Seq(Nat)) /\ Len(records) \in Nat /\ Len(converted) \in Nat
      /\ Len(stream) \in Nat /\ sent \in Nat
  BY DEF TypeOK
<1>c. /\ converted' = converted /\ stream' = stream /\ pc' = pc /\ link' = link
      /\ link = "up" /\ sent' = sent + 1
  BY DEF ServerWrites
<1>1. CASE ~(Parses(stream) \/ stream = <<>>)
  BY <1>1, <1>c DEF InStep, DownlinkInOrder
<1>2. CASE Parses(stream) \/ stream = <<>>
  <2> DEFINE n == Len(converted) + Len(stream)
             m == Len(records)
  <2>1. Follow(records, n) /\ sent = n + m /\ n \in Nat /\ m \in Nat
    BY <1>t, <1>2, <1>c DEF InStep
  <2>2. PICK r \in {<<sent + 1>>, Odd} : records' = Append(records, r)
    BY DEF ServerWrites
  <2>3. r \in Seq(Nat) /\ (r = <<n + m + 1>> \/ r = Odd)
    <3>1. <<sent + 1>> \in Seq(Nat) /\ Odd \in Seq(Nat)
      BY <1>t DEF Odd
    <3> QED BY <2>1, <2>2, <3>1
  <2>4. \A i \in 1..Len(records) : records[i] # Odd
    BY <1>t DEF ServerWrites
  <2>5. Follow(records', n)
    BY <1>t, <2>1, <2>2, <2>3, <2>4, FollowAppend
  <2>6. Len(records') = m + 1
    BY <1>t, <2>2, <2>3, AppendProperties
  <2>7. sent' = n + (m + 1)
    <3> HIDE DEF n, m
    <3> QED BY <1>c, <2>1
  <2> QED BY <1>2, <1>c, <2>5, <2>6, <2>7 DEF InStep, DownlinkInOrder
<1> QED BY <1>1, <1>2

(* Nothing else touches what comes from the server.                        *)
LEMMA InStepStep == ASSUME TypeOK, Lifetime, InStep, [Next]_vars PROVE InStep'
<1> USE DEF InStep, DownlinkInOrder
<1>1. CASE Read
  BY <1>1, InStepRead
<1>2. CASE Parse
  BY <1>2, InStepParse
<1>3. CASE ServerWrites
  BY <1>3, InStepServer
<1>4. CASE Connect
  BY <1>4 DEF Lifetime, Connect, downVars
<1>5. CASE ConnectLock \/ ConnectTest \/ PutSetr \/ Join
  BY <1>5 DEF ConnectLock, ConnectTest, PutSetr, Join, downVars, envVars
<1>6. CASE Loop \/ Send \/ Write \/ Raise \/ Return
  BY <1>6 DEF Loop, Send, Write, Raise, Return, downVars, envVars
<1>7. CASE TimerTimeout \/ Signal \/ Seta \/ Sigpipe \/ LinkLost \/ UNCHANGED vars
  BY <1>7 DEF TimerTimeout, Signal, Seta, Sigpipe, LinkLost, vars, downVars, envVars
<1>8. ASSUME NEW t \in Thread, Handling(t) PROVE InStep'
  BY <1>8 DEF Handling, HandlerConverter, HandlerConnection, HandlerConcentrator, downVars,
     envVars
<1>9. ASSUME NEW p \in Producer, Call(p) \/ Put(p) PROVE InStep'
  BY <1>9 DEF Call, Put, downVars, envVars
<1> QED BY <1>1, <1>2, <1>3, <1>4, <1>5, <1>6, <1>7, <1>8, <1>9 DEF Next, Main, Process

-----------------------------------------------------------------------------
(* The invariant, and what it says of the two directions.                  *)

(* The invariant holds at the start.                                       *)
LEMMA InitIInv == Init => IInv
<1> SUFFICES ASSUME Init PROVE IInv
  OBVIOUS
<1>1. UpType /\ DownType
  BY DEF Init, UpType, DownType
<1>2. ControlType
  <2>1. /\ handler \in [Caller -> Place]
        /\ calling \in [Producer -> BOOLEAN]
    BY DEF Init, Place
  <2>2. puts \in [Producer -> 0..MaxPut] /\ signals \in 0..MaxSignal /\ sent \in Nat
    <3>1. 0 \in 0..MaxPut /\ 0 \in 0..MaxSignal
      BY BoundAssumption
    <3> QED BY <3>1 DEF Init
  <2> QED BY <2>1, <2>2 DEF Init, ControlType
<1>3. Follow(records, 0) /\ Len(converted) = 0 /\ Len(stream) = 0 /\ Len(records) = 0
  BY DEF Init, Follow
<1>4. DownlinkInOrder
  BY <1>3 DEF Init, DownlinkInOrder
<1>5. InStep
  BY <1>3, <1>4 DEF Init, InStep
<1>6. InHand /\ Lifetime
  BY DEF Init, InHand, Lifetime, Thread, Caller
<1> QED BY <1>1, <1>2, <1>5, <1>6, TypeParts DEF IInv

(* The same after a step.                                                  *)
LEMMA TypePartsPrimed == (UpType /\ DownType /\ ControlType => TypeOK)'
BY TypeParts, PTL

(* Every step keeps the invariant.                                         *)
LEMMA StepIInv == IInv /\ [Next]_vars => IInv'
<1> SUFFICES ASSUME IInv, [Next]_vars PROVE IInv'
  OBVIOUS
<1>1. TypeOK /\ InHand /\ Lifetime /\ InStep
  BY DEF IInv
<1>2. UpType' /\ DownType' /\ ControlType'
  BY <1>1, UpTypeStep, DownTypeStep, ControlTypeStep
<1>3. InHand' /\ Lifetime' /\ InStep'
  BY <1>1, InHandStep, LifetimeStep, InStepStep
<1> QED BY <1>2, <1>3, TypePartsPrimed DEF IInv

(* What keeps the connection in order, whatever the threads, the signals,  *)
(* the server and the network do.                                          *)
THEOREM ConnectionInvariant == Spec => []IInv
BY InitIInv, StepIInv, PTL DEF Spec

(* The connection's state keeps its shape.                                 *)
THEOREM TypeCorrect == Spec => []TypeOK
<1>1. IInv => TypeOK
  BY DEF IInv
<1> QED BY <1>1, ConnectionInvariant, PTL

(* The converter gets the server's messages whole, once and in order.      *)
THEOREM DownlinksInOrder == Spec => []DownlinkInOrder
<1>1. IInv => DownlinkInOrder
  BY DEF IInv, InStep
<1> QED BY <1>1, ConnectionInvariant, PTL

-----------------------------------------------------------------------------
(* The connection implements the mailbox.                                  *)

(* It starts as an open and empty mailbox.                                 *)
LEMMA InitMailbox == Init => C!MInit
<1> SUFFICES ASSUME Init PROVE C!MInit
  OBVIOUS
<1>1. hand \o endDeviceData = <<>>
  BY DEF Init
<1> QED BY <1>1 DEF Init, C!MInit

(* Taking a message from the queue leaves the box as it is: the message is *)
(* in hand until TCP has it.                                               *)
LEMMA StepSend == ASSUME IInv, Send PROVE UNCHANGED C!mvars
<1>1. /\ hand = <<>> /\ hand \o endDeviceData = endDeviceData
      /\ endDeviceData \in Seq(Item)
  BY DEF IInv, InHand, TypeOK, Send
<1>2. hand' \o endDeviceData' = hand \o endDeviceData
  <2>1. CASE endDeviceData = <<>>
    BY <2>1 DEF Send
  <2>2. CASE endDeviceData # <<>>
    <3>1. hand' = <<Head(endDeviceData)>> /\ endDeviceData' = Tail(endDeviceData)
      BY <2>2 DEF Send
    <3>2. <<Head(endDeviceData)>> \o Tail(endDeviceData) = endDeviceData
      BY <1>1, <2>2
    <3> QED BY <1>1, <3>1, <3>2
  <2> QED BY <2>1, <2>2
<1>3. /\ pc = "send" /\ pc' \in {"read", "write"}
      /\ UNCHANGED <<taken, processRun, handler>>
  BY DEF Send, shutVars
<1> QED BY <1>2, <1>3 DEF C!mvars

(* BIO_write takes the message at the head of the box.                     *)
LEMMA StepWrite == ASSUME IInv, Write PROVE C!TakeOne
<1>1. /\ endDeviceData \in Seq(Item) /\ hand \in Seq(Item) /\ Len(hand) = 1
      /\ taken \in Seq(Item)
  BY DEF IInv, InHand, TypeOK, Write
<1>2. PICK x \in Item : hand = <<x>>
  <2>1. hand \in Seq(Item) /\ Len(hand) = 1
    BY <1>1
  <2>2. hand[1] \in Item
    BY <2>1
  <2>3. hand = <<hand[1]>>
    BY <2>1
  <2> QED BY <2>2, <2>3
<1>3. /\ <<x>> \o endDeviceData # <<>>
      /\ Head(<<x>> \o endDeviceData) = x
      /\ Tail(<<x>> \o endDeviceData) = endDeviceData
      /\ taken \o <<x>> = Append(taken, x)
  BY <1>1
<1>4. hand' \o endDeviceData' = endDeviceData
  <2>1. CASE endDeviceData = <<>>
    BY <2>1 DEF Write
  <2>2. CASE endDeviceData # <<>>
    <3>1. hand' = <<Head(endDeviceData)>> /\ endDeviceData' = Tail(endDeviceData)
      BY <2>2 DEF Write
    <3>2. <<Head(endDeviceData)>> \o Tail(endDeviceData) = endDeviceData
      BY <1>1, <2>2
    <3> QED BY <3>1, <3>2
  <2> QED BY <2>1, <2>2
<1>5. taken' = Append(taken, x)
  BY <1>2, <1>3 DEF Write
<1>6. /\ pc = "write" /\ pc' \in {"read", "write"}
      /\ UNCHANGED <<processRun, handler>>
  BY DEF Write, shutVars
<1> QED BY <1>2, <1>3, <1>4, <1>5, <1>6 DEF C!TakeOne

(* Concatenation is associative.                                           *)
LEMMA Regroup ==
  ASSUME NEW x \in Seq(Item), NEW y \in Seq(Item), NEW z \in Seq(Item)
  PROVE  x \o (y \o z) = (x \o y) \o z
OBVIOUS

(* main and the two work queues put messages behind what is there.         *)
LEMMA StepPut ==
  ASSUME IInv, PutSetr \/ \E p \in Producer : Put(p)
  PROVE  C!Put \/ C!PutAll
<1> DEFINE box == hand \o endDeviceData
<1>1. endDeviceData \in Seq(Item) /\ hand \in Seq(Item) /\ box \in Seq(Item)
  BY ConcatProperties DEF IInv, TypeOK
<1>2. UNCHANGED <<hand, taken, processRun, handler, pc>>
  BY DEF PutSetr, Put, shutVars
<1>3. CASE PutSetr
  <2>1. hand \o Append(endDeviceData, SETR) = Append(box, SETR) /\ SETR \in Item
    BY <1>1 DEF Item
  <2> QED BY <1>2, <1>3, <2>1 DEF C!Put, PutSetr
<1>4. ASSUME NEW p \in Producer, Put(p) PROVE C!PutAll
  <2>1. PICK n \in Size(p) : endDeviceData' = endDeviceData \o Bulk(p, n)
    BY <1>4 DEF Put, Bulk
  <2> DEFINE b == Bulk(p, n)
  <2>2. b \in Seq(Item) /\ Len(b) \in Nat \ {0}
    BY BulkType DEF IInv
  <2>a. hand' = hand /\ endDeviceData' = endDeviceData \o b
    BY <1>2, <2>1
  <2> HIDE DEF b
  <2>3. hand' \o endDeviceData' = box \o b
    <3>1. hand \o (endDeviceData \o b) = (hand \o endDeviceData) \o b
      BY <1>1, <2>2, Regroup
    <3>2. hand' \o endDeviceData' = hand \o (endDeviceData \o b)
      BY <2>a
    <3> QED BY <3>1, <3>2
  <2>4. Len(box \o b) > Len(box) /\ SubSeq(box \o b, 1, Len(box)) = box
    BY <1>1, <2>2
  <2> QED BY <1>2, <2>3, <2>4 DEF C!PutAll
<1> QED BY <1>3, <1>4

(* Every step is a step of the mailbox or leaves it alone.                 *)
LEMMA StepMailbox == IInv /\ [Next]_vars => [C!MNext]_(C!mvars)
<1> SUFFICES ASSUME IInv, [Next]_vars PROVE [C!MNext]_(C!mvars)
  OBVIOUS
<1>t. handler \in [Caller -> Place] /\ "process" \in Thread /\ Thread \subseteq Caller
  BY DEF IInv, TypeOK, Thread, Caller
<1>1. CASE Send
  BY <1>1, StepSend
<1>2. CASE Write
  BY <1>2, StepWrite DEF C!MNext
<1>3. CASE PutSetr \/ \E p \in Producer : Put(p)
  BY <1>3, StepPut DEF C!MNext
<1>4. CASE Loop
  <2>1. CASE processRun
    BY <1>4, <2>1 DEF Loop, upVars, shutVars, C!mvars
  <2>2. CASE ~processRun
    BY <1>4, <2>2 DEF Loop, upVars, shutVars, C!MNext, C!End
  <2> QED BY <2>1, <2>2
<1>5. CASE Read
  <2>1. CASE pc' = "down"
    BY <1>5, <2>1 DEF Read, upVars, shutVars, C!MNext, C!Close
  <2>2. CASE pc' # "down"
    BY <1>5, <2>2 DEF Read, upVars, shutVars, C!mvars
  <2> QED BY <2>1, <2>2
<1>6. CASE Raise
  BY <1>6 DEF Raise, Handle, upVars, C!mvars
<1>14. CASE Return
  BY <1>14 DEF Return, IInv, Lifetime, Runs, upVars, shutVars, C!MNext, C!End
<1>7. CASE Parse
  BY <1>7 DEF Parse, upVars, shutVars, C!mvars
<1>8. ASSUME NEW t \in Thread, HandlerConverter(t) \/ HandlerConcentrator(t)
      PROVE  UNCHANGED C!mvars
  BY <1>8 DEF HandlerConverter, HandlerConcentrator, upVars, C!mvars
<1>9. ASSUME NEW t \in Thread, HandlerConnection(t) PROVE C!Close
  BY <1>9 DEF HandlerConnection, upVars, C!Close
<1>10. CASE Connect
  <2>1. pc = "none"
    BY <1>10 DEF Connect, IInv, Lifetime
  <2> QED BY <1>10, <1>t, <2>1 DEF Connect, Handle, upVars, C!mvars
<1>11. CASE TimerTimeout \/ Signal \/ ConnectLock \/ ConnectTest \/ Join
  BY <1>11, <1>t DEF TimerTimeout, Signal, ConnectLock, ConnectTest, Join, Handle, upVars,
     shutVars, C!mvars
<1>12. CASE ServerWrites \/ LinkLost \/ Seta \/ Sigpipe \/ UNCHANGED vars
  BY <1>12 DEF ServerWrites, LinkLost, Seta, Sigpipe, vars, upVars, shutVars, C!mvars
<1>13. ASSUME NEW p \in Producer, Call(p) PROVE UNCHANGED C!mvars
  BY <1>13 DEF Call, upVars, shutVars, C!mvars
<1> QED BY <1>1, <1>2, <1>3, <1>4, <1>5, <1>6, <1>7, <1>8, <1>9, <1>10, <1>11, <1>12, <1>13, <1>14
    DEF Next, Main, Process, Handling, C!MNext

(* What the threads put comes out once and in order, across queue, message *)
(* in hand and TCP, and the thread ends only after a stop or the loss of   *)
(* the link: the connection implements the mailbox.                        *)
THEOREM ImplementsMailbox == Spec => UplinkInOrder
<1>1. Init => C!MInit
  BY InitMailbox
<1>2. IInv /\ [Next]_vars => [C!MNext]_(C!mvars)
  BY StepMailbox
<1> QED BY <1>1, <1>2, ConnectionInvariant, PTL DEF Spec, UplinkInOrder, C!MSpec
=============================================================================
