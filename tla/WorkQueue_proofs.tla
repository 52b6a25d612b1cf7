-------------------------- MODULE WorkQueue_proofs --------------------------
(***************************************************************************)
(* Proofs about WorkQueue, for any number of producers, pokers and         *)
(* stoppers and any bounds: the inductive invariant, the absence of lost   *)
(* wake-ups, and the safety part of the implementation of Mailbox.         *)
(***************************************************************************)
EXTENDS WorkQueue, SequenceTheorems, TLAPS

(* What a notification can do to the consumer's pc.                        *)
LEMMA NotifyOneWakes ==
  ASSUME cpc \in ConsumerPc, NotifyOne
  PROVE  /\ cpc' \in ConsumerPc
         /\ cpc' # "waiting"
         /\ cpc # "waiting" => cpc' = cpc
         /\ cpc = "waiting" => cpc' = "woken"
BY DEF NotifyOne, ConsumerPc

-----------------------------------------------------------------------------
(* The queue starts empty, with nobody waiting: the invariant holds.       *)
LEMMA InitIInv == Init => IInv
<1> SUFFICES ASSUME Init PROVE IInv
  OBVIOUS
<1>1. TypeOK
  <2>1. drain \in BOOLEAN /\ run \in BOOLEAN /\ cached \in BOOLEAN /\ wish \in BOOLEAN
    BY Zenon DEF Init
  <2>2. cpc \in ConsumerPc /\ queue \in Seq(Item) /\ taken \in Seq(Item)
    BY DEF Init, ConsumerPc
  <2>3. /\ puts \in [Producer -> Nat] /\ ppc \in [Producer -> {"idle", "notify"}]
        /\ pokes \in [Poker -> Nat] /\ kpc \in [Poker -> {"idle", "sync", "notify"}]
        /\ spc \in [Stopper -> {"idle", "sync", "notify", "done"}]
    BY DEF Init
  <2> QED BY <2>1, <2>2, <2>3 DEF TypeOK
<1>2. cpc = "start" /\ cached = FALSE
  BY DEF Init
<1>3. /\ NoLostWakeup /\ EmptyBeforeWait /\ StopBeforeWait /\ KeyBeforeWait
      /\ SomethingToTake /\ NoCacheAtStart /\ FlagOnlyByStop
  BY <1>2 DEF NoLostWakeup, EmptyBeforeWait, StopBeforeWait, KeyBeforeWait,
     SomethingToTake, NoCacheAtStart, FlagOnlyByStop
<1> QED BY <1>1, <1>3 DEF IInv

(* Type correctness of every step.                                         *)
LEMMA TypeStep == TypeOK /\ SomethingToTake /\ [Next]_vars => TypeOK'
<1> SUFFICES ASSUME TypeOK, SomethingToTake, [Next]_vars PROVE TypeOK'
  OBVIOUS
<1> USE MaxAssumption
<1>1. CASE Consumer \/ SpuriousWake
  <2>1. CASE Take
    <3>1. queue # <<>>
      BY <2>1 DEF Take, SomethingToTake
    <3>2. queue \in Seq(Item) /\ taken \in Seq(Item)
      BY DEF TypeOK
    <3>3. taken' \in Seq(Item) /\ queue' \in Seq(Item)
      <4>1. CASE drain
        <5>1. taken' = taken \o queue /\ queue' = <<>>
          BY <4>1, <2>1 DEF Take
        <5> QED BY <5>1, <3>2
      <4>2. CASE ~drain
        <5>1. taken' = Append(taken, Head(queue)) /\ queue' = Tail(queue)
          BY <4>2, <2>1 DEF Take
        <5>2. Head(queue) \in Item /\ Tail(queue) \in Seq(Item)
          BY <3>1, <3>2
        <5> QED BY <5>1, <5>2, <3>2
      <4> QED BY <4>1, <4>2
    <3> QED BY <3>3, <2>1 DEF Take, TypeOK, ConsumerPc, others
  <2>2. CASE Process
    <3>1. wish' \in BOOLEAN /\ cached' \in BOOLEAN
      BY <2>2, Zenon DEF Process, TypeOK
    <3> QED BY <2>2, <3>1 DEF Process, TypeOK, ConsumerPc, others
  <2>3. CASE \/ Start \/ LockData \/ Loop \/ Top \/ TestRun \/ EnterWait \/ Reacquire
             \/ Recheck \/ Finish \/ SpuriousWake
    BY <2>3 DEF Start, LockData, Loop, Top, TestRun, EnterWait, Reacquire, Recheck,
       Finish, SpuriousWake, TypeOK, ConsumerPc, others
  <2> QED BY <1>1, <2>1, <2>2, <2>3 DEF Consumer
<1>2. ASSUME NEW p \in Producer, Push(p) \/ PushNotify(p) PROVE TypeOK'
  <2>1. CASE Push(p)
    <3>1. puts[p] \in Nat /\ puts[p] < MaxPut
      BY <2>1 DEF Push, TypeOK
    <3>2. <<p, puts[p]>> \in Item
      BY <3>1 DEF Item
    <3>3. queue' \in Seq(Item)
      <4>1. queue' = Append(queue, <<p, puts[p]>>) \/ queue' = queue
        BY <2>1 DEF Push
      <4>2. queue \in Seq(Item)
        BY DEF TypeOK
      <4>3. Append(queue, <<p, puts[p]>>) \in Seq(Item)
        BY <3>2, <4>2, AppendProperties
      <4> QED BY <4>1, <4>2, <4>3
    <3>4. puts' \in [Producer -> Nat] /\ ppc' \in [Producer -> {"idle", "notify"}]
      BY <2>1, <3>1 DEF Push, TypeOK
    <3> QED BY <2>1, <3>3, <3>4 DEF Push, TypeOK
  <2>2. CASE PushNotify(p)
    BY <2>2, NotifyOneWakes DEF PushNotify, TypeOK
  <2> QED BY <1>2, <2>1, <2>2
<1>3. ASSUME NEW k \in Poker, PokeSet(k) \/ PokeSync(k) \/ PokeNotify(k) PROVE TypeOK'
  <2>1. CASE PokeSet(k) \/ PokeSync(k)
    <3>1. wish' \in BOOLEAN
      BY <2>1, Zenon DEF PokeSet, PokeSync, TypeOK
    <3>2. kpc' \in [Poker -> {"idle", "sync", "notify"}]
      BY <2>1 DEF PokeSet, PokeSync, TypeOK
    <3>3. pokes' = pokes \/ pokes' = [pokes EXCEPT ![k] = pokes[k] + 1]
      BY <2>1 DEF PokeSet, PokeSync
    <3>4. pokes' \in [Poker -> Nat]
      <4>1. pokes \in [Poker -> Nat] /\ pokes[k] + 1 \in Nat
        BY DEF TypeOK
      <4>2. CASE pokes' = pokes
        BY <4>1, <4>2
      <4>3. CASE pokes' = [pokes EXCEPT ![k] = pokes[k] + 1]
        BY <4>1, <4>3
      <4> QED BY <3>3, <4>2, <4>3
    <3> QED BY <2>1, <3>1, <3>2, <3>4 DEF PokeSet, PokeSync, TypeOK
  <2>2. CASE PokeNotify(k)
    BY <2>2, NotifyOneWakes DEF PokeNotify, TypeOK
  <2> QED BY <1>3, <2>1, <2>2
<1>4. ASSUME NEW s \in Stopper, StopClear(s) \/ StopSync(s) \/ StopNotify(s) PROVE TypeOK'
  <2>1. CASE StopClear(s) \/ StopSync(s)
    <3>1. run' \in BOOLEAN
      BY <2>1, Zenon DEF StopClear, StopSync, TypeOK
    <3>2. spc' \in [Stopper -> {"idle", "sync", "notify", "done"}]
      BY <2>1 DEF StopClear, StopSync, TypeOK
    <3> QED BY <2>1, <3>1, <3>2 DEF StopClear, StopSync, TypeOK
  <2>2. CASE StopNotify(s)
    BY <2>2, NotifyOneWakes DEF StopNotify, TypeOK
  <2> QED BY <1>4, <2>1, <2>2
<1>5. CASE UNCHANGED vars
  BY <1>5 DEF vars, TypeOK
<1> QED BY <1>1, <1>2, <1>3, <1>4, <1>5 DEF Next, Others

-----------------------------------------------------------------------------
(* The rest of the invariant, apart from types.                            *)
Rest == /\ NoLostWakeup /\ EmptyBeforeWait /\ StopBeforeWait /\ KeyBeforeWait
        /\ SomethingToTake /\ NoCacheAtStart /\ FlagOnlyByStop

(* A step of the consumer: it is the consumer's own tests, made under      *)
(* dataMutex, that establish each part.                                    *)
LEMMA ConsumerStep ==
  ASSUME IInv, Consumer \/ SpuriousWake
  PROVE  Rest'
<1> USE DEF IInv, Rest, NoLostWakeup, EmptyBeforeWait, StopBeforeWait, KeyBeforeWait,
        SomethingToTake, NoCacheAtStart, FlagOnlyByStop, others
<1>1. CASE Start
  BY <1>1 DEF Start
<1>2. CASE LockData
  BY <1>2 DEF LockData
<1>3. CASE Loop
  BY <1>3 DEF Loop
<1>4. CASE Top
  BY <1>4 DEF Top
<1>5. CASE TestRun
  BY <1>5 DEF TestRun
<1>6. CASE EnterWait
  (* From before the wait to the wait: what is at "sync" is not lost yet.   *)
  <2>1. SeesItems'
    BY <1>6 DEF EnterWait, SeesItems
  <2>2. SeesStop'
    BY <1>6 DEF EnterWait, SeesStop
  <2>3. SeesKey'
    BY <1>6 DEF EnterWait, SeesKey
  <2> QED BY <1>6, <2>1, <2>2, <2>3 DEF EnterWait
<1>7. CASE Reacquire \/ SpuriousWake
  BY <1>7 DEF Reacquire, SpuriousWake
<1>8. CASE Recheck
  BY <1>8 DEF Recheck
<1>9. CASE Take
  BY <1>9 DEF Take
<1>10. CASE Process
  BY <1>10 DEF Process
<1>11. CASE Finish
  BY <1>11 DEF Finish
<1> QED BY <1>1, <1>2, <1>3, <1>4, <1>5, <1>6, <1>7, <1>8, <1>9, <1>10, <1>11
        DEF Consumer

(* A push happens while the consumer is waiting or on its way back from    *)
(* the wait, and leaves its producer at its notification.                  *)
LEMMA ProducerStep ==
  ASSUME IInv, NEW p \in Producer, Push(p) \/ PushNotify(p)
  PROVE  Rest'
<1> USE DEF IInv, Rest, NoLostWakeup, EmptyBeforeWait, StopBeforeWait, KeyBeforeWait,
        SomethingToTake, NoCacheAtStart, FlagOnlyByStop
<1>1. CASE Push(p)
  <2>1. cpc \in {"start", "lockData", "waiting", "woken", "done"}
    BY <1>1 DEF Push, DataFree, HoldsData, TypeOK, ConsumerPc
  <2>2. ppc'[p] = "notify"
    BY <1>1 DEF Push, TypeOK
  <2>3. SeesItems'
    BY <2>2 DEF SeesItems
  <2>4. cpc = "waiting" => SeesStop' /\ SeesKey'
    BY <1>1 DEF Push, SeesStop, SeesKey
  <2> QED BY <1>1, <2>1, <2>3, <2>4 DEF Push
<1>2. CASE PushNotify(p)
  BY <1>2, NotifyOneWakes DEF PushNotify, TypeOK
<1> QED BY <1>1, <1>2

(* A poker sets the key first, and stays at its lock of dataMutex for as   *)
(* long as the consumer is in a pass.                                      *)
LEMMA PokerStep ==
  ASSUME IInv, NEW k \in Poker, PokeSet(k) \/ PokeSync(k) \/ PokeNotify(k)
  PROVE  Rest'
<1> USE DEF IInv, Rest, NoLostWakeup, EmptyBeforeWait, StopBeforeWait, KeyBeforeWait,
        SomethingToTake, NoCacheAtStart, FlagOnlyByStop
<1>1. CASE PokeSet(k)
  <2>1. kpc'[k] = "sync"
    BY <1>1 DEF PokeSet, TypeOK
  <2>2. SeesKey' /\ KeyBeforeWait'
    BY <2>1 DEF SeesKey
  <2>3. cpc = "waiting" => SeesItems' /\ SeesStop'
    BY <1>1 DEF PokeSet, SeesItems, SeesStop
  <2> QED BY <1>1, <2>2, <2>3 DEF PokeSet
<1>2. CASE PokeSync(k)
  <2>1. cpc \in {"start", "lockData", "waiting", "woken", "done"}
    BY <1>2 DEF PokeSync, DataFree, HoldsData, TypeOK, ConsumerPc
  <2>2. kpc'[k] = "notify"
    BY <1>2 DEF PokeSync, TypeOK
  <2>3. SeesKey'
    BY <2>2 DEF SeesKey
  <2>4. cpc = "waiting" => SeesItems' /\ SeesStop'
    BY <1>2 DEF PokeSync, SeesItems, SeesStop
  <2> QED BY <1>2, <2>1, <2>3, <2>4 DEF PokeSync
<1>3. CASE PokeNotify(k)
  <2>1. cpc' # "waiting" /\ (cpc' = cpc \/ cpc' = "woken")
    BY <1>3, NotifyOneWakes DEF PokeNotify, TypeOK
  <2>2. KeyBeforeWait'
    <3> SUFFICES ASSUME cpc' \in {"finish", "loop", "top", "testRun", "enterWait"},
                        wish', cached'
                 PROVE  \E j \in Poker : kpc'[j] = "sync"
      OBVIOUS
    <3>1. PICK j \in Poker : kpc[j] = "sync"
      BY <1>3, <2>1 DEF PokeNotify
    <3>2. kpc'[j] = "sync"
      BY <1>3, <3>1 DEF PokeNotify, TypeOK
    <3> QED BY <3>2
  <2> QED BY <1>3, <2>1, <2>2 DEF PokeNotify
<1> QED BY <1>1, <1>2, <1>3

(* A stopper likewise stays at its lock of dataMutex until the consumer,   *)
(* which may have read the flag just before, has reached its wait.         *)
LEMMA StopperStep ==
  ASSUME IInv, NEW s \in Stopper, StopClear(s) \/ StopSync(s) \/ StopNotify(s)
  PROVE  Rest'
<1> USE DEF IInv, Rest, NoLostWakeup, EmptyBeforeWait, StopBeforeWait, KeyBeforeWait,
        SomethingToTake, NoCacheAtStart, FlagOnlyByStop
<1>1. CASE StopClear(s)
  <2>1. spc'[s] = "sync"
    BY <1>1 DEF StopClear, TypeOK
  <2>2. SeesStop' /\ StopBeforeWait'
    BY <2>1 DEF SeesStop
  <2>3. cpc = "waiting" => SeesItems' /\ SeesKey'
    BY <1>1 DEF StopClear, SeesItems, SeesKey
  <2> QED BY <1>1, <2>2, <2>3 DEF StopClear
<1>2. CASE StopSync(s)
  <2>1. cpc \in {"start", "lockData", "waiting", "woken", "done"}
    BY <1>2 DEF StopSync, DataFree, HoldsData, TypeOK, ConsumerPc
  <2>2. spc'[s] = "notify"
    BY <1>2 DEF StopSync, TypeOK
  <2>3. SeesStop'
    BY <2>2 DEF SeesStop
  <2>4. cpc = "waiting" => SeesItems' /\ SeesKey'
    BY <1>2 DEF StopSync, SeesItems, SeesKey
  <2> QED BY <1>2, <2>1, <2>3, <2>4 DEF StopSync
<1>3. CASE StopNotify(s)
  <2>1. cpc' # "waiting" /\ (cpc' = cpc \/ cpc' = "woken")
    BY <1>3, NotifyOneWakes DEF StopNotify, TypeOK
  <2>2. StopBeforeWait'
    <3> SUFFICES ASSUME cpc' = "enterWait", ~run'
                 PROVE  \E t \in Stopper : spc'[t] = "sync"
      OBVIOUS
    <3>1. PICK t \in Stopper : spc[t] = "sync"
      BY <1>3, <2>1 DEF StopNotify
    <3>2. spc'[t] = "sync"
      BY <1>3, <3>1 DEF StopNotify, TypeOK
    <3> QED BY <3>2
  <2> QED BY <1>3, <2>1, <2>2 DEF StopNotify
<1> QED BY <1>1, <1>2, <1>3

(* Every step of every thread keeps the invariant.                         *)
LEMMA StepIInv == IInv /\ [Next]_vars => IInv'
<1> SUFFICES ASSUME IInv, [Next]_vars PROVE IInv'
  OBVIOUS
<1>1. TypeOK'
  BY TypeStep DEF IInv
<1>2. Rest'
  <2>1. CASE UNCHANGED vars
    BY <2>1 DEF vars, IInv, Rest, NoLostWakeup, EmptyBeforeWait, StopBeforeWait,
       KeyBeforeWait, SomethingToTake, NoCacheAtStart, FlagOnlyByStop, SeesItems,
       SeesStop, SeesKey
  <2> QED BY <2>1, ConsumerStep, ProducerStep, PokerStep, StopperStep DEF Next, Others
<1> QED BY <1>1, <1>2 DEF IInv, Rest

(* The inductive invariant holds in every reachable state.                 *)
THEOREM InductiveInvariant == Spec => []IInv
BY InitIInv, StepIInv, PTL DEF Spec

(* Type correctness.                                                       *)
THEOREM TypeCorrect == Spec => []TypeOK
<1>1. IInv => TypeOK
  BY DEF IInv
<1> QED BY <1>1, InductiveInvariant, PTL

(* No wake-up is lost: a consumer asleep in fromLoraCond.wait or           *)
(* fromStiotCond.wait with something to do has a notification coming.      *)
THEOREM NoWakeupIsLost == Spec => []NoLostWakeup
<1>1. IInv => NoLostWakeup
  BY DEF IInv
<1> QED BY <1>1, InductiveInvariant, PTL

-----------------------------------------------------------------------------
(* The implementation of Mailbox.                                          *)
LEMMA InitMailbox == Init => M!MInit
BY DEF Init, M!MInit

(* Every step is a step of the mailbox or leaves it alone.                 *)
LEMMA StepMailbox == IInv /\ [Next]_vars => [M!MNext]_(M!mvars)
<1> SUFFICES ASSUME IInv, [Next]_vars PROVE [M!MNext]_(M!mvars)
  OBVIOUS
<1> USE DEF M!mvars
<1>1. CASE Take
  <2>1. queue # <<>> /\ cpc = "take" /\ cpc' = "process"
    BY <1>1 DEF Take, IInv, SomethingToTake
  <2>2. CASE drain
    BY <1>1, <2>1, <2>2 DEF Take, M!MNext, M!TakeAll
  <2>3. CASE ~drain
    BY <1>1, <2>1, <2>3 DEF Take, M!MNext, M!TakeOne
  <2> QED BY <2>2, <2>3
<1>2. CASE LockData \/ Loop
  <2>1. CASE run
    BY <1>2, <2>1 DEF LockData, Loop
  <2>2. CASE ~run
    BY <1>2, <2>2 DEF LockData, Loop, M!MNext, M!End
  <2> QED BY <2>1, <2>2
<1>3. CASE \/ Start \/ Top \/ TestRun \/ EnterWait \/ Reacquire \/ Recheck
           \/ Process \/ Finish \/ SpuriousWake
  BY <1>3 DEF Start, Top, TestRun, EnterWait, Reacquire, Recheck, Process, Finish,
     SpuriousWake
<1>4. ASSUME NEW p \in Producer, Push(p) PROVE M!MNext \/ UNCHANGED M!mvars
  <2>1. <<p, puts[p]>> \in Item
    BY <1>4, MaxAssumption DEF Push, Item, IInv, TypeOK
  <2> QED BY <1>4, <2>1 DEF Push, M!MNext, M!Put
<1>5. ASSUME NotifyOne, UNCHANGED <<queue, run, taken>> PROVE UNCHANGED M!mvars
  BY <1>5 DEF NotifyOne
<1>6. ASSUME NEW s \in Stopper, StopClear(s) PROVE M!MNext
  BY <1>6 DEF StopClear, M!MNext, M!Close
<1>7. CASE \/ \E p \in Producer : PushNotify(p)
           \/ \E k \in Poker : PokeNotify(k)
           \/ \E s \in Stopper : StopNotify(s)
  BY <1>7, <1>5 DEF PushNotify, PokeNotify, StopNotify
<1>8. CASE \/ \E k \in Poker : PokeSet(k) \/ PokeSync(k)
           \/ \E s \in Stopper : StopSync(s)
  BY <1>8 DEF PokeSet, PokeSync, StopSync
<1>9. CASE UNCHANGED vars
  BY <1>9 DEF vars
<1> QED BY <1>1, <1>2, <1>3, <1>4, <1>6, <1>7, <1>8, <1>9 DEF Next, Consumer, Others

(* The queue protocol implements the mailbox: what is pushed comes out at  *)
(* most once and in order, and the consumer ends only once it is stopped.  *)
THEOREM ImplementsMailbox == Spec => SafeMailbox
<1>1. Init => M!MInit
  BY InitMailbox
<1>2. IInv /\ [Next]_vars => [M!MNext]_(M!mvars)
  BY StepMailbox
<1> QED BY <1>1, <1>2, InductiveInvariant, PTL DEF Spec, SafeMailbox, M!MSpec
=============================================================================
