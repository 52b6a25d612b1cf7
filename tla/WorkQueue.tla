----------------------------- MODULE WorkQueue -----------------------------
(***************************************************************************)
(* The queue, condition variable and run flag behind the threads fromLora  *)
(* and fromStiot of MessageConverter.cpp, with their two mutexes:          *)
(*   dataMutex (loraDataMutex, stiotDataMutex) guards the queue,           *)
(*   runMutex  (fromLoraMutex, fromStiotMutex) guards the run flag.        *)
(* The consumer holds dataMutex all the time except in its wait.  Of the   *)
(* other threads none keeps a mutex from one step to the next: producers   *)
(* push under dataMutex, then notify; fromStiot, with a new session key,   *)
(* locks and unlocks dataMutex, then notifies; stop() clears the flag      *)
(* under runMutex, locks and unlocks dataMutex, then notifies.             *)
(* Which mutexes are held is therefore a matter of the consumer's pc.      *)
(***************************************************************************)
EXTENDS Naturals, Sequences

CONSTANTS
  Producer,   \* threads that call addToQueue and addBulk
  Poker,      \* threads that set a session key and wake the consumer
  Stopper,    \* threads that run stop()
  MaxPut,     \* bound: calls of each producer
  MaxPoke     \* bound: keys each poker sets

ASSUME MaxAssumption   == MaxPut \in Nat /\ MaxPoke \in Nat

VARIABLES
  drain,     \* which thread the consumer is: fromLora takes the whole queue and
             \* keeps a cache of frames, fromStiot takes one message and has none
  queue,     \* fromLoraData, fromStiotData
  run,       \* fromLoraRun, fromStiotRun
  cpc,       \* the consumer: its next step
  cached,    \* oldData is not empty
  wish,      \* a session key the consumer has not looked at yet
  puts, ppc, \* producers: calls made, next step
  pokes, kpc,\* pokers
  spc,       \* stoppers
  taken      \* history: every item the consumer has taken, in order

vars == <<drain, queue, run, cpc, cached, wish, puts, ppc, pokes, kpc, spc, taken>>

Item == Producer \X (0..MaxPut)

ConsumerPc == {"start", "lockData", "loop", "top", "testRun", "enterWait", "waiting",
               "woken", "recheck", "take", "process", "finish", "done"}
HoldsData == {"loop", "top", "testRun", "enterWait", "recheck", "take", "process",
              "finish"}
HoldsRun  == {"lockData"}

DataFree == cpc \notin HoldsData
RunFree  == cpc \notin HoldsRun

TypeOK ==
  /\ queue \in Seq(Item) /\ taken \in Seq(Item)
  /\ drain \in BOOLEAN /\ run \in BOOLEAN /\ cached \in BOOLEAN /\ wish \in BOOLEAN
  /\ cpc \in ConsumerPc
  /\ puts \in [Producer -> Nat] /\ ppc \in [Producer -> {"idle", "notify"}]
  /\ pokes \in [Poker -> Nat]   /\ kpc \in [Poker -> {"idle", "sync", "notify"}]
  /\ spc \in [Stopper -> {"idle", "sync", "notify", "done"}]

Init ==
  /\ drain \in BOOLEAN
  /\ queue = <<>> /\ taken = <<>>
  /\ run = TRUE /\ cached = FALSE /\ wish = FALSE
  /\ cpc = "start"
  /\ puts = [p \in Producer |-> 0] /\ ppc = [p \in Producer |-> "idle"]
  /\ pokes = [k \in Poker |-> 0]   /\ kpc = [k \in Poker |-> "idle"]
  /\ spc = [s \in Stopper |-> "idle"]

others == <<drain, puts, ppc, pokes, kpc, spc>>

-----------------------------------------------------------------------------
(* The consumer.                                                           *)

(* It locks runMutex, then dataMutex, and tests the flag; once in the loop *)
(* it holds dataMutex and takes runMutex just for the test.                *)
Start ==
  /\ cpc = "start" /\ cpc' = "lockData"
  /\ UNCHANGED <<queue, run, cached, wish, taken, others>>

LockData ==
  /\ cpc = "lockData" /\ cpc' = IF run THEN "top" ELSE "done"
  /\ UNCHANGED <<queue, run, cached, wish, taken, others>>

Loop ==
  /\ cpc = "loop" /\ cpc' = IF run THEN "top" ELSE "done"
  /\ UNCHANGED <<queue, run, cached, wish, taken, others>>

(* Is there something to take?                                             *)
Top ==
  /\ cpc = "top" /\ cpc' = IF queue # <<>> THEN "take" ELSE "testRun"
  /\ UNCHANGED <<queue, run, cached, wish, taken, others>>

(* The flag before the wait: once clear, get...Data returns false, and the *)
(* drain of fromLora finds an empty queue.                                 *)
TestRun ==
  /\ cpc = "testRun"
  /\ cpc' = IF run THEN "enterWait" ELSE IF drain THEN "process" ELSE "finish"
  /\ UNCHANGED <<queue, run, cached, wish, taken, others>>

EnterWait ==
  /\ cpc = "enterWait" /\ cpc' = "waiting"
  /\ UNCHANGED <<queue, run, cached, wish, taken, others>>

SpuriousWake ==
  /\ cpc = "waiting" /\ cpc' = "woken"
  /\ UNCHANGED <<queue, run, cached, wish, taken, others>>

(* The wait returns with dataMutex.                                        *)
Reacquire ==
  /\ cpc = "woken" /\ cpc' = "recheck"
  /\ UNCHANGED <<queue, run, cached, wish, taken, others>>

(* The flag after the wait.  fromLora goes on to what there is, stopped or *)
(* not, and with a cache even if nothing has come; fromStiot gives up when *)
(* stopped.  Otherwise the queue decides.                                  *)
Recheck ==
  /\ cpc = "recheck"
  /\ cpc' = IF ~run \/ (drain /\ cached)
            THEN IF ~drain THEN "finish" ELSE IF queue # <<>> THEN "take" ELSE "process"
            ELSE IF queue # <<>> THEN "take" ELSE "testRun"
  /\ UNCHANGED <<queue, run, cached, wish, taken, others>>

(* Mutant: the drain copies the whole queue and removes its first item.    *)
TakePopsOne ==
  /\ cpc = "take" /\ cpc' = "process"
  /\ taken' = taken \o queue /\ queue' = Tail(queue)
  /\ UNCHANGED <<run, cached, wish, others>>

Take ==
  /\ cpc = "take" /\ cpc' = "process"
  /\ IF drain
     THEN taken' = taken \o queue /\ queue' = <<>>
     ELSE taken' = Append(taken, Head(queue)) /\ queue' = Tail(queue)
  /\ UNCHANGED <<run, cached, wish, others>>

(* fromLora looks up the session keys of what it has cached; the pass may  *)
(* leave frames in the cache or empty it.                                  *)
Process ==
  /\ cpc = "process" /\ cpc' = "finish"
  /\ wish' = FALSE
  /\ IF drain THEN cached' \in BOOLEAN ELSE UNCHANGED cached
  /\ UNCHANGED <<queue, run, taken, others>>

Finish ==
  /\ cpc = "finish" /\ cpc' = "loop"
  /\ UNCHANGED <<queue, run, cached, wish, taken, others>>

Consumer == \/ Start \/ LockData \/ Loop \/ Top \/ TestRun \/ EnterWait \/ Reacquire
            \/ Recheck \/ Take \/ Process \/ Finish

-----------------------------------------------------------------------------
(* notify_one: it wakes the consumer if that waits, and is lost otherwise. *)
NotifyOne == cpc' = IF cpc = "waiting" THEN "woken" ELSE cpc

(* addToQueue pushes, unless the message is bad, and notifies in any case. *)
Push(p) ==
  /\ ppc[p] = "idle" /\ puts[p] < MaxPut /\ DataFree
  /\ puts' = [puts EXCEPT ![p] = @ + 1]
  /\ ppc' = [ppc EXCEPT ![p] = "notify"]
  /\ \/ queue' = Append(queue, <<p, puts[p]>>)
     \/ ~drain /\ UNCHANGED queue
  /\ UNCHANGED <<drain, run, cpc, cached, wish, pokes, kpc, spc, taken>>

PushNotify(p) ==
  /\ ppc[p] = "notify"
  /\ NotifyOne
  /\ ppc' = [ppc EXCEPT ![p] = "idle"]
  /\ UNCHANGED <<drain, queue, run, cached, wish, puts, pokes, kpc, spc, taken>>

(* KEYA: setSessionkey, then the lock of dataMutex, then the notification. *)
PokeSet(k) ==
  /\ drain /\ kpc[k] = "idle" /\ pokes[k] < MaxPoke
  /\ pokes' = [pokes EXCEPT ![k] = @ + 1]
  /\ wish' = TRUE
  /\ kpc' = [kpc EXCEPT ![k] = "sync"]
  /\ UNCHANGED <<drain, queue, run, cpc, cached, puts, ppc, spc, taken>>

(* Mutant: no lock of dataMutex before the notification for a key.         *)
PokeNoSync(k) ==
  /\ kpc[k] = "sync"
  /\ kpc' = [kpc EXCEPT ![k] = "notify"]
  /\ UNCHANGED <<drain, queue, run, cpc, cached, wish, puts, ppc, pokes, spc, taken>>

PokeSync(k) ==
  /\ kpc[k] = "sync" /\ DataFree
  /\ kpc' = [kpc EXCEPT ![k] = "notify"]
  /\ UNCHANGED <<drain, queue, run, cpc, cached, wish, puts, ppc, pokes, spc, taken>>

PokeNotify(k) ==
  /\ kpc[k] = "notify"
  /\ NotifyOne
  /\ kpc' = [kpc EXCEPT ![k] = "idle"]
  /\ UNCHANGED <<drain, queue, run, cached, wish, puts, ppc, pokes, spc, taken>>

(* stop().                                                                 *)
StopClear(s) ==
  /\ spc[s] = "idle" /\ RunFree
  /\ run' = FALSE
  /\ spc' = [spc EXCEPT ![s] = "sync"]
  /\ UNCHANGED <<drain, queue, cpc, cached, wish, puts, ppc, pokes, kpc, taken>>

(* Mutant: no lock of dataMutex before the notification of stop().         *)
StopNoSync(s) ==
  /\ spc[s] = "sync"
  /\ spc' = [spc EXCEPT ![s] = "notify"]
  /\ UNCHANGED <<drain, queue, run, cpc, cached, wish, puts, ppc, pokes, kpc, taken>>

StopSync(s) ==
  /\ spc[s] = "sync" /\ DataFree
  /\ spc' = [spc EXCEPT ![s] = "notify"]
  /\ UNCHANGED <<drain, queue, run, cpc, cached, wish, puts, ppc, pokes, kpc, taken>>

StopNotify(s) ==
  /\ spc[s] = "notify"
  /\ NotifyOne
  /\ spc' = [spc EXCEPT ![s] = "done"]
  /\ UNCHANGED <<drain, queue, run, cached, wish, puts, ppc, pokes, kpc, taken>>

Others == \/ \E p \in Producer : Push(p) \/ PushNotify(p)
          \/ \E k \in Poker : PokeSet(k) \/ PokeSync(k) \/ PokeNotify(k)
          \/ \E s \in Stopper : StopClear(s) \/ StopSync(s) \/ StopNotify(s)

Next == Consumer \/ SpuriousWake \/ Others

Spec == Init /\ [][Next]_vars

(* Threads that can run do, once they are in a call; nobody is obliged to  *)
(* make one.                                                               *)
Fairness ==
  /\ WF_vars(Consumer)
  /\ \A p \in Producer : WF_vars(PushNotify(p))
  /\ \A k \in Poker : SF_vars(PokeSync(k)) /\ WF_vars(PokeNotify(k))
  /\ \A s \in Stopper : SF_vars(StopSync(s)) /\ WF_vars(StopNotify(s))
FairSpec == Spec /\ Fairness

-----------------------------------------------------------------------------
(* Properties.                                                             *)

(* A consumer asleep in its wait misses nothing: if the queue holds an     *)
(* item, the flag is clear, or a key has come for the cache, the thread    *)
(* that did it has its notification still ahead of it.                     *)
SeesItems == queue # <<>> => \E p \in Producer : ppc[p] = "notify"
SeesStop  == ~run => \E s \in Stopper : spc[s] \in {"sync", "notify"}
SeesKey   == wish /\ cached => \E k \in Poker : kpc[k] \in {"sync", "notify"}
NoLostWakeup == cpc = "waiting" => SeesItems /\ SeesStop /\ SeesKey

(* The strengthening that makes it inductive: between the test of the flag *)
(* and the wait the consumer holds dataMutex, so the queue stays empty and *)
(* whoever clears the flag or sets a key is still before its lock of it.   *)
EmptyBeforeWait == cpc \in {"testRun", "enterWait"} => queue = <<>>
StopBeforeWait  == cpc = "enterWait" /\ ~run => \E s \in Stopper : spc[s] = "sync"
KeyBeforeWait   ==
  cpc \in {"finish", "loop", "top", "testRun", "enterWait"} /\ wish /\ cached
    => \E k \in Poker : kpc[k] = "sync"
SomethingToTake == cpc = "take" => queue # <<>>
NoCacheAtStart  == cpc \in {"start", "lockData"} \/ ~drain => ~cached
FlagOnlyByStop  == cpc = "done" => ~run
IInv == /\ TypeOK /\ NoLostWakeup /\ EmptyBeforeWait /\ StopBeforeWait /\ KeyBeforeWait
        /\ SomethingToTake /\ NoCacheAtStart /\ FlagOnlyByStop

(* stop() ends the consumer: the join() of the main thread returns.        *)
StopEndsConsumer == ~run ~> cpc = "done"

(* A key set for a cached frame is looked at, or the consumer stopped.     *)
KeyLookedAt == (wish /\ cached) ~> (~wish \/ ~cached \/ cpc = "done")

(* The protocol implements the mailbox: items come out once and in order,  *)
(* all of them unless the queue is stopped, and a stop ends the consumer.  *)
M == INSTANCE Mailbox WITH box <- queue, open <- run, ended <- (cpc = "done")
Mailbox == M!MFairSpec
SafeMailbox == M!MSpec
=============================================================================
