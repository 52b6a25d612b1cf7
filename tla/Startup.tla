------------------------------- MODULE Startup -------------------------------
(***************************************************************************)
(* What the gateway makes of a SETA (ConcentratorController.cpp): the      *)
(* channel plan of the server becomes settings of radios and IF chains,    *)
(* and the library is started with them.  startConcentrator is a client of *)
(* Hal that makes one call per step; any of them may refuse, and then it   *)
(* returns -1 and leaves what it has set.                                  *)
(***************************************************************************)
EXTENDS Hal, FiniteSets

CONSTANTS
  Config,    \* config.json: txlut, radio_<i>, if_chain
  Plans,     \* bodies of SETA, as the sequence of the frequencies mentioned
  MultiNb,   \* LGW_MULTI_NB
  StdIf,     \* the IF chain of the LoRa standard channel
  MaxSeta    \* bound: SETAs of one process

VARIABLES
  config,
  plan,      \* the SETA being worked on, or the last one
  pc,        \* "idle", or the part of startConcentrator that runs
  at,        \* position in that part
  status,    \* what the last startConcentrator returned
  joinable,  \* fiberReceive and fiberSend have been started
  setas,
  refused    \* history: an earlier startConcentrator of this process failed
startVars == <<config, plan, pc, at, status, joinable, setas, refused>>

Mention == [freq : Nat, sf : Nat, band : Nat]

-----------------------------------------------------------------------------
(* freqsMap: a frequency has the setting of its last mention; of those     *)
(* with sf 0 only the first LGW_MULTI_NB count.                            *)
EarlierMulti(p, i) == {j \in 1..(i - 1) : p[j].sf = 0}
Counts(p) == {i \in DOMAIN p : p[i].sf = 0 => Cardinality(EarlierMulti(p, i)) < MultiNb}
Freqs(p)  == {p[i].freq : i \in Counts(p)}
Last(p, f) == CHOOSE i \in Counts(p) :
                p[i].freq = f /\ \A j \in Counts(p) : p[j].freq = f => j <= i

Band(hz)   == IF hz \in {500000, 250000, 125000} THEN hz \div 1000 ELSE 0
Spread(sf) == IF sf \in 7..12 THEN {sf} ELSE {}

(* std::map keeps its frequencies in ascending order, and they are dealt   *)
(* out to the radios in groups of ifChainCount.                            *)
Rank(p, f)   == Cardinality({g \in Freqs(p) : g <= f})
AtRank(p, k) == CHOOSE f \in Freqs(p) : Rank(p, f) = k
ChainOf(cf, p, f) == (Rank(p, f) - 1) \div cf.if_chain

(* A radio is tuned to the middle frequency of its group.                  *)
Groups(cf, p) == (Cardinality(Freqs(p)) + cf.if_chain - 1) \div cf.if_chain
Left(cf, p, c) == Cardinality(Freqs(p)) - c * cf.if_chain
GroupSize(cf, p, c) ==
  IF Left(cf, p, c) < cf.if_chain THEN Left(cf, p, c) ELSE cf.if_chain
Middle(cf, p, c) == AtRank(p, (GroupSize(cf, p, c) + 1) \div 2 + c * cf.if_chain)

rfconf(cf, p, c) ==
  IF c < Groups(cf, p)
  THEN [enable |-> TRUE, freq_hz |-> Middle(cf, p, c),
        type |-> cf.radio[c].type, tx_enable |-> cf.radio[c].tx_enable]
  ELSE [enable |-> FALSE, freq_hz |-> 0, type |-> "none", tx_enable |-> FALSE]

(* A frequency beyond the last radio's group gets an offset from outside   *)
(* the array rfconf, and a radio that lgw_rxif_setconf refuses.            *)
bandwidth(p, f) == IF p[Last(p, f)].sf = 0 THEN 0  ELSE Band(p[Last(p, f)].band)
datarate(p, f)  == IF p[Last(p, f)].sf = 0 THEN {} ELSE Spread(p[Last(p, f)].sf)
ifconf(cf, p, f) ==
  LET c == ChainOf(cf, p, f)
  IN  [enable |-> TRUE, rf_chain |-> c,
       freq_hz |-> IF c \in RfChain THEN f - Middle(cf, p, c) ELSE 0,
       bandwidth |-> bandwidth(p, f), datarate |-> datarate(p, f)]

(* The first frequency with a bandwidth takes the standard chain, the      *)
(* others take the chains from 0 on in their order.                        *)
Banded(p) == {f \in Freqs(p) : bandwidth(p, f) # 0}
IsStd(p, f) == f \in Banded(p) /\ \A g \in Banded(p) : f <= g
Others(p, f) == {g \in Freqs(p) : g < f /\ ~IsStd(p, g)}

(* Mutant: every frequency with a bandwidth goes to the standard chain.    *)
ifChainEvery(p, f) ==
  IF f \in Banded(p) THEN StdIf ELSE Cardinality({g \in Freqs(p) : g < f} \ Banded(p))

ifChain(p, f) == IF IsStd(p, f) THEN StdIf ELSE Cardinality(Others(p, f))

(* Radios are numbered without a gap, the standard chain comes after the   *)
(* multi modems (loragw_hal.h), and config.json gives a radio some chain.  *)
ASSUME BoardAssumption ==
  /\ \A c \in RfChain : 0..c \subseteq RfChain
  /\ StdIf \in Nat /\ StdIf >= MultiNb
  /\ \A cf \in Config : cf.if_chain \in Nat \ {0}

(* Frequencies are of radio channels, in Hz (lgw_start divides by one,     *)
(* counted in steps of 8 Hz).                                              *)
ASSUME FrequencyAssumption == \A p \in Plans : \A i \in DOMAIN p : p[i].freq >= 8

(* RfConf and IfConf hold what the plans come to.                          *)
ASSUME SettingsAssumption ==
  /\ Plans \subseteq Seq(Mention) /\ MultiNb \in Nat /\ StdIf \in IfChain
  /\ \A cf \in Config, p \in Plans :
       /\ cf.txlut \in GainTable
       /\ \A c \in RfChain : rfconf(cf, p, c) \in RfConf
       /\ \A k \in 1..Cardinality(Freqs(p)) :
            ifconf(cf, p, AtRank(p, k)) \in IfConf

-----------------------------------------------------------------------------
StartInit ==
  /\ HalInit
  /\ config \in Config
  /\ plan = <<>> /\ pc = "idle" /\ at = 0 /\ status = "none"
  /\ joinable = FALSE /\ setas = 0 /\ refused = FALSE

Goto(l, k) == pc' = l /\ at' = k /\ UNCHANGED <<config, plan, status, joinable, setas, refused>>
Return(s)  == /\ pc' = "idle" /\ at' = 0 /\ status' = s
              /\ refused' = (refused \/ s = "failed")
              /\ UNCHANGED <<config, plan, joinable, setas>>

(* fromStiot meets a SETA.  From the second one on it first stops what     *)
(* runs; the join in there calls lgw_stop.                                 *)
Seta(p) ==
  /\ pc = "idle" /\ setas < MaxSeta
  /\ plan' = p /\ pc' = (IF setas = 0 THEN "board" ELSE "stop") /\ at' = 0
  /\ status' = "none" /\ setas' = setas + 1
  /\ UNCHANGED <<halVars, config, joinable, refused>>

StopFirst == pc = "stop" /\ lgw_stop /\ Goto("board", 0)

(* lgw_board_setconf is refused while the library counts as started.       *)
Board == /\ pc = "board" /\ UNCHANGED halVars
         /\ IF lgw_is_started THEN Return("failed") ELSE Goto("gain", 0)

gains_ok(t) == Len(t) \in 1..LutSize /\ \A i \in DOMAIN t : gain_ok(t[i])

(* Mutant: a gain table that is refused is only warned about.              *)
GainWarned == pc = "gain" /\ lgw_txgain_setconf(config.txlut) /\ Goto("radio", 0)

Gains == /\ pc = "gain" /\ lgw_txgain_setconf(config.txlut)
         /\ IF gains_ok(config.txlut) THEN Goto("radio", 0) ELSE Return("failed")

(* A type of radio that config.json has wrong ends it; a radio that is     *)
(* refused, as all are that the plan does not need, is only warned about.  *)
Radio ==
  /\ pc = "radio"
  /\ IF at < Groups(config, plan) /\ config.radio[at].type = "none"
     THEN UNCHANGED halVars /\ Return("failed")
     ELSE /\ lgw_rxrf_setconf(at, rfconf(config, plan, at))
          /\ IF at + 1 \in RfChain THEN Goto("radio", at + 1) ELSE Goto("if", 1)

If ==
  /\ pc = "if" /\ at <= Cardinality(Freqs(plan))
  /\ LET f == AtRank(plan, at)
         c == ifChain(plan, f)
     IN  IF rxif_ok(c, ifconf(config, plan, f))
         THEN lgw_rxif_setconf(c, ifconf(config, plan, f)) /\ Goto("if", at + 1)
         ELSE UNCHANGED halVars /\ Return("failed")

(* lgw_start, and the two threads; where the last ones have not been       *)
(* joined, the assignment ends the process instead.                        *)
Start ==
  /\ pc = "if" /\ at > Cardinality(Freqs(plan))
  /\ \/ /\ StartSucceeds
        /\ IF joinable THEN Goto("terminated", 0)
           ELSE /\ pc' = "idle" /\ at' = 0 /\ status' = "started" /\ joinable' = TRUE
                /\ UNCHANGED <<config, plan, setas, refused>>
     \/ (StartUnconnected \/ StartFailed) /\ Return("failed")
     \/ StartFaults /\ Goto("terminated", 0)

startConcentrator == Board \/ Gains \/ Radio \/ If \/ Start

(* The two threads, and the air.                                           *)
Threads == /\ joinable /\ pc # "terminated"
           /\ \/ \E n \in 1..FifoSize : lgw_receive(n)
              \/ \E c \in RfChain, p \in Power : lgw_send(c, p)
           /\ UNCHANGED startVars
Air == (\E c \in IfChain : Arrive(c)) /\ UNCHANGED startVars

(* The process ends, of a fault, of std::terminate, or of anything else;   *)
(* systemd starts it again, by a script that resets the chip.              *)
Respawn ==
  /\ NewProcess /\ soft_reset
  /\ plan' = <<>> /\ pc' = "idle" /\ at' = 0 /\ status' = "none"
  /\ joinable' = FALSE /\ setas' = 0 /\ refused' = FALSE
  /\ UNCHANGED config

StartNext == \/ ~fault /\ ((\E p \in Plans : Seta(p)) \/ StopFirst
                           \/ startConcentrator \/ Threads)
             \/ Air \/ Respawn
StartSpec == StartInit /\ [][StartNext]_<<halVars, startVars>>

-----------------------------------------------------------------------------
(* Properties.                                                             *)
StartTypeOK ==
  /\ TypeOK
  /\ config \in Config /\ plan \in Plans \cup {<<>>}
  /\ pc \in {"idle", "stop", "board", "gain", "radio", "if", "terminated"}
  /\ at \in Nat /\ status \in {"none", "started", "failed"}
  /\ joinable \in BOOLEAN /\ setas \in 0..MaxSeta /\ refused \in BOOLEAN

(* A plan that leaves the standard chain to the frequency it was made for: *)
(* one more than the multi modems, whose tenth frequency takes its place.  *)
Fits(p) == Cardinality({f \in Freqs(p) : ~IsStd(p, f)}) <= MultiNb
Listens(c, f) == /\ ifc[c] # Off
                 /\ rf[ifc[c].rf_chain].freq_hz + ifc[c].freq_hz = f

(* A concentrator that has been started listens on every frequency of its  *)
(* plan, each on a chain of its own and with the spreading factor and the  *)
(* bandwidth last mentioned, however the frequencies fell into groups and  *)
(* whatever earlier plans had left.                                        *)
PlanInPlace ==
  status = "started" /\ Fits(plan) =>
    \A f \in Freqs(plan) : \E c \in IfChain :
      /\ Listens(c, f)
      /\ datarate(plan, f) \subseteq ifc[c].datarate
      /\ bandwidth(plan, f) \in {0, ifc[c].bandwidth}

(* It listens on nothing else, but for what an earlier startConcentrator   *)
(* of the same process, which failed, had set.                             *)
NothingElse ==
  status = "started" /\ ~refused =>
    \A c \in IfChain : ifc[c] # Off => \E f \in Freqs(plan) : Listens(c, f)

(* The radios are only started with gains lgw_send can use, though a       *)
(* refused table is left half in place: the failure is passed on.          *)
StartedGains == lgw_is_started => GainsValid

(* The library faults only over a plan without a frequency, where it       *)
(* divides by zero: with a stop before every start but the first one, no   *)
(* handle is used or closed after its end.                                 *)
FaultNeedsEmptyPlan == fault => Freqs(plan) = {}

(* A started gateway listens on its plan and on nothing else, and only a   *)
(* plan without a frequency makes the library fault.                       *)
SetaInPlace == PlanInPlace /\ NothingElse /\ FaultNeedsEmptyPlan
=============================================================================
