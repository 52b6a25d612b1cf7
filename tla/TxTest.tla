-------------------------------- MODULE TxTest --------------------------------
(***************************************************************************)
(* The transmission test (util_tx_test.c), a client of Hal that sends the  *)
(* same packet a number of times, with a counter in it, each once the one  *)
(* before has left.                                                        *)
(***************************************************************************)
EXTENDS Hal

CONSTANTS
  CommandLines,  \* functions from some options to their values
  WordSize,      \* values of the 16-bit counter, 65536 in the code
  MaxSent        \* bound: packets
VARIABLES
  given, opt,    \* the command line; what it comes to
  pc,            \* "main", "config", "start", "send", "wait", "pause", and the ends
  cycle_count,
  status,        \* of the transmitter
  payloads,      \* history: the counters in the packets that went out
  lost,          \* history: packets programmed over one that had not left
  exit_sig,      \* SIGINT or SIGTERM has come
  quit_sig       \* SIGQUIT has come
signals  == <<exit_sig, quit_sig>>
testVars == <<given, opt, pc, cycle_count, status, payloads, lost, signals>>

RF_CHAIN == 0
Options == {"freq", "bw", "sf", "cr", "pow", "preamb", "size", "delay", "repeat", "type"}
Allowed(o, v) ==   \* the frequency in kHz
  CASE o = "freq" -> v \in 30000..3000000 [] o = "bw" -> v \in {125, 250, 500}
    [] o = "sf" -> v \in 7..12   [] o = "cr" -> v \in 1..4 [] o = "pow" -> v \in -60..60
    [] o = "preamb" -> v >= 6    [] o = "size" -> v > 0    [] o = "delay" -> v >= 0
    [] o = "repeat" -> v >= -1   [] o = "type" -> v \in {1255, 1257}
Default == [freq |-> 0, bw |-> 125, sf |-> 10, cr |-> 1, pow |-> 14, preamb |-> 8,
            size |-> 16, delay |-> 1000, repeat |-> -1, type |-> 0]

TestInit ==
  /\ HalInit
  /\ given \in CommandLines /\ opt = Default
  /\ pc = "main" /\ cycle_count = 0 /\ status = "TX_FREE" /\ payloads = <<>> /\ lost = 0
  /\ exit_sig = FALSE /\ quit_sig = FALSE

-----------------------------------------------------------------------------
(* The clock option is listed as one without an argument, which is read.   *)
Main ==
  /\ pc = "main"
  /\ opt' = [o \in Options |-> IF o \in DOMAIN given THEN given[o] ELSE Default[o]]
  /\ pc' = IF \E o \in DOMAIN given \ {"clock"} : ~Allowed(o, given[o]) THEN "usage"
           ELSE IF "clock" \in DOMAIN given THEN "crashed"
           ELSE IF opt'.freq = 0 \/ opt'.type = 0 THEN "usage" ELSE "config"
  /\ UNCHANGED <<halVars, given, cycle_count, status, payloads, lost, signals>>

SetRadio ==
  /\ pc = "config"
  /\ lgw_rxrf_setconf(RF_CHAIN, [enable |-> TRUE, freq_hz |-> opt.freq * 1000, tx_enable |-> TRUE,
                                 type |-> IF opt.type = 1255 THEN "SX1255" ELSE "SX1257"])
  /\ pc' = "start"
  /\ UNCHANGED <<given, opt, cycle_count, status, payloads, lost, signals>>

Start ==
  /\ pc = "start"
  /\ \/ StartSucceeds /\ pc' = "send"
     \/ (StartUnconnected \/ StartFailed) /\ pc' = "failed"
  /\ UNCHANGED <<given, opt, cycle_count, status, payloads, lost, signals>>

Goes == opt.repeat = -1 \/ cycle_count < opt.repeat

(* The length goes into 16 bits, and lgw_send refuses more than 255 bytes.  *)
Accepted == send_ok(RF_CHAIN) /\ opt.size % 65536 <= 255
Send ==
  /\ pc = "send" /\ Goes /\ Len(payloads) < MaxSent
  /\ cycle_count' = (cycle_count + 1) % WordSize
  /\ IF Accepted
     THEN /\ lgw_send(RF_CHAIN, opt.pow)
          /\ payloads' = Append(payloads, cycle_count')
          /\ lost' = IF status = "TX_FREE" THEN lost ELSE lost + 1
          /\ status' = "TX_SCHEDULED" /\ pc' = "wait"
     ELSE UNCHANGED <<halVars, payloads, lost, status>> /\ pc' = "failed"
  /\ UNCHANGED <<given, opt, signals>>

(* Mutant: a packet that is on its way is not waited for.                  *)
WaitScheduled ==
  /\ pc = "wait" /\ status # "TX_SCHEDULED"
  /\ pc' = "pause"
  /\ UNCHANGED <<halVars, given, opt, cycle_count, status, payloads, lost, signals>>

(* lgw_status, until the transmitter is free; the pause.                   *)
Wait ==
  /\ pc = "wait" /\ status = "TX_FREE"
  /\ pc' = "pause"
  /\ UNCHANGED <<halVars, given, opt, cycle_count, status, payloads, lost, signals>>
Pause ==
  /\ pc = "pause"
  /\ pc' = IF quit_sig \/ exit_sig THEN "stop" ELSE "send"
  /\ UNCHANGED <<halVars, given, opt, cycle_count, status, payloads, lost, signals>>

Stop == /\ pc = "stop" \/ (pc = "send" /\ ~Goes)
        /\ lgw_stop /\ status' = "TX_OFF"
        /\ pc' = "done"
        /\ UNCHANGED <<given, opt, cycle_count, payloads, lost, signals>>

Transmitter ==
  /\ \/ status = "TX_SCHEDULED" /\ status' = "TX_EMITTING"
     \/ status = "TX_EMITTING" /\ status' = "TX_FREE"
  /\ UNCHANGED <<halVars, given, opt, pc, cycle_count, payloads, lost, signals>>
sig_handler ==
  /\ pc \in {"config", "start", "send", "wait", "pause"}
  /\ \/ ~exit_sig /\ exit_sig' = TRUE /\ UNCHANGED quit_sig
     \/ ~quit_sig /\ quit_sig' = TRUE /\ UNCHANGED exit_sig
  /\ UNCHANGED <<halVars, given, opt, pc, cycle_count, status, payloads, lost>>

TestNext == Main \/ SetRadio \/ Start \/ Send \/ Wait \/ Pause \/ Stop \/ Transmitter \/ sig_handler

-----------------------------------------------------------------------------
(* Properties.                                                             *)

(* Each packet leaves before the next is programmed, and carries the       *)
(* number it has: the counter wraps.                                       *)
OneAfterAnother ==
  lost = 0 /\ payloads = [i \in DOMAIN payloads |-> i % WordSize]

(* A test that ends by itself has sent what was asked for, never more; and *)
(* one that was started ends with the concentrator off, unless it failed   *)
(* or was told to quit.  (A count the counter cannot reach never ends it.) *)
SentAsAsked ==
  /\ opt.repeat \in 0..(WordSize - 1) => Len(payloads) <= opt.repeat
  /\ pc = "done" => exit_sig \/ quit_sig \/ Len(payloads) = opt.repeat
  /\ pc = "done" /\ (exit_sig \/ ~quit_sig) => ~hw_on /\ status # "TX_EMITTING"

(* "1 -> application terminates without shutting down the hardware"        *)
(* (util_tx_test.c:58), of quit_sig: a test that had more to send and was  *)
(* told to quit, and nothing else, leaves the concentrator on.             *)
QuitLeavesHardware == pc = "done" /\ quit_sig /\ ~exit_sig /\ Goes => hw_on
=============================================================================
