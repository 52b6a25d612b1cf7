----------------------------- MODULE PacketLogger -----------------------------
(***************************************************************************)
(* The packet logger (util_pkt_logger.c), another client of Hal: it reads  *)
(* up to two configuration files section by section, starts the            *)
(* concentrator, and appends what it fetches to log files that are         *)
(* rotated by the clock, until a signal ends it.                           *)
(***************************************************************************)
EXTENDS Hal, SequencesExt

CONSTANTS
  Disks,       \* configuration files: debug, global and local
  Intervals,   \* arguments of -r
  ARRAY_SIZE,  \* packets fetched at once, 16 in the code
  CheckEvery,  \* loops between two looks at the clock, 8 in the code
  MaxTime,     \* bound: seconds
  MaxFetched,  \* bound: packets
  MaxLogs      \* bound: log files opened

VARIABLES
  disk, interval,
  pc,          \* "main", "parse", "start", "loop", "log", "check", and the ends
  todo, at,    \* names of the files left to parse, section of the first one
  now, log_start_time, time_check,
  log,         \* the log files, by the time in their name
  batch,       \* packets fetched and not yet written
  fetched,     \* history: all packets lgw_receive has returned
  exit_sig, quit_sig
mainVars == <<disk, interval, pc, todo, at>>
logVars  == <<now, log_start_time, time_check, log, batch, fetched>>
sigVars  == <<exit_sig, quit_sig>>
loggerVars == <<mainVars, logVars, sigVars>>

(* A file is "absent", no JSON ("broken"), without the object SX1301_conf  *)
(* ("bare"), or "full"; conf is the function of its sections.              *)
Header == [header |-> TRUE]

LoggerInit ==
  /\ HalInit
  /\ disk \in Disks /\ interval \in Intervals
  /\ pc = "main" /\ todo = <<>> /\ at = 1
  /\ now = 0 /\ log_start_time = 0 /\ time_check = 0
  /\ log = [t \in 0..MaxTime |-> <<>>] /\ batch = <<>> /\ fetched = <<>>
  /\ exit_sig = FALSE /\ quit_sig = FALSE

-----------------------------------------------------------------------------
(* Options, and which files are parsed.                                    *)
Chosen == IF disk.debug.is # "absent" THEN <<"debug">>
          ELSE SelectSeq(<<"global", "local">>, LAMBDA n : disk[n].is # "absent")

Main == /\ pc = "main"
        /\ todo' = Chosen
        /\ pc' = IF interval = 0 \/ interval < -1 \/ Chosen = <<>> THEN "failed" ELSE "parse"
        /\ UNCHANGED <<halVars, disk, interval, at, logVars, sigVars>>

(* The sections of SX1301_conf, in the order they are looked for.          *)
Sections == [i \in 1..2 |-> <<"radio", i - 1>>] \o [i \in 1..10 |-> <<"chan", i - 1>>]
File == disk[todo[1]].conf
FileIs == disk[todo[1]].is

(* What a section becomes: a structure of zeros, but for an enabled one.   *)
RfOf(s) ==
  [enable |-> s.enable, freq_hz |-> IF s.enable THEN s.freq ELSE 0,
   type |-> IF s.enable /\ s.type \in {"SX1255", "SX1257"} THEN s.type ELSE "none",
   tx_enable |-> s.enable /\ s.tx_enable]
IfOf(s) ==
  IF s.enable THEN [enable |-> TRUE, rf_chain |-> s.radio, freq_hz |-> s.if,
                    bandwidth |-> s.bandwidth, datarate |-> s.datarate]
  ELSE [enable |-> FALSE, rf_chain |-> 0, freq_hz |-> 0, bandwidth |-> 0, datarate |-> {}]

(* A setting the library refuses is only warned about.  An enabled radio   *)
(* without a type is compared with a null string.                          *)
NullType(f, s) == s[1] = "radio" /\ f[s].enable /\ f[s].type = "missing"
Set(f, s) ==
  IF s[1] = "radio" THEN lgw_rxrf_setconf(s[2], RfOf(f[s])) ELSE lgw_rxif_setconf(s[2], IfOf(f[s]))

Advance == /\ IF at < Len(Sections) THEN at' = at + 1 /\ UNCHANGED <<pc, todo>>
              ELSE at' = 1 /\ todo' = Tail(todo)
                   /\ pc' = IF Len(todo) = 1 THEN "start" ELSE "parse"
           /\ UNCHANGED <<disk, interval, logVars, sigVars>>

Section ==
  LET s == Sections[at] IN
  /\ pc = "parse" /\ FileIs = "full"
  /\ IF s \notin DOMAIN File THEN UNCHANGED halVars /\ Advance
     ELSE IF NullType(File, s)
     THEN pc' = "crashed" /\ UNCHANGED <<halVars, disk, interval, todo, at, logVars, sigVars>>
     ELSE Set(File, s) /\ Advance

NoSections ==
  /\ pc = "parse" /\ FileIs \in {"broken", "bare"}
  /\ todo' = Tail(todo)
  /\ pc' = IF FileIs = "broken" THEN "failed" ELSE IF Len(todo) = 1 THEN "start" ELSE "parse"
  /\ UNCHANGED <<halVars, disk, interval, at, logVars, sigVars>>

-----------------------------------------------------------------------------
(* Logs.                                                                   *)

(* Mutant: a log file that exists already is emptied.                      *)
open_log_anew ==
  \/ /\ log' = [log EXCEPT ![now] = <<Header>>] /\ log_start_time' = now /\ pc' = "loop"
  \/ /\ pc' = "failed" /\ log_start_time' = now /\ UNCHANGED log

(* The file is named by the second, and appended to if it is there; it may *)
(* fail to open.                                                           *)
open_log ==
  \/ /\ log' = [log EXCEPT ![now] = Append(@, Header)] /\ log_start_time' = now /\ pc' = "loop"
  \/ /\ pc' = "failed" /\ log_start_time' = now /\ UNCHANGED log

Start ==
  /\ pc = "start"
  /\ \/ StartSucceeds /\ open_log
     \/ (StartUnconnected \/ StartFailed) /\ pc' = "failed" /\ UNCHANGED <<log, log_start_time>>
     \/ StartFaults /\ pc' = "crashed" /\ UNCHANGED <<log, log_start_time>>
  /\ UNCHANGED <<disk, interval, todo, at, now, time_check, batch, fetched, sigVars>>

Ending == exit_sig \/ quit_sig
All    == FlattenSeq([i \in 1..(MaxTime + 1) |-> log[i - 1]])
Rows   == SelectSeq(All, LAMBDA r : r # Header)

Fetch ==
  /\ pc = "loop" /\ ~Ending /\ Len(All) - Len(Rows) <= MaxLogs
  /\ lgw_receive(ARRAY_SIZE)
  /\ batch' = [i \in 1..(IF Len(fifo) < ARRAY_SIZE THEN Len(fifo) ELSE ARRAY_SIZE) |->
                 Reported(fifo[i].if_chain)]
  /\ fetched' = fetched \o batch'
  /\ pc' = "log"
  /\ UNCHANGED <<disk, interval, todo, at, now, log_start_time, time_check, log, sigVars>>

LogPacket ==
  /\ pc = "log" /\ batch # <<>>
  /\ log' = [log EXCEPT ![log_start_time] = Append(@, batch[1])]
  /\ batch' = Tail(batch)
  /\ UNCHANGED <<halVars, mainVars, now, log_start_time, time_check, fetched, sigVars>>

(* The clock is only looked at now and then.                               *)
Rotate ==
  /\ pc = "log" /\ batch = <<>>
  /\ IF time_check + 1 < CheckEvery
     THEN time_check' = time_check + 1 /\ pc' = "loop" /\ UNCHANGED <<log, log_start_time>>
     ELSE /\ time_check' = 0
          /\ IF now - log_start_time > interval THEN open_log
             ELSE pc' = "loop" /\ UNCHANGED <<log, log_start_time>>
  /\ UNCHANGED <<halVars, disk, interval, todo, at, now, batch, fetched, sigVars>>

(* SIGQUIT leaves the concentrator running and the file to the system.     *)
Exit ==
  /\ pc = "loop" /\ Ending
  /\ IF exit_sig THEN lgw_stop ELSE UNCHANGED halVars
  /\ pc' = "done"
  /\ UNCHANGED <<disk, interval, todo, at, logVars, sigVars>>

-----------------------------------------------------------------------------
(* The outside: signals, the clock, packets.  Writing rows looks at none   *)
(* of them, so that they may as well come between two loops.               *)
Running == pc \in {"loop", "log"}
sig_handler == /\ pc = "loop" /\ ~Ending
               /\ \/ exit_sig' = TRUE /\ UNCHANGED quit_sig
                  \/ quit_sig' = TRUE /\ UNCHANGED exit_sig
               /\ UNCHANGED <<halVars, mainVars, logVars>>
Tick == /\ pc = "loop" /\ now < MaxTime /\ now' = now + 1
        /\ UNCHANGED <<halVars, mainVars, log_start_time, time_check, log, batch, fetched, sigVars>>
Packets == /\ pc = "loop" /\ Len(fetched) + Len(fifo) < MaxFetched /\ \E c \in IfChain : Arrive(c)
           /\ UNCHANGED loggerVars

LoggerNext == Main \/ Section \/ NoSections \/ Start \/ Fetch \/ LogPacket \/ Rotate \/ Exit
              \/ sig_handler \/ Tick \/ Packets

-----------------------------------------------------------------------------
(* Properties.                                                             *)

(* Every packet the library has handed over is in a log file, once, in the *)
(* order of reception, or about to be written: also when files follow one  *)
(* another within a second, and after a signal.                            *)
NothingLost == Rows \o batch = fetched

(* The first row of a file is a header, and only packets of a running      *)
(* concentrator follow; a logger ended by SIGINT leaves the radios off.    *)
Titled == \A t \in DOMAIN log : log[t] # <<>> => log[t][1] = Header
CleanExit == pc = "done" /\ exit_sig => ~hw_on /\ batch = <<>>

(* The settings the concentrator runs with are those of the last file that *)
(* had one the library accepts, the others staying as they are.            *)
Accepts(s, f) ==
  IF s[1] = "radio" THEN RfOf(f[s]).type # "none"
  ELSE ~f[s].enable \/ (/\ f[s].radio \in RfChain /\ inBand(f[s].if)
                        /\ LET m == ifmod_config[s[2]]
                           IN  modem_ok(m, bandwidthOf(m, f[s].bandwidth),
                                        datarateOf(m, f[s].datarate)))
Givers(s) == SelectSeq(Chosen, LAMBDA n :
               disk[n].is = "full" /\ s \in DOMAIN disk[n].conf /\ Accepts(s, disk[n].conf))
LastGiver(s) == disk[Givers(s)[Len(Givers(s))]].conf[s]
SettingsFromFiles ==
  Running =>
    /\ \A c \in RfChain :
         rf[c] = IF Givers(<<"radio", c>>) = <<>> THEN NoRf[c] ELSE RfOf(LastGiver(<<"radio", c>>))
    /\ \A c \in IfChain :
         ifc[c] = IF Givers(<<"chan", c>>) = <<>> \/ ~LastGiver(<<"chan", c>>).enable THEN Off
                  ELSE IfFilled(ifmod_config[c], IfOf(LastGiver(<<"chan", c>>)))

(* "If some parameters are defined in both global and local configuration  *)
(* files, the local definition overwrites the global definition"           *)
(* (util_pkt_logger/readme.md:52): a radio the local file says is off.     *)
LocalOverwrites ==
  Running /\ Chosen = <<"global", "local">> /\ disk["local"].is = "full" =>
    \A c \in RfChain :
      <<"radio", c>> \in DOMAIN disk["local"].conf =>
        rf[c].enable = disk["local"].conf[<<"radio", c>>].enable
=============================================================================
