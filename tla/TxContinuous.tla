----------------------------- MODULE TxContinuous -----------------------------
(***************************************************************************)
(* The continuous transmission (util_tx_continuous.c): it sets up one      *)
(* radio and the transmitter of the concentrator by itself, register by    *)
(* register, with a firmware that calibrates and another that switches the *)
(* radio, and stays on the air until a signal comes.                       *)
(***************************************************************************)
EXTENDS Sx125x

CONSTANT CommandLines  \* functions from some options to their values
VARIABLES
  given, opt,          \* the command line; what it comes to
  pc,                  \* "main", "connect", "setup", "lock", "modulate", "select", "wait", ends
  radio,               \* the two radios
  mcu,                 \* the AGC microcontroller
  reg,                 \* registers of the SX1301
  buff,                \* the metadata of the packet that is sent without end
  exit_sig,            \* SIGINT or SIGTERM has come
  quit_sig             \* SIGQUIT has come
signals == <<exit_sig, quit_sig>>
vars    == <<given, opt, pc, radio, mcu, reg, buff, signals>>

Options == {"freq", "radio", "dig", "dac", "mix", "pa", "mod", "sf", "bw", "br", "fdev", "bt"}
Allowed(o) ==
  CASE o \in {"dig", "dac", "pa", "bt"} -> 0..3 [] o = "mix" -> 0..15 [] o = "radio" -> {0, 1}
    [] o = "mod" -> {"LORA", "FSK", "CW"} [] o = "sf" -> 7..12 [] o = "bw" -> {125, 250, 500}
    [] o = "br" -> 500..250000 [] o = "fdev" -> 1..250 [] o = "freq" -> Nat \ (0..999999)
Default == [freq |-> 868000000, radio |-> 0, dig |-> 0, dac |-> 3, mix |-> 14, pa |-> 1,
            mod |-> "LORA", sf |-> 7, bw |-> 125, br |-> 50000, fdev |-> 25, bt |-> 2]

(* After lgw_soft_reset.                                                   *)
Quiet == [global |-> 0, gain |-> 0, pa |-> 0, continuous |-> 0, bt |-> 0, gpio |-> 0,
          generator |-> 0, select |-> 0, trigger |-> 0, offset |-> <<0, 0>>,
          PA_EN |-> [r \in Chains |-> 0]]

ContinuousInit ==
  /\ given \in CommandLines /\ opt = Default
  /\ pc = "main" /\ radio = [r \in Chains |-> Dark]
  /\ mcu = [reset |-> 1, own |-> 1, program |-> "none"]
  /\ reg = Quiet /\ buff = <<>> /\ exit_sig = FALSE /\ quit_sig = FALSE

-----------------------------------------------------------------------------
(* A frequency is typed in MHz and read into a float, of 24 bits: it is    *)
(* rounded to a multiple of 15625 / d Hz, then to one of 1 Hz.             *)
AsFloat(f) ==
  LET d == 2^(17 - (CHOOSE e \in 0..11 : f \div 1000000 \in 2^e..(2^(e + 1) - 1)))
      m == (f % 15625) * d
      k == (f \div 15625) * d + m \div 15625 + (IF 2 * (m % 15625) > 15625 THEN 1 ELSE 0)
      b == (k % d) * 15625
  IN  (k \div d) * 15625 + b \div d + (IF 2 * (b % d) >= d THEN 1 ELSE 0)

Main ==
  /\ pc = "main"
  /\ opt' = [o \in Options |->
               IF o \notin DOMAIN given THEN Default[o]
               ELSE IF o = "freq" /\ given[o] \in Allowed(o) THEN AsFloat(given[o])
               ELSE given[o]]
  /\ pc' = IF \E o \in DOMAIN given : given[o] \notin Allowed(o) THEN "usage" ELSE "connect"
  /\ UNCHANGED <<given, radio, mcu, reg, buff, signals>>

(* The kind of radio is concluded from the frequency.                      *)
Type == IF opt.freq > 700000000 THEN "SX1257" ELSE "SX1255"
Mine == radio[opt.radio]

(* lgw_connect, the reset, and power for the radios, one of which is asked *)
(* for its version.                                                        *)
Connect ==
  /\ pc = "connect"
  /\ \/ pc' = "failed" /\ UNCHANGED radio
     \/ \E version \in {33, 34} :
          LET on == [r \in Chains |-> [Dark EXCEPT !.regs[7] = version]]
          IN  /\ radio' = [on EXCEPT ![opt.radio] = sx125x_read(@, 7)]
              /\ pc' = IF radio'[opt.radio].back = 33 THEN "setup" ELSE "failed"
  /\ UNCHANGED <<given, opt, mcu, reg, buff, signals>>

Crystal  == <<<<16, 1 + 2>>, <<IF Type = "SX1255" THEN 40 ELSE 38, 13 + (2 * 16)>>>>
Transmit == <<<<8, opt.mix + (16 * opt.dac)>>,
              <<10, (IF opt.bw > 250 THEN 12 ELSE 0) + (3 * 32)>>,
              <<11, IF opt.bw > 250 THEN 4 ELSE 5>>>>
            \o [k \in 1..3 |-> <<3 + k, Pll(Type, opt.freq)[k]>>]
            \o <<<<0, 1>>, <<0, 13>>>>

Setup ==
  /\ pc = "setup"
  /\ radio' = [r \in Chains |->
       WriteAll(radio[r], Crystal \o (IF r = opt.radio THEN Transmit ELSE <<>>))]
  /\ pc' = "lock"
  /\ UNCHANGED <<given, opt, mcu, reg, buff, signals>>

(* A PLL that does not lock ends the program, with the radio as it is.     *)
Lock ==
  /\ pc = "lock"
  /\ \E locked \in {0, 1} :
       radio' = [radio EXCEPT ![opt.radio] = sx125x_read([@ EXCEPT !.regs[17] = locked], 17)]
  /\ IF radio'[opt.radio].back % 2 = 0 THEN pc' = "failed" /\ UNCHANGED reg
     ELSE /\ pc' = "modulate"
          /\ reg' = [reg EXCEPT !.global = 1, !.gain = opt.dig, !.pa = opt.pa, !.continuous = 1,
                                !.bt = opt.bt, !.gpio = 16]
  /\ UNCHANGED <<given, opt, mcu, buff, signals>>

-----------------------------------------------------------------------------
(* A carrier comes from the signal generator.                              *)
Carrier ==
  /\ pc = "modulate" /\ opt.mod = "CW"
  /\ reg' = [reg EXCEPT !.generator = 1]
  /\ pc' = "select"
  /\ UNCHANGED <<given, opt, radio, mcu, buff, signals>>

(* Bytes 7 and 9 to 15 of the metadata, the others being 0.                *)
Metadata ==
  LET br == 32000000 \div opt.br
  IN  CASE opt.mod = "LORA" -> <<0, opt.sf, 1, (opt.bw \div 250) + 4, 255, 255, 0, 0>>
        [] opt.mod = "FSK"  -> <<16, opt.fdev, 1, 0, 255, 255, (br \div 256) % 256, br % 256>>

(* Offsets are calibrated first, and set to 0 if that has not worked;      *)
(* 80 is the status of a modulation that is running.                       *)
Modulate ==
  /\ pc = "modulate" /\ opt.mod # "CW"
  /\ mcu' = Write(load_firmware(mcu, "cal_tx"), "RST", 0)
  /\ \E found \in {<<0, 0>>, <<3, -5>>}, ok \in BOOLEAN, status \in {80, 0} :
       /\ reg' = [reg EXCEPT
            !.select = (IF Type = "SX1255" THEN 32 ELSE 0) + (4 * (opt.radio + 1)),
            !.offset = IF ok /\ Running(mcu') = "cal_tx" THEN found ELSE <<0, 0>>,
            !.trigger = IF status = 80 THEN 1 ELSE 0]
       /\ pc' = IF status = 80 THEN "select" ELSE "failed"
  /\ buff' = Metadata
  /\ UNCHANGED <<given, opt, radio, signals>>

(* Mutant: the first radio is switched to the antenna.                     *)
SelectFirst ==
  /\ pc = "select"
  /\ mcu' = Write(load_firmware(mcu, "util"), "RST", 0)
  /\ reg' = [reg EXCEPT !.select = opt.radio, !.PA_EN[0] = 1]
  /\ pc' = "wait"
  /\ UNCHANGED <<given, opt, radio, buff, signals>>

SelectRadio ==
  /\ pc = "select"
  /\ mcu' = Write(load_firmware(mcu, "util"), "RST", 0)
  /\ reg' = [reg EXCEPT !.select = opt.radio, !.PA_EN[opt.radio] = 1,
                        !.gpio = IF opt.mod = "LORA" /\ opt.bw = 125 THEN 24 ELSE @]
  /\ pc' = "wait"
  /\ UNCHANGED <<given, opt, radio, buff, signals>>

(* lgw_stop: a reset that switches the radios off too, whichever the       *)
(* signal was.                                                             *)
Stop ==
  /\ pc = "wait" /\ (quit_sig \/ exit_sig)
  /\ reg' = Quiet /\ radio' = [r \in Chains |-> Dark]
  /\ mcu' = [mcu EXCEPT !.reset = 1]
  /\ pc' = "done"
  /\ UNCHANGED <<given, opt, buff, signals>>

sig_handler == /\ pc \in {"connect", "setup", "lock", "modulate", "select", "wait"}
               /\ \/ ~exit_sig /\ exit_sig' = TRUE /\ UNCHANGED quit_sig
                  \/ ~quit_sig /\ quit_sig' = TRUE /\ UNCHANGED exit_sig
               /\ UNCHANGED <<given, opt, pc, radio, mcu, reg, buff>>

ContinuousNext == Main \/ Connect \/ Setup \/ Lock \/ Carrier \/ Modulate \/ SelectRadio \/ Stop
                  \/ sig_handler

-----------------------------------------------------------------------------
(* Properties.                                                             *)

(* On the air is the radio asked for, and only that one: its PLL is locked *)
(* at the frequency, to two steps, if the radio has such a one; antenna    *)
(* switch, firmware and filters agree with it and with the modulation.     *)
InReach(type, f) == part_int(type, f) < 256
asked == IF "freq" \in DOMAIN given THEN given.freq ELSE Default.freq
OnTheAir ==
  pc = "wait" =>
    LET other == radio[1 - opt.radio] IN
    /\ Mine.regs[0] = 13 /\ Mine.regs[17] = 1 /\ other.regs[0] = 0
    /\ InReach(Type, opt.freq) =>
         Hertz(Type, [k \in 1..3 |-> Mine.regs[3 + k]]) - asked
           \in -(2 * Step(Type))..(2 * Step(Type))
    /\ {r \in Chains : reg.PA_EN[r] = 1} = {opt.radio}
    /\ Running(mcu) = "util" /\ reg.select = opt.radio
    /\ (reg.generator = 1) = (opt.mod = "CW") /\ (reg.trigger = 1) = (opt.mod # "CW")
    /\ (reg.gpio = 24) = (opt.mod = "LORA" /\ opt.bw = 125)
    /\ opt.mod = "LORA" => /\ buff[2] = opt.sf
                           /\ 125 * 2^(buff[4] % 4) = opt.bw

(* The antenna is only switched to a radio that is going to be heard: a    *)
(* failure leaves no amplifier on, if a radio that may be transmitting     *)
(* into it, and an exit leaves nothing on at all.                          *)
Ended ==
  /\ pc \in {"usage", "failed"} => \A r \in Chains : reg.PA_EN[r] = 0
  /\ pc = "done" /\ exit_sig =>
       reg = Quiet /\ radio = [r \in Chains |-> Dark] /\ Running(mcu) = "none"

(* "1 -> application terminates without shutting down the hardware"        *)
(* (util_tx_continuous.c:76), of quit_sig.                                 *)
QuitLeavesHardware == pc = "done" /\ quit_sig /\ ~exit_sig => reg.PA_EN[opt.radio] = 1
=============================================================================
