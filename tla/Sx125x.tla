------------------------------- MODULE Sx125x -------------------------------
(***************************************************************************)
(* What the start of the library and the continuous transmission have in   *)
(* common: a radio behind the SPI master of the concentrator, the bytes    *)
(* its PLL is set with, and a microcontroller that is given a program      *)
(* (sx125x_write, sx125x_read, load_firmware in loragw_hal.c).             *)
(***************************************************************************)
EXTENDS Integers, Sequences

SX125x_32MHz_FRAC == 15625
Chains == {0, 1}

-----------------------------------------------------------------------------
(* A radio answers the master when its select line rises.                  *)
Used == (0..8) \cup (10..14) \cup {16, 17, 38, 40}   \* its registers
Dark == [cs |-> 0, addr |-> 0, data |-> 0, back |-> 0, regs |-> [a \in Used |-> 0]]

Select(s) ==
  IF s.cs = 1 THEN s
  ELSE IF s.addr >= 128 THEN [s EXCEPT !.cs = 1, !.regs[s.addr - 128] = s.data]
  ELSE [s EXCEPT !.cs = 1, !.back = s.regs[s.addr]]
Release(s) == [s EXCEPT !.cs = 0]

(* Mutant: the data follow when the radio has already taken the write.     *)
sx125x_write_late(s, addr, data) ==
  Release([Select([Release(s) EXCEPT !.addr = 128 + addr]) EXCEPT !.data = data])

sx125x_write(s, addr, data) ==
  IF addr >= 127 THEN s
  ELSE Release(Select([Release(s) EXCEPT !.addr = 128 + addr, !.data = data]))
sx125x_read(s, addr) ==
  Release(Select([Release(s) EXCEPT !.addr = addr, !.data = 0]))

(* The step of a PLL is 32 MHz / 2^19, of an SX1255 half of that.          *)
Fine(type)         == IF type = "SX1255" THEN 512 ELSE 256
Coarse(type)       == SX125x_32MHz_FRAC * (IF type = "SX1255" THEN 128 ELSE 256)
part_int(type, f)  == f \div Coarse(type)
part_frac(type, f) == ((f % Coarse(type)) * Fine(type)) \div SX125x_32MHz_FRAC
Pll(type, f) == <<part_int(type, f) % 256, (part_frac(type, f) \div 256) % 256,
                  part_frac(type, f) % 256>>

(* A list of writes, each an address and a value.                          *)
WriteAll(s, writes) ==
  LET after[n \in 0..Len(writes)] ==
        IF n = 0 THEN s ELSE sx125x_write(after[n - 1], writes[n][1], writes[n][2])
  IN  after[Len(writes)]

(* Hertz of a PLL's three bytes, to the step below; and of a step.         *)
Hertz(type, pll) == (pll[1] * Coarse(type))
                    + ((((pll[2] * 256) + pll[3]) * SX125x_32MHz_FRAC) \div Fine(type))
Step(type)       == (SX125x_32MHz_FRAC \div Fine(type)) + 1
Near(type, pll, f) == Hertz(type, pll) <= f /\ f - Hertz(type, pll) <= Step(type)

-----------------------------------------------------------------------------
(* The program memory of a microcontroller takes what comes while the host *)
(* has it; out of reset the controller runs what it has.                   *)
Write(m, what, value) ==
  CASE what = "RST"    -> [m EXCEPT !.reset = value]
    [] what = "SELECT" -> [m EXCEPT !.own = value]
    [] OTHER           -> IF m.own = 0 THEN [m EXCEPT !.program = value] ELSE m
load_firmware(m, firmware) ==
  Write(Write(Write(Write(m, "RST", 1), "SELECT", 0), "PROM_DATA", firmware), "SELECT", 1)
Running(m) == IF m.reset = 0 /\ m.own = 1 THEN m.program ELSE "none"
=============================================================================
