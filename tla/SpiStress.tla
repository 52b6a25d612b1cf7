------------------------------ MODULE SpiStress ------------------------------
(***************************************************************************)
(* The SPI stress test (util_spi_stress.c): four tests that write and read *)
(* back, over a bus that may garble what it carries.  A register or the    *)
(* data buffer is one cell; VERSION is read around the accesses in the     *)
(* second test.                                                            *)
(***************************************************************************)
EXTENDS Naturals

CONSTANTS
  Value,              \* values of a register, or of the data buffer
  repeats_per_cycle,  \* 1000 in the code; the fourth test does one a cycle
  MaxCycle, MaxFault  \* bounds: cycles, garbled transfers
VARIABLES
  test,               \* number of the test
  pc,                 \* "main", "cycle", "write", "read", "compare", and the ends
  i, cycle_number,
  test_value, read_value, versions,   \* versions: all of them as expected
  cell,               \* in the chip
  faults, garbled,    \* history: garbled transfers, and those of this round
  exit_sig            \* a signal has come, of any kind
stressVars == <<test, pc, i, cycle_number, test_value, read_value, versions, cell, faults,
                garbled, exit_sig>>

StressInit ==
  /\ test \in 1..4 /\ pc = "main" /\ i = 0 /\ cycle_number = 0
  /\ test_value \in Value /\ read_value = test_value /\ versions = TRUE
  /\ cell \in Value
  /\ faults = 0 /\ garbled = 0 /\ exit_sig = FALSE

Repeats == IF test = 4 THEN 1 ELSE repeats_per_cycle

(* What comes over the bus of v, and is found at the other end; n is 1 if  *)
(* the transfer was garbled, which may show in another value, or not.      *)
Carried(v, w, n) == \/ w = v /\ n = 0
                    \/ w \in Value /\ n = 1 /\ faults < MaxFault

Main ==
  /\ pc = "main"
  /\ \/ pc' = "cycle"
     \/ pc' = "failed"                            \* lgw_connect
  /\ UNCHANGED <<test, i, cycle_number, test_value, read_value, versions, cell, faults,
                 garbled, exit_sig>>

(* Signals are looked at between two cycles.                               *)
Cycle ==
  /\ pc = "cycle" /\ cycle_number < MaxCycle
  /\ pc' = IF exit_sig THEN "disconnect" ELSE "write"
  /\ i' = 0
  /\ UNCHANGED <<test, cycle_number, test_value, read_value, versions, cell, faults,
                 garbled, exit_sig>>

(* The data buffer is written from a random address, which is set again    *)
(* before it is read.                                                      *)
Write ==
  /\ pc = "write"
  /\ test_value' \in Value
  /\ \E n \in 0..1 : /\ Carried(test_value', cell', n)
                     /\ faults' = faults + n /\ garbled' = n
  /\ versions' = TRUE
  /\ pc' = "read"
  /\ UNCHANGED <<test, i, cycle_number, read_value, exit_sig>>

Read ==
  /\ pc = "read"
  /\ \E n \in 0..1, v \in BOOLEAN :
       /\ Carried(cell, read_value', n)
       /\ ~v => test = 2 /\ faults + n < MaxFault
       /\ versions' = v
       /\ LET all == n + (IF v THEN 0 ELSE 1)
          IN  faults' = faults + all /\ garbled' = garbled + all
  /\ pc' = "compare"
  /\ UNCHANGED <<test, i, cycle_number, test_value, cell, exit_sig>>

(* An error ends the test, after some more readings, with the bus open.    *)
Compare ==
  /\ pc = "compare"
  /\ IF read_value # test_value \/ ~versions
     THEN pc' = "error" /\ UNCHANGED <<i, cycle_number>>
     ELSE IF i + 1 < Repeats
     THEN pc' = "write" /\ i' = i + 1 /\ UNCHANGED cycle_number
     ELSE pc' = "cycle" /\ cycle_number' = cycle_number + 1 /\ UNCHANGED i
  /\ UNCHANGED <<test, test_value, read_value, versions, cell, faults, garbled, exit_sig>>

Disconnect == /\ pc = "disconnect" /\ pc' = "done"
              /\ UNCHANGED <<test, i, cycle_number, test_value, read_value, versions, cell,
                             faults, garbled, exit_sig>>

sig_handler == /\ pc \in {"main", "cycle", "write", "read", "compare"} /\ ~exit_sig /\ exit_sig' = TRUE
               /\ UNCHANGED <<test, pc, i, cycle_number, test_value, read_value, versions,
                              cell, faults, garbled>>

StressNext == Main \/ Cycle \/ Write \/ Read \/ Compare \/ Disconnect \/ sig_handler

-----------------------------------------------------------------------------
(* Properties.                                                             *)

(* An error is only reported of a bus that garbled something in the round  *)
(* it names.                                                               *)
NoFalseAlarm == pc = "error" => garbled > 0

(* A chip left with another value than the one written is noticed, but for *)
(* a second fault that hides the first: a round that has passed, also the  *)
(* last one of a test that ends on a signal, had garbled the reading too.  *)
Passed == pc \in {"write", "cycle", "disconnect", "done"} /\ (i > 0 \/ cycle_number > 0)
SpoiltIsNoticed == Passed /\ cell # test_value => garbled >= 2
=============================================================================
