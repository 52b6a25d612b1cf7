---------------------------- MODULE MCRegisters ----------------------------
EXTENDS Registers
(* One value for each register, negative for the signed ones, and new but  *)
(* for TX_SWAP_IQ, which the code writes with its default.                 *)
NewValues ==
  [n \in Saved |->
     CASE n = "IF_FREQ_0"   -> {-1947}
       [] n = "TX_OFFSET_I" -> {-3}
       [] n = "TX_GAIN"     -> {2}
       [] n = "TX_SWAP_IQ"  -> {1}]
=============================================================================
