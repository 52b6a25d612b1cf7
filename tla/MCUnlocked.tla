----------------------------- MODULE MCUnlocked -----------------------------
(***************************************************************************)
(* The two pieces of state the gateway's threads share without a mutex,    *)
(* the counters of air time and the registers behind the bus, one in each  *)
(* behaviour.  Neither knows of the other: the part left out stands still. *)
(***************************************************************************)
EXTENDS MCDutyCycle, MCRegisters

VARIABLE part   \* "duty" or "regs"

UnlockedInit ==
  /\ part \in {"duty", "regs"}
  /\ Init /\ DutyInit
  /\ part = "regs" => \A d \in Device : freq[d] = Absent
  /\ part = "duty" => page = 0

UnlockedNext ==
  /\ UNCHANGED part
  /\ \/ part = "duty" /\ DutyNext /\ UNCHANGED vars
     \/ part = "regs" /\ Next /\ UNCHANGED dutyVars

UnlockedSpec == UnlockedInit /\ [][UnlockedNext]_<<part, vars, dutyVars>>
=============================================================================
