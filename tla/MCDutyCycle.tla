----------------------------- MODULE MCDutyCycle -----------------------------
EXTENDS DutyCycle
(* A channel of the 0.1 % band and one of the 10 % band, in Hz.            *)
Channels  == {868900000, 869525000}
(* The 0.1 % band has room for two of the shortest downlinks, for one of   *)
(* the next size and then for neither, and for no long one.                *)
Downlinks == {24, 40, 248}
=============================================================================
