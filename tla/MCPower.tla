------------------------------ MODULE MCPower ------------------------------
(* The counts of the runs of Power, in the order they have in main.c, one  *)
(* tick standing for 1/7 s: the retry comes one tick after twice the pulse,*)
(* the modem's count lies between the two, and the AT commands come last.  *)
(* The counters come round after two retries, so that the one of the       *)
(* receiver keeps step with the modem's, but for a tick in a reset block.  *)
EXTENDS Power

MCPulseAt == 7
MCModemAt == 8
MCOnDelay == 7
MCRetryAt == 15
MCATDelay == 14
MCInitAt == 24
MCPeriod == 30
=============================================================================
