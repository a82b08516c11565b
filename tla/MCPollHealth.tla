----------------------------- MODULE MCPollHealth -----------------------------
(* Constants for the instances of PollHealth that TLC checks. *)
EXTENDS MCPollCycle, PollHealth
=============================================================================
