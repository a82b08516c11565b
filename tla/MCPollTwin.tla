------------------------------ MODULE MCPollTwin ------------------------------
(* Constants for the instance of PollTwin that TLC checks. *)
EXTENDS MCPollCycle, PollTwin
=============================================================================
