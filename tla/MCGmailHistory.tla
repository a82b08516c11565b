---------------------------- MODULE MCGmailHistory ----------------------------
(* Constants for the instance of GmailHistory that TLC checks. *)
EXTENDS GmailHistory

Six == 1..6
=============================================================================
