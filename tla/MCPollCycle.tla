----------------------------- MODULE MCPollCycle -----------------------------
(* Constants for the instances of PollCycle that TLC checks. *)
EXTENDS PollCycle

CONSTANTS A, B   \* the accounts

OneAccount == <<A>>
TwoAccounts == <<A, B>>
BrokenFirst == <<B, A>>

Three == 1..3
AllToA == [m \in Messages |-> A]
TwoEach == [m \in Messages |-> IF m <= 2 THEN A ELSE B]

AllMail == [m \in Messages |-> "mail"]
OneSent == <<"mail", "sent", "mail">>
NoIds == [m \in Messages |-> NoId]
OwnIds == [m \in Messages |-> m]
SharedIds == [m \in Messages |-> IF m \in {1, 3} THEN 1 ELSE NoId]
=============================================================================
