---------------------------- MODULE MCHealthReport ----------------------------
(* Bounded inputs for HealthReport.  Every mix of the four counts the status  *)
(* is derived from, with at most one of the other counts away from zero, in   *)
(* front of an inbox of each status; and every inbox of three envelopes with  *)
(* ages at the thresholds behind a good run.                                  *)
EXTENDS HealthReport, TLC

CONSTANTS E1, E2, E3   \* the envelopes
Three == {E1, E2, E3}

Outcomes ==
    [fetched : {0, 1, 2, Absent}, errors : {0, 1, 2, Absent, Garbage},
     messageErrors : {0, 1, 2, Absent, Garbage}, accountErrors : {0, 1, Absent, Garbage}]
Quiet == [truncated |-> 0, historyExpired |-> 0, maxStalledRuns |-> 0,
          quarantined |-> 0, sentSilentAccounts |-> 0]
Others == {Quiet} \cup
    {[Quiet EXCEPT ![c] = n] : c \in DOMAIN Quiet, n \in {1, StallFailRuns, -1, Absent}}
GoodRun == [fetched |-> 2, errors |-> 0, messageErrors |-> 0, accountErrors |-> 0] @@ Quiet

Ages == {-1, 0, AgeWarn, AgeWarn + 1, AgeFail, AgeFail + 1}
AllOf(n) == [e \in Envelopes |-> n]
Inboxes ==
    {[reachable |-> open, age |-> ages, inbox |-> {e \in Envelopes : ages[e] >= 0}] :
        open \in BOOLEAN, ages \in [Envelopes -> Ages]}
One(n) == [reachable |-> TRUE, age |-> AllOf(n), inbox |-> {E1}]

BoundedInputs ==
    {[stats |-> o @@ q] @@ One(n) : o \in Outcomes, q \in Others, n \in {0, AgeWarn + 1, AgeFail + 1}}
    \cup {[stats |-> GoodRun] @@ i : i \in Inboxes}
=============================================================================
