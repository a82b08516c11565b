------------------------------ MODULE PollHealth ------------------------------
(***************************************************************************)
(* A producer: poll() (PollCycle) run again and again, each run that       *)
(* returns followed by the health report its counters make                 *)
(* (ProducerHealth), as the README's consumers wire it.  A run that        *)
(* rejects or dies returns no counters, so it reports nothing.             *)
(***************************************************************************)
EXTENDS PollCycle, ProducerHealth

VARIABLES
    health,   \* the report of the last run ("none": that run made no report)
    before    \* history: what was missed, and the failures left, when the run began

healthVars == <<vars, health, before>>

(* producerHealthStats of what poll() returns. *)
producerHealthStats ==
    [fetched |-> stats.fetched,
     errors |-> stats.messageErrors + stats.accountErrors,
     messageErrors |-> stats.messageErrors, accountErrors |-> stats.accountErrors,
     truncated |-> stats.truncated, historyExpired |-> stats.expired,
     maxStalledRuns |-> stats.maxStalled, quarantined |-> stats.quarantined,
     sentSilentAccounts |-> 0]

(* Mail that nobody served and the cursor passed, or that was dropped. *)
Missed == Lost \cup {m \in Messages : fate[m] = "quarantined"}

HInit == Init /\ health = "none" /\ before = [missed |-> {}, budget |-> MaxFaults]

Started ==
    /\ StartRun
    /\ before' = [missed |-> Missed, budget |-> budget]
    /\ UNCHANGED health
Reported ==
    /\ Return
    /\ health' = reportProducerHealth(producerHealthStats, "pass")
    /\ UNCHANGED before
Unreported ==
    /\ Reject
    /\ health' = "none"
    /\ UNCHANGED before
Died ==
    /\ Crash
    /\ health' = "none"
    /\ UNCHANGED before
Within == (TurnStep \/ Deliver \/ Expire) /\ UNCHANGED <<health, before>>

HealthRunStep == Started \/ Reported \/ Unreported \/ (TurnStep /\ UNCHANGED <<health, before>>)
HNext == Started \/ Reported \/ Unreported \/ Died \/ Within

HSpec == HInit /\ [][HNext]_healthVars
FairHSpec == HSpec /\ WF_healthVars(HealthRunStep)

RunReports == pc = "finish" /\ pc' = "idle" /\ health' # "none"

-----------------------------------------------------------------------------
(* README and producer-health.js 178-217: a run in which mail was missed for  *)
(* good, by the cursor passing it or by dropping it, is not reported "ok",    *)
(* and a dropped message or an expired window is reported "down".             *)
GreenMeansNothingMissed ==
    [][ RunReports =>
          /\ health' = "ok" => Missed' \subseteq before.missed
          /\ health' # "down" =>
                \A m \in Messages : fate'[m] = "quarantined" => m \in before.missed ]_healthVars

(* poll.js 176-186, "a check that reddens on healthy behaviour trains people  *)
(* to ignore it": "down" is only reported when a call failed during the run,  *)
(* or an expired window was met; quiet accounts, overflowing batches and      *)
(* truncated windows that drain do not turn it red.                           *)
DownIsEarned ==
    [][ RunReports /\ health' = "down" =>
          budget < before.budget \/ stats.expired > 0 ]_healthVars

(* producer-health.js 266-273: a message that never gets past the cursor ends *)
(* in reports that stay "down".                                               *)
StuckStaysDown ==
    \A m \in Messages : (hist[m] # 0) ~> (Passed(m) \/ [](health = "down"))
=============================================================================
