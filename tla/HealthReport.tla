---------------------------- MODULE HealthReport ----------------------------
(***************************************************************************)
(* The end of a producer's run: the counters poll() returned, or that a    *)
(* caller built by hand, go to the health report and to the analytics      *)
(* event, through two different adapters of src/producer-health.js.  The   *)
(* report looks through the queue of envelopes first (QueueDepth).         *)
(***************************************************************************)
EXTENDS ProducerHealth, QueueDepth

CONSTANT Inputs   \* the counters a caller may hand in, the inbox it may have

ASSUME InputsAssumption ==
    \A i \in Inputs : i.inbox \subseteq Envelopes /\ i.age \in [Envelopes -> Int]

VARIABLES stats, health, event

vars == <<queueVars, stats, health, event>>
Nothing == [sent |-> FALSE]

(* `??` and a default parameter replace undefined; `||` replaces NaN as well. *)
OrZero(n) == IF n \in Int THEN n ELSE 0
DefaultZero(n) == IF n = Absent THEN 0 ELSE n

(* Mutated: the adapter drops the split, the defaults launder it. *)
RunEventSummed(s) ==
    [sent |-> TRUE, fetched |-> s.fetched, errors |-> OrZero(s.errors),
     messageErrors |-> 0, accountErrors |-> 0, quarantined |-> DefaultZero(s.quarantined)]
(* producerRunStats, then trackProducerRun. *)
RunEvent(s) ==
    [sent |-> TRUE,
     fetched |-> s.fetched,
     errors |-> OrZero(s.errors),
     messageErrors |-> DefaultZero(s.messageErrors),
     accountErrors |-> DefaultZero(s.accountErrors),
     quarantined |-> DefaultZero(s.quarantined)]

Init ==
    /\ \E i \in Inputs : stats = i.stats /\ QInit(i.reachable, i.inbox, i.age)
    /\ health = "none" /\ event = Nothing

(* reportProducerHealth: the check of the queue, then the roll-up. *)
CheckQueue == Scan /\ UNCHANGED <<stats, health, event>>
Report ==
    /\ scan = "done" /\ health = "none"
    /\ health' = reportProducerHealth(stats, queue)
    /\ UNCHANGED <<queueVars, stats, event>>

Track ==
    /\ scan = "start" \/ health # "none"
    /\ event = Nothing
    /\ event' = RunEvent(stats)
    /\ UNCHANGED <<queueVars, stats, health>>

Elsewhere == World /\ UNCHANGED <<stats, health, event>>

Next == CheckQueue \/ Report \/ Track \/ Elsewhere
Spec == Init /\ [][Next]_vars

-----------------------------------------------------------------------------
(* producer-health.js 33-43, 85-96, 135-144: however the split and the sum    *)
(* disagree, a summed or an account error never ends in "ok", and neither     *)
(* does a garbled split or a missing or garbled count of the five checks.     *)
NeverGreenOnBadNews ==
    health = "ok" =>
        /\ \A n \in {stats.errors, stats.accountErrors} : validCount(n) => n = 0
        /\ ~(PresentButInvalid(stats.accountErrors) \/ PresentButInvalid(stats.messageErrors))
        /\ \A n \in {stats.truncated, stats.historyExpired, stats.maxStalledRuns,
                     stats.quarantined, stats.sentSilentAccounts} : validCount(n)

(* producer-health.js 331-344: of the counts that mean an outage or a known   *)
(* loss none is outvoted, by no amount of mail that went well.                *)
OutageIsDown ==
    health \in {"ok", "degraded"} =>
        /\ queue # "fail"
        /\ \A n \in {stats.accountErrors, stats.historyExpired, stats.quarantined} :
              validCount(n) => n = 0
        /\ validCount(stats.maxStalledRuns) => stats.maxStalledRuns < StallFailRuns

(* producer-health.js 430-448: of the counts that may turn a run's status, the *)
(* event beside the report launders only one.  A zero of the split or of the   *)
(* quarantined is no failure the report saw; and when all three error counts   *)
(* of the event are zero while the status is not green, the summed `errors` was *)
(* missing or NaN and became 0 (line 460).  That does happen, to counters a    *)
(* caller built by hand: [fetched 0, errors NaN] without a split is reported   *)
(* down while its event says 0.                                                *)
OnlyTheSumIsLaundered ==
    event # Nothing /\ health # "none" =>
        /\ event.accountErrors = 0 => ~(validCount(stats.accountErrors) /\ stats.accountErrors > 0)
        /\ event.quarantined = 0 => Checks(stats, queue).quarantined # "fail"
        /\ event.errors = 0 /\ event.messageErrors = 0 /\ event.accountErrors = 0
           /\ computeProducerStatus(stats) # "ok" => stats.errors \notin Int

(* queue-depth.js 7-15: whatever is consumed or dropped while the inbox is    *)
(* looked through, mail that has waited too long and waits still is never     *)
(* behind a report that is not red, nor late mail behind a green one.         *)
WaitingMailIsReported ==
    /\ health \in {"ok", "degraded"} => reachable /\ \A e \in inbox : age[e] <= AgeFail
    /\ health = "ok" => \A e \in inbox : age[e] <= AgeWarn

(* queue-depth.js 65-67: "consumed out from under us mid-scan - not this      *)
(* check's concern": the check fails only over an envelope it listed that is  *)
(* beyond the failure age (it may be gone by then), never over one it could   *)
(* not read.                                                                  *)
QueueFailIsEarned ==
    queue = "fail" => ~reachable \/ \E e \in entries : age[e] > AgeFail
=============================================================================
