---------------------------- MODULE ProducerHealth ----------------------------
(***************************************************************************)
(* src/producer-health.js: how the counters of a run become a health       *)
(* status.  A count is a number, or Absent (undefined), or Garbage (NaN,   *)
(* or a string that is no number); a negative number is garbage as well.   *)
(***************************************************************************)
EXTENDS Integers

CONSTANTS Absent, Garbage,
          StallFailRuns    \* STALL_FAIL_RUNS

ASSUME StallFailAssumption == StallFailRuns \in Nat \ {0}
ASSUME NoCountAssumption == Absent \notin Int /\ Garbage \notin Int /\ Absent # Garbage

validCount(n) == n \in Nat
PresentButInvalid(n) == n # Absent /\ ~validCount(n)

(* JavaScript's >=: a comparison with undefined or NaN is false. *)
AtLeast(m, n) == m \in Int /\ n \in Int /\ m >= n

(* Mutated: the split is trusted whatever the sum says. *)
SplitTrusted(s) == validCount(s.accountErrors) /\ validCount(s.messageErrors)
SplitIsCoherent(s) ==
    /\ validCount(s.accountErrors) /\ validCount(s.messageErrors)
    /\ validCount(s.errors) => s.errors = s.messageErrors + s.accountErrors

SplitStatus(s) ==
    CASE s.messageErrors = 0 -> "ok"
      [] s.messageErrors # 0 /\ ~validCount(s.fetched) -> "down"
      [] s.messageErrors # 0 /\ validCount(s.fetched) ->
            IF s.fetched > 0 /\ s.messageErrors >= s.fetched THEN "down" ELSE "degraded"

SummedStatus(s) ==
    IF s.errors = 0
    THEN IF PresentButInvalid(s.accountErrors) \/ PresentButInvalid(s.messageErrors)
         THEN "degraded" ELSE "ok"
    ELSE IF s.fetched = 0 \/ AtLeast(s.errors, s.fetched) THEN "down" ELSE "degraded"

computeProducerStatus(s) ==
    IF validCount(s.accountErrors) /\ s.accountErrors > 0 THEN "down"
    ELSE IF SplitIsCoherent(s) THEN SplitStatus(s)
    ELSE SummedStatus(s)

-----------------------------------------------------------------------------
(* Mutated: an off-by-one at the limit. *)
CountCheckAbove(n, limit, red) ==
    IF ~validCount(n) THEN "warn" ELSE IF n > limit THEN red ELSE "pass"
(* A check on one count: at or above `limit` it is `red`; unknown is never green. *)
CountCheck(n, limit, red) ==
    IF ~validCount(n) THEN "warn" ELSE IF n >= limit THEN red ELSE "pass"

computeTruncationCheck(n) == CountCheck(n, 1, "warn")
computeHistoryExpiredCheck(n) == CountCheck(n, 1, "fail")
(* Mutated: a dropped message only warns. *)
QuarantineWarns(n) == CountCheck(n, 1, "warn")
computeQuarantineCheck(n) == CountCheck(n, 1, "fail")
computeSentSilentCheck(n) == CountCheck(n, 1, "warn")
computeStallCheck(n) == CountCheck(n, StallFailRuns, "fail")

HEALTH_STATUS_BY_CHECK_STATUS == [pass |-> "ok", warn |-> "degraded", fail |-> "down"]

(* The checks of a report beside producer_run; the queue check reads a        *)
(* directory and is given.                                                    *)
Checks(s, queue) ==
    [queue |-> queue,
     truncation |-> computeTruncationCheck(s.truncated),
     expired |-> computeHistoryExpiredCheck(s.historyExpired),
     stalled |-> computeStallCheck(s.maxStalledRuns),
     quarantined |-> computeQuarantineCheck(s.quarantined),
     sentSilent |-> computeSentSilentCheck(s.sentSilentAccounts)]

Verdicts(s, queue) ==
    LET checks == Checks(s, queue)
    IN  {computeProducerStatus(s)} \cup
        {HEALTH_STATUS_BY_CHECK_STATUS[checks[c]] : c \in DOMAIN checks}

(* Mutated: the comparison the other way round. *)
BestOf(verdicts) ==
    IF "ok" \in verdicts THEN "ok" ELSE IF "degraded" \in verdicts THEN "degraded" ELSE "down"
(* HEALTH_SEVERITY: the worst of them all. *)
WorstOf(verdicts) ==
    CASE "down" \in verdicts -> "down"
      [] "down" \notin verdicts /\ "degraded" \in verdicts -> "degraded"
      [] verdicts \subseteq {"ok"} -> "ok"

reportProducerHealth(s, queue) == WorstOf(Verdicts(s, queue))
=============================================================================
