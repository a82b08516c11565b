-------------------------- MODULE HealthReportProofs --------------------------
(***************************************************************************)
(* What a health report may never hide, for whatever counters a caller     *)
(* hands in and whatever inbox is behind it.                               *)
(***************************************************************************)
EXTENDS HealthReport, TLAPS

Derived ==
    /\ scan = "done" => queue \in {"pass", "warn", "fail"}
    /\ health = "none" \/ (scan = "done" /\ health = reportProducerHealth(stats, queue))

LEMMA DerivedInit == Init => Derived
  BY DEF Init, QInit, Derived

LEMMA DerivedNext == Derived /\ [Next]_vars => Derived'
<1> SUFFICES ASSUME Derived, [Next]_vars PROVE Derived'
  OBVIOUS
<1>1. CASE CheckQueue
  BY <1>1 DEF CheckQueue, Scan, NoInbox, ReadDir, Stat, Judge, Derived
<1>2. CASE Report
  BY <1>2 DEF Report, Derived, queueVars, scanVars
<1>3. CASE Track
  BY <1>3 DEF Track, Derived, queueVars, scanVars
<1>4. CASE Elsewhere
  BY <1>4 DEF Elsewhere, World, Consumed, Dropped, Derived, scanVars
<1>5. CASE UNCHANGED vars
  BY <1>5 DEF vars, Derived, queueVars, scanVars
<1> QED
  BY <1>1, <1>2, <1>3, <1>4, <1>5 DEF Next

LEMMA DerivedAlways == Spec => []Derived
  BY DerivedInit, DerivedNext, PTL DEF Spec

(* The worst verdict wins. *)
LEMMA WorstWins ==
    ASSUME NEW V \in SUBSET {"ok", "degraded", "down"}
    PROVE  /\ "down" \in V => WorstOf(V) = "down"
           /\ WorstOf(V) = "ok" => V \subseteq {"ok"}
<1>1. CASE "down" \in V
  <2>1. WorstOf(V) = "down"
    BY <1>1 DEF WorstOf
  <2> QED
    BY <2>1
<1>2. CASE "down" \notin V /\ "degraded" \in V
  <2>1. WorstOf(V) = "degraded"
    BY <1>2 DEF WorstOf
  <2> QED
    BY <1>2, <2>1
<1>3. CASE "down" \notin V /\ "degraded" \notin V
  BY <1>3
<1> QED
  BY <1>1, <1>2, <1>3

LEMMA StatusValues == \A s : computeProducerStatus(s) \in {"ok", "degraded", "down"}
<1> SUFFICES ASSUME NEW s PROVE computeProducerStatus(s) \in {"ok", "degraded", "down"}
  OBVIOUS
<1>1. SummedStatus(s) \in {"ok", "degraded", "down"}
  BY DEF SummedStatus
<1>2. SplitStatus(s) \in {"ok", "degraded", "down"}
  <2>1. CASE s.messageErrors = 0
    BY <2>1 DEF SplitStatus
  <2>2. CASE s.messageErrors # 0 /\ ~validCount(s.fetched)
    BY <2>2 DEF SplitStatus
  <2>3. CASE s.messageErrors # 0 /\ validCount(s.fetched)
    BY <2>3 DEF SplitStatus
  <2> QED
    BY <2>1, <2>2, <2>3
<1> QED
  BY <1>1, <1>2 DEF computeProducerStatus

LEMMA CheckValues ==
    ASSUME NEW n, NEW limit, NEW red \in {"warn", "fail"}
    PROVE  /\ CountCheck(n, limit, red) \in {"pass", "warn", "fail"}
           /\ CountCheck(n, limit, red) = "pass" => validCount(n)
           /\ validCount(n) /\ n >= limit => CountCheck(n, limit, red) = red
  BY DEF CountCheck

(* Each verdict of a report, one by one. *)
LEMMA VerdictsListed ==
    ASSUME NEW s, NEW q \in {"pass", "warn", "fail"}
    PROVE  LET H == HEALTH_STATUS_BY_CHECK_STATUS
           IN  /\ Verdicts(s, q) \subseteq {"ok", "degraded", "down"}
               /\ computeProducerStatus(s) \in Verdicts(s, q)
               /\ H[q] \in Verdicts(s, q)
               /\ H[computeTruncationCheck(s.truncated)] \in Verdicts(s, q)
               /\ H[computeHistoryExpiredCheck(s.historyExpired)] \in Verdicts(s, q)
               /\ H[computeStallCheck(s.maxStalledRuns)] \in Verdicts(s, q)
               /\ H[computeQuarantineCheck(s.quarantined)] \in Verdicts(s, q)
               /\ H[computeSentSilentCheck(s.sentSilentAccounts)] \in Verdicts(s, q)
<1> DEFINE T == computeTruncationCheck(s.truncated)
           E == computeHistoryExpiredCheck(s.historyExpired)
           S == computeStallCheck(s.maxStalledRuns)
           Q == computeQuarantineCheck(s.quarantined)
           Z == computeSentSilentCheck(s.sentSilentAccounts)
           checks == [queue |-> q, truncation |-> T, expired |-> E, stalled |-> S,
                      quarantined |-> Q, sentSilent |-> Z]
           H == HEALTH_STATUS_BY_CHECK_STATUS
<1>1. T \in {"pass", "warn", "fail"} /\ E \in {"pass", "warn", "fail"}
      /\ S \in {"pass", "warn", "fail"} /\ Q \in {"pass", "warn", "fail"}
      /\ Z \in {"pass", "warn", "fail"}
  BY CheckValues DEF computeTruncationCheck, computeHistoryExpiredCheck, computeStallCheck,
                     computeQuarantineCheck, computeSentSilentCheck
<1>2. Verdicts(s, q) = {computeProducerStatus(s)} \cup {H[checks[c]] : c \in DOMAIN checks}
  BY DEF Verdicts, Checks
<1> HIDE DEF T, E, S, Q, Z
<1>3. \A c \in {"pass", "warn", "fail"} : H[c] \in {"ok", "degraded", "down"}
  BY DEF HEALTH_STATUS_BY_CHECK_STATUS
<1> HIDE DEF H
<1>4. {H[checks[c]] : c \in DOMAIN checks} = {H[q], H[T], H[E], H[S], H[Q], H[Z]}
  OBVIOUS
<1> QED
  BY <1>1, <1>2, <1>3, <1>4, StatusValues DEF T, E, S, Q, Z, H

(* A report that is not "down" had no verdict "down", and a green one only    *)
(* green verdicts.                                                            *)
LEMMA GreenStatus ==
    ASSUME NEW s, computeProducerStatus(s) = "ok"
    PROVE  /\ validCount(s.errors) => s.errors = 0
           /\ validCount(s.accountErrors) => s.accountErrors = 0
           /\ ~PresentButInvalid(s.accountErrors) /\ ~PresentButInvalid(s.messageErrors)
<1>1. validCount(s.accountErrors) => s.accountErrors = 0
  BY DEF computeProducerStatus, validCount
<1>2. CASE SplitIsCoherent(s)
  <2>1. SplitStatus(s) = "ok"
    BY <1>2 DEF computeProducerStatus
  <2>2. s.messageErrors = 0
    <3>1. CASE s.messageErrors # 0 /\ ~validCount(s.fetched)
      BY <2>1, <3>1 DEF SplitStatus
    <3>2. CASE s.messageErrors # 0 /\ validCount(s.fetched)
      BY <2>1, <3>2 DEF SplitStatus
    <3> QED
      BY <3>1, <3>2
  <2> QED
    BY <1>1, <1>2, <2>2 DEF SplitIsCoherent, PresentButInvalid, validCount
<1>3. CASE ~SplitIsCoherent(s)
  <2>1. SummedStatus(s) = "ok"
    BY <1>3 DEF computeProducerStatus
  <2> QED
    BY <1>1, <2>1 DEF SummedStatus
<1> QED
  BY <1>2, <1>3

(* producer-health.js 33-43, 85-96, 135-144: whatever counters are handed in. *)
THEOREM NeverGreen == Spec => []NeverGreenOnBadNews
<1>1. Derived => NeverGreenOnBadNews
  <2> SUFFICES ASSUME Derived, health = "ok" PROVE NeverGreenOnBadNews
    BY DEF NeverGreenOnBadNews
  <2> DEFINE V == Verdicts(stats, queue)
             H == HEALTH_STATUS_BY_CHECK_STATUS
  <2>1. WorstOf(V) = "ok"
    BY DEF Derived, reportProducerHealth
  <2>2. queue \in {"pass", "warn", "fail"}
    BY DEF Derived
  <2>3. V \subseteq {"ok"}
    BY <2>1, <2>2, VerdictsListed, WorstWins
  <2>4. computeProducerStatus(stats) = "ok"
    BY <2>2, <2>3, VerdictsListed
  <2>5. ASSUME NEW n, NEW limit, NEW red \in {"warn", "fail"}, H[CountCheck(n, limit, red)] = "ok"
        PROVE  validCount(n)
    <3>1. CountCheck(n, limit, red) = "pass"
      BY <2>5, CheckValues DEF HEALTH_STATUS_BY_CHECK_STATUS
    <3> QED
      BY <3>1, CheckValues
  <2>6. H[computeTruncationCheck(stats.truncated)] = "ok"
        /\ H[computeHistoryExpiredCheck(stats.historyExpired)] = "ok"
        /\ H[computeStallCheck(stats.maxStalledRuns)] = "ok"
        /\ H[computeQuarantineCheck(stats.quarantined)] = "ok"
        /\ H[computeSentSilentCheck(stats.sentSilentAccounts)] = "ok"
    BY <2>2, <2>3, VerdictsListed
  <2> HIDE DEF H
  <2>7. validCount(stats.truncated) /\ validCount(stats.historyExpired)
        /\ validCount(stats.maxStalledRuns) /\ validCount(stats.quarantined)
        /\ validCount(stats.sentSilentAccounts)
    BY <2>5, <2>6 DEF computeTruncationCheck, computeHistoryExpiredCheck, computeStallCheck,
                      computeQuarantineCheck, computeSentSilentCheck
  <2> QED
    BY <2>4, <2>7, GreenStatus DEF NeverGreenOnBadNews
<1> QED
  BY <1>1, DerivedAlways, PTL

(* producer-health.js 331-344: no outage and no known loss is outvoted.       *)
THEOREM OutageNeverOutvoted == Spec => []OutageIsDown
<1>1. Derived => OutageIsDown
  <2> SUFFICES ASSUME Derived, health \in {"ok", "degraded"} PROVE OutageIsDown
    BY DEF OutageIsDown
  <2> DEFINE V == Verdicts(stats, queue)
             H == HEALTH_STATUS_BY_CHECK_STATUS
  <2>1. WorstOf(V) # "down" /\ queue \in {"pass", "warn", "fail"}
    BY DEF Derived, reportProducerHealth
  <2>2. "down" \notin V
    BY <2>1, VerdictsListed, WorstWins
  <2>3. H["fail"] = "down"
    BY DEF HEALTH_STATUS_BY_CHECK_STATUS
  <2>4. /\ H[queue] # "down"
        /\ computeProducerStatus(stats) # "down"
        /\ H[computeHistoryExpiredCheck(stats.historyExpired)] # "down"
        /\ H[computeStallCheck(stats.maxStalledRuns)] # "down"
        /\ H[computeQuarantineCheck(stats.quarantined)] # "down"
    BY <2>1, <2>2, VerdictsListed
  <2> HIDE DEF H
  <2>5. queue # "fail"
    BY <2>3, <2>4
  <2>6. validCount(stats.accountErrors) => stats.accountErrors = 0
    BY <2>4 DEF computeProducerStatus, validCount
  <2>7. ASSUME NEW n, NEW limit \in Nat, H[CountCheck(n, limit, "fail")] # "down", validCount(n)
        PROVE  n < limit
    <3>1. CountCheck(n, limit, "fail") # "fail"
      BY <2>3, <2>7
    <3> QED
      BY <2>7, <3>1 DEF CountCheck, validCount
  <2>8. \A n \in {stats.historyExpired, stats.quarantined} : validCount(n) => n = 0
    <3>1. \A n \in {stats.historyExpired, stats.quarantined} : validCount(n) => n < 1
      BY <2>4, <2>7 DEF computeHistoryExpiredCheck, computeQuarantineCheck
    <3> QED
      BY <3>1 DEF validCount
  <2>9. validCount(stats.maxStalledRuns) => stats.maxStalledRuns < StallFailRuns
    BY <2>4, <2>7, StallFailAssumption DEF computeStallCheck
  <2> QED
    BY <2>5, <2>6, <2>8, <2>9 DEF OutageIsDown
<1> QED
  BY <1>1, DerivedAlways, PTL

-----------------------------------------------------------------------------
(* The scan: an entry that was read and is still there is no older than       *)
(* oldestAgeMs, and what is in the inbox but was not listed came later.       *)
Covered ==
    /\ entries \subseteq Envelopes /\ inbox \subseteq Envelopes /\ unread \subseteq entries
    /\ oldest \in Int \cup {NoAge}
    /\ scan # "start" /\ reachable =>
          \A e \in inbox : e \in entries \/ age[e] < 0
    /\ scan # "start" /\ reachable =>
          \A e \in (entries \cap inbox) \ unread : oldest # NoAge /\ age[e] <= oldest

Judged ==
    scan = "done" /\ queue # "fail" =>
        /\ reachable /\ unread = {} /\ ~OldestAbove(AgeFail)
        /\ queue = "pass" => ~OldestAbove(AgeWarn)

Scanned == scan \in {"start", "stat", "done"} /\ (scan = "stat" => reachable)

QInv == age \in [Envelopes -> Int] /\ Covered /\ Judged /\ Scanned

LEMMA QInvInit == Init => QInv
  BY InputsAssumption DEF Init, QInit, QInv, Covered, Judged, Scanned

LEMMA QInvNext == QInv /\ [Next]_vars => QInv'
<1> SUFFICES ASSUME QInv, [Next]_vars PROVE QInv'
  OBVIOUS
<1> USE DEF QInv, Covered, Judged, Scanned, OldestAbove, directory, scanVars
<1>1. CASE NoInbox
  BY <1>1 DEF NoInbox
<1>2. CASE ReadDir
  BY <1>2 DEF ReadDir
<1>3. CASE Stat
  <2>1. PICK e \in unread : StatOf(e)
    BY <1>3 DEF Stat
  <2>2. UNCHANGED <<directory, inbox, scan, entries, queue>> /\ scan = "stat" /\ reachable
    BY <1>3 DEF Stat
  <2>3. unread' = unread \ {e} /\ e \in Envelopes /\ age[e] \in Int
    BY <2>1 DEF StatOf
  <2>4. CASE e \in inbox
    <3>1. oldest' \in Int /\ age[e] <= oldest' /\ (oldest # NoAge => oldest <= oldest')
      BY <2>1, <2>3, <2>4, QueueAssumption DEF StatOf, Older
    <3>2. \A d \in (entries \cap inbox) \ unread' : oldest' # NoAge /\ age[d] <= oldest'
      BY <2>2, <2>3, <3>1, QueueAssumption
    <3> QED
      BY <2>2, <2>3, <3>1, <3>2
  <2>5. CASE e \notin inbox
    BY <2>1, <2>2, <2>3, <2>5 DEF StatOf
  <2> QED
    BY <2>4, <2>5
<1>4. CASE Judge
  BY <1>4 DEF Judge
<1>5. CASE Consumed
  BY <1>5 DEF Consumed
<1>6. CASE Dropped
  BY <1>6 DEF Dropped
<1>7. CASE UNCHANGED queueVars
  BY <1>7 DEF queueVars
<1> QED
  BY <1>1, <1>2, <1>3, <1>4, <1>5, <1>6, <1>7
     DEF Next, CheckQueue, Scan, Report, Track, Elsewhere, World, vars

(* queue-depth.js 7-15: for every inbox, however it is consumed and filled    *)
(* while it is looked through.                                                *)
THEOREM WaitingMailShows == Spec => []WaitingMailIsReported
<1>1. Derived /\ QInv => WaitingMailIsReported
  <2> SUFFICES ASSUME Derived, QInv PROVE WaitingMailIsReported
    OBVIOUS
  <2> DEFINE V == Verdicts(stats, queue)
  <2>1. CASE health \in {"ok", "degraded"}
    <3>1. scan = "done" /\ WorstOf(V) = health /\ queue \in {"pass", "warn", "fail"}
      BY <2>1 DEF Derived, reportProducerHealth
    <3>2. HEALTH_STATUS_BY_CHECK_STATUS[queue] # "down"
      BY <2>1, <3>1, VerdictsListed, WorstWins
    <3>3. queue # "fail"
      BY <3>2 DEF HEALTH_STATUS_BY_CHECK_STATUS
    <3>4. reachable /\ \A e \in inbox : age[e] <= AgeFail
      BY <3>1, <3>3, QueueAssumption DEF QInv, Covered, Judged, OldestAbove
    <3>5. ASSUME health = "ok" PROVE \A e \in inbox : age[e] <= AgeWarn
      <4>1. HEALTH_STATUS_BY_CHECK_STATUS[queue] = "ok"
        BY <3>1, <3>5, VerdictsListed, WorstWins
      <4>2. queue = "pass"
        BY <3>1, <4>1 DEF HEALTH_STATUS_BY_CHECK_STATUS
      <4> QED
        BY <3>1, <4>2, QueueAssumption DEF QInv, Covered, Judged, OldestAbove
    <3> QED
      BY <3>4, <3>5 DEF WaitingMailIsReported
  <2>2. CASE health \notin {"ok", "degraded"}
    BY <2>2 DEF WaitingMailIsReported
  <2> QED
    BY <2>1, <2>2
<1> QED
  BY <1>1, DerivedAlways, QInvInit, QInvNext, PTL DEF Spec

(* The oldest age is that of an entry, so an old age is an old entry: one that *)
(* is gone gave none.                                                          *)
OldestIsAnEntrys ==
    /\ scan = "start" => oldest = NoAge
    /\ scan # "done" => queue = "none"
    /\ unread \subseteq entries
    /\ oldest # NoAge => \E e \in entries : age[e] = oldest
    /\ queue = "fail" => ~reachable \/ \E e \in entries : age[e] > AgeFail

LEMMA OldestNext == QInv /\ OldestIsAnEntrys /\ [Next]_vars => OldestIsAnEntrys'
<1> SUFFICES ASSUME QInv, OldestIsAnEntrys, [Next]_vars PROVE OldestIsAnEntrys'
  OBVIOUS
<1> USE DEF OldestIsAnEntrys, directory, scanVars
<1>1. CASE NoInbox
  BY <1>1 DEF NoInbox
<1>2. CASE ReadDir
  <2>1. oldest = NoAge /\ queue # "fail"
    BY <1>2 DEF ReadDir
  <2> QED
    BY <1>2, <2>1 DEF ReadDir
<1>3. CASE Stat
  <2>1. PICK e \in unread : StatOf(e)
    BY <1>3 DEF Stat
  <2> QED
    BY <1>3, <2>1 DEF Stat, StatOf, Older
<1>4. CASE Judge
  <2>1. OldestAbove(AgeFail) => \E e \in entries : age[e] > AgeFail
    BY DEF OldestAbove
  <2> QED
    BY <1>4, <2>1 DEF Judge
<1>5. CASE Consumed \/ Dropped \/ UNCHANGED queueVars
  BY <1>5 DEF Consumed, Dropped, queueVars
<1> QED
  BY <1>1, <1>2, <1>3, <1>4, <1>5
     DEF Next, CheckQueue, Scan, Report, Track, Elsewhere, World, vars

(* queue-depth.js 65-67, for every inbox: a failed check has seen an envelope   *)
(* beyond the failure age, or no inbox at all; the files consumed under the     *)
(* scan are no part of it.                                                      *)
THEOREM QueueFailsForAReason == Spec => []QueueFailIsEarned
<1>1. Init => OldestIsAnEntrys
  BY DEF Init, QInit, OldestIsAnEntrys
<1>2. OldestIsAnEntrys => QueueFailIsEarned
  BY DEF OldestIsAnEntrys, QueueFailIsEarned
<1> QED
  BY <1>1, <1>2, QInvInit, QInvNext, OldestNext, PTL DEF Spec

-----------------------------------------------------------------------------
(* The event and the report are made from the same counters, in either order. *)
EventDerived == event = Nothing \/ event = RunEvent(stats)

LEMMA EventNext == EventDerived /\ [Next]_vars => EventDerived'
  BY DEF EventDerived, Next, vars, CheckQueue, Report, Track, Elsewhere, RunEvent, OrZero,
         DefaultZero

(* Counters of which none is above zero, and none garbled, make a green status. *)
LEMMA ZeroIsGreen ==
    ASSUME NEW s, s.errors = 0, s.messageErrors \in {0, Absent}, s.accountErrors \in {0, Absent}
    PROVE  computeProducerStatus(s) = "ok"
<1>1. Absent \notin Nat /\ 0 \in Nat
  BY NoCountAssumption
<1>2. ~(validCount(s.accountErrors) /\ s.accountErrors > 0)
  BY <1>1 DEF validCount
<1>3. CASE SplitIsCoherent(s)
  <2>1. s.messageErrors = 0
    BY <1>1, <1>3 DEF SplitIsCoherent, validCount
  <2>2. SplitStatus(s) = "ok"
    BY <2>1 DEF SplitStatus
  <2> QED
    BY <1>2, <1>3, <2>2 DEF computeProducerStatus
<1>4. CASE ~SplitIsCoherent(s)
  <2>1. ~PresentButInvalid(s.accountErrors) /\ ~PresentButInvalid(s.messageErrors)
    BY <1>1 DEF PresentButInvalid, validCount
  <2>2. SummedStatus(s) = "ok"
    BY <2>1 DEF SummedStatus
  <2> QED
    BY <1>2, <1>4, <2>2 DEF computeProducerStatus
<1> QED
  BY <1>3, <1>4

(* producer-health.js 430-448, for whatever counters, garbled and missing ones  *)
(* included: an event without errors beside a status that is not green has lost *)
(* the summed count and no other; the split and the quarantined always arrive.  *)
THEOREM EventLosesOnlyTheSum == Spec => []OnlyTheSumIsLaundered
<1>1. Init => EventDerived
  BY DEF Init, EventDerived
<1>2. EventDerived => OnlyTheSumIsLaundered
  <2> SUFFICES ASSUME EventDerived, event # Nothing PROVE OnlyTheSumIsLaundered
    BY DEF OnlyTheSumIsLaundered
  <2>1. /\ event.accountErrors = DefaultZero(stats.accountErrors)
        /\ event.messageErrors = DefaultZero(stats.messageErrors)
        /\ event.quarantined = DefaultZero(stats.quarantined)
        /\ event.errors = OrZero(stats.errors)
    BY DEF EventDerived, RunEvent
  <2>2. event.accountErrors = 0 => stats.accountErrors \in {0, Absent}
    BY <2>1 DEF DefaultZero
  <2>3. event.messageErrors = 0 => stats.messageErrors \in {0, Absent}
    BY <2>1 DEF DefaultZero
  <2>4. event.quarantined = 0 => Checks(stats, queue).quarantined # "fail"
    <3>1. event.quarantined = 0 => stats.quarantined \in {0, Absent}
      BY <2>1 DEF DefaultZero
    <3>2. \A n \in {0, Absent} : computeQuarantineCheck(n) # "fail"
      BY NoCountAssumption DEF computeQuarantineCheck, CountCheck, validCount
    <3> QED
      BY <3>1, <3>2 DEF Checks
  <2>5. event.errors = 0 /\ stats.errors \in Int => stats.errors = 0
    BY <2>1 DEF OrZero
  <2>6. \A n \in {0, Absent} : ~(validCount(n) /\ n > 0)
    BY NoCountAssumption DEF validCount
  <2> QED
    BY <2>2, <2>3, <2>4, <2>5, <2>6, ZeroIsGreen DEF OnlyTheSumIsLaundered
<1> QED
  BY <1>1, <1>2, EventNext, PTL DEF Spec
=============================================================================
