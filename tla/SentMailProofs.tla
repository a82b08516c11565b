---------------------------- MODULE SentMailProofs ----------------------------
(***************************************************************************)
(* That an account is called silent when it was and only then, for any     *)
(* mailbox, dates and failures.  The baseline is written in one branch,    *)
(* forgotten in another and read in a third, in memory and on disk; the    *)
(* argument is that neither copy is ever older, or younger, than what the  *)
(* history knows.  And that no copy is forwarded, and nothing twice but    *)
(* for a failure: each message is dealt with in the ring, or its copies    *)
(* were paid for by failures.                                              *)
(***************************************************************************)
EXTENDS SentMail, TLAPS, FiniteSetTheorems, WellFoundedInduction

(* A record whose baseline is not before `least`. *)
NotBefore(a) ==
    /\ a.lastSent \in Nat /\ a.enabledAt \in Nat
    /\ a.lastSent # Never => least # Never /\ least <= a.lastSent
    /\ a.lastSent = Never /\ a.enabledAt # Never => least # Never /\ least <= a.enabledAt
(* The dates the history and the run hold. *)
DatesOK == /\ day \in Nat \ {0} /\ least \in Nat /\ least <= day
           /\ run.heard \in Nat /\ run.heard <= day
(* The fields of the records, whatever the others hold. *)
Shapes ==
    /\ DOMAIN mem = {"cursor", "ring", "strikes", "enabledAt", "lastSent"}
    /\ DOMAIN disk = {"cursor", "ring", "strikes", "enabledAt", "lastSent"}
    /\ DOMAIN run = {"mode", "on", "todo", "capped", "heard"}
    /\ run.on \in BOOLEAN
(* What a live run has done to its state object. *)
RunKnows ==
    pc # "idle" /\ Live =>
        /\ run.on => least # Never
        /\ ~run.on => mem.enabledAt = Never /\ mem.lastSent = Never /\ run.heard = Never
        /\ run.heard # Never => mem.lastSent = run.heard

Inv == NotBefore(disk) /\ NotBefore(mem) /\ DatesOK /\ Shapes /\ RunKnows

-----------------------------------------------------------------------------
(* An account starts with neither a baseline nor a run. *)
LEMMA InitInv == Init => Inv
BY DEF Init, Inv, NotBefore, DatesOK, Shapes, RunKnows, NoRun, Never

(* A step that leaves the sent fields, the run's date and the history alone. *)
LEMMA SameDates ==
    ASSUME Inv, Shapes', pc # "idle" \/ pc' = "idle",
           mem'.lastSent = mem.lastSent, mem'.enabledAt = mem.enabledAt,
           \/ disk'.lastSent = disk.lastSent /\ disk'.enabledAt = disk.enabledAt
           \/ disk'.lastSent = mem.lastSent /\ disk'.enabledAt = mem.enabledAt,
           run'.mode = run.mode, run'.on = run.on, run'.heard = run.heard,
           day' \in Nat, day' >= day, least' = least
    PROVE  Inv'
BY DEF Inv, NotBefore, DatesOK, RunKnows, Live, Never

(* Ringing a message, or a strike, changes no date. *)
LEMMA RingAddDates ==
    ASSUME NEW a, DOMAIN a = {"cursor", "ring", "strikes", "enabledAt", "lastSent"}
    PROVE  /\ DOMAIN RingAdd(a) = DOMAIN a
           /\ RingAdd(a).lastSent = a.lastSent /\ RingAdd(a).enabledAt = a.enabledAt
BY DEF RingAdd

(* A turn that consumes a message unhandled keeps the dates. *)
LEMMA StruckDates == Inv /\ pc # "idle" /\ Struck /\ pc' = pc /\ UNCHANGED <<day, disk, least>> => Inv'
<1>. SUFFICES ASSUME Inv, pc # "idle", Struck, pc' = pc, UNCHANGED <<day, disk, least>>
              PROVE  Inv'
  OBVIOUS
<1>1. /\ DOMAIN mem' = DOMAIN mem
      /\ mem'.lastSent = mem.lastSent /\ mem'.enabledAt = mem.enabledAt
  BY RingAddDates DEF Struck, Inv, Shapes
<1>2. /\ DOMAIN run' = DOMAIN run
      /\ run'.mode = run.mode /\ run'.on = run.on /\ run'.heard = run.heard
  BY DEF Struck, Next1, Inv, Shapes
<1>. QED
  BY <1>1, <1>2, SameDates DEF Inv, Shapes, DatesOK

(* A message that was processed moves the last sent date to today, when it is *)
(* the owner's and the run live: then the option is on, or it was screened.   *)
LEMMA ProcessedDates ==
    ASSUME Inv, pc = "message", ~Screened(id), Processed, pc' = pc,
           UNCHANGED <<day, disk, least>>
    PROVE  Inv'
<1>1. /\ DOMAIN run' = DOMAIN run
      /\ run'.mode = run.mode /\ run'.on = run.on
      /\ run'.heard = IF Live /\ IsSent(id) THEN day ELSE run.heard
  BY DEF Processed, Inv, Shapes
<1>2. CASE Live /\ IsSent(id)
  <2>1. run.on
    BY <1>2 DEF Screened, Inv, Shapes
  <2>2. /\ DOMAIN mem' = DOMAIN mem
        /\ mem'.lastSent = day /\ mem'.enabledAt = mem.enabledAt
    <3>. DEFINE a == [mem EXCEPT !.lastSent = day]
    <3>1. DOMAIN a = DOMAIN mem /\ a.lastSent = day /\ a.enabledAt = mem.enabledAt
      BY DEF Inv, Shapes
    <3>2. mem' = RingAdd(a)
      BY <1>2 DEF Processed
    <3>. HIDE DEF a
    <3>. QED
      BY <3>1, <3>2, RingAddDates DEF Inv, Shapes
  <2>. QED
    BY <1>1, <1>2, <2>1, <2>2 DEF Inv, NotBefore, DatesOK, Shapes, RunKnows, Live, Never
<1>3. CASE ~(Live /\ IsSent(id))
  <2>1. /\ DOMAIN mem' = DOMAIN mem
        /\ mem'.lastSent = mem.lastSent /\ mem'.enabledAt = mem.enabledAt
    BY <1>3, RingAddDates DEF Processed, Inv, Shapes
  <2>. QED
    BY <1>1, <1>3, <2>1, SameDates DEF Inv, Shapes, DatesOK
<1>. QED
  BY <1>2, <1>3

(* A live run sets the baseline today unless there is one, or forgets it. *)
LEMMA StartInv == Inv /\ Start => Inv'
<1>. SUFFICES ASSUME Inv, Start PROVE Inv'
  OBVIOUS
<1>1. PICK mode \in Modes : \E on \in BOOLEAN : run' = [NoRun EXCEPT !.mode = mode, !.on = on]
  BY DEF Start
<1>2. PICK on \in BOOLEAN : run' = [NoRun EXCEPT !.mode = mode, !.on = on]
  BY <1>1
<1>3. /\ DOMAIN run' = {"mode", "on", "todo", "capped", "heard"}
      /\ run'.mode = mode /\ run'.on = on /\ run'.heard = Never
  BY <1>2 DEF NoRun
<1>4. CASE mode = "live" /\ on
  <2>1. /\ DOMAIN mem' = DOMAIN disk /\ mem'.lastSent = disk.lastSent
        /\ mem'.enabledAt = IF disk.enabledAt = Never THEN day ELSE disk.enabledAt
    BY <1>3, <1>4 DEF Start, Baseline, Inv, Shapes
  <2>2. least' = (IF least = Never THEN day ELSE least) /\ UNCHANGED <<day, disk>>
    BY <1>3, <1>4 DEF Start, world
  <2>. QED
    BY <1>3, <1>4, <2>1, <2>2 DEF Inv, NotBefore, DatesOK, Shapes, RunKnows, Live, Never
<1>5. CASE mode = "live" /\ ~on
  <2>1. /\ DOMAIN mem' = DOMAIN disk
        /\ mem'.lastSent = Never /\ mem'.enabledAt = Never
    BY <1>3, <1>5 DEF Start, Baseline, Inv, Shapes
  <2>2. least' = least /\ UNCHANGED <<day, disk>>
    BY <1>3, <1>5 DEF Start, world
  <2>. QED
    BY <1>3, <1>5, <2>1, <2>2 DEF Inv, NotBefore, DatesOK, Shapes, RunKnows, Live, Never
<1>6. CASE mode # "live"
  <2>1. mem' = disk /\ least' = least /\ UNCHANGED <<day, disk>>
    BY <1>3, <1>6 DEF Start, world
  <2>. QED
    BY <1>3, <1>6, <2>1 DEF Inv, NotBefore, DatesOK, Shapes, RunKnows, Live, Never
<1>. QED
  BY <1>4, <1>5, <1>6

(* The run that returns tells the history what its state object says. *)
LEMMA FinishInv == Inv /\ Finish => Inv'
<1>. SUFFICES ASSUME Inv, Finish PROVE Inv'
  OBVIOUS
<1>1. DOMAIN run' = DOMAIN run /\ run'.on \in BOOLEAN /\ run'.heard = Never
  BY DEF Finish, NoRun, Inv, Shapes
<1>2. UNCHANGED <<day, mem>> /\ pc # "idle" /\ pc' = "idle"
  BY DEF Finish, world
<1>3. CASE ~Live
  BY <1>1, <1>2, <1>3 DEF Finish, Inv, NotBefore, DatesOK, Shapes, RunKnows, Never
<1>4. CASE Live /\ run.on
  BY <1>1, <1>2, <1>4 DEF Finish, Inv, NotBefore, DatesOK, Shapes, RunKnows, Never
<1>5. CASE Live /\ ~run.on
  BY <1>1, <1>2, <1>5 DEF Finish, Inv, NotBefore, DatesOK, Shapes, RunKnows, Never
<1>. QED
  BY <1>3, <1>4, <1>5

(* A verdict of silence looks at the state object, which is not before the history. *)
LEMMA VerdictIsEarned ==
    Inv /\ Finish /\ verdict' = "silent" => least' # Never /\ day - least' > SilentDays
<1>. SUFFICES ASSUME Inv, Finish, verdict' = "silent"
              PROVE  least' # Never /\ day - least' > SilentDays
  OBVIOUS
<1>1. Silent /\ run.on
  BY DEF Finish, Silent
<1>2. SilentDays \in Nat
  BY SentAssumption
<1>3. CASE ~Live
  BY <1>1, <1>2, <1>3 DEF Finish, Silent, Inv, NotBefore, DatesOK, Never
<1>4. CASE Live
  BY <1>1, <1>2, <1>4 DEF Finish, Silent, Inv, NotBefore, DatesOK, RunKnows, Never
<1>. QED
  BY <1>3, <1>4

(* Every step keeps the invariant. *)
LEMMA StepInv == Inv /\ [Next]_vars => Inv'
<1>. SUFFICES ASSUME Inv, [Next]_vars PROVE Inv'
  OBVIOUS
<1>1. CASE Start
  BY <1>1, StartInv
<1>2. CASE List
  <2>1. /\ DOMAIN run' = DOMAIN run
        /\ run'.mode = run.mode /\ run'.on = run.on /\ run'.heard = run.heard
    BY <1>2 DEF List, Inv, Shapes
  <2>. QED
    BY <1>2, <2>1, SameDates DEF List, world, Inv, Shapes, DatesOK
<1>3. CASE ListFails
  BY <1>3, SameDates DEF ListFails, world, Inv, Shapes, DatesOK
<1>4. CASE Screen
  <2>1. /\ DOMAIN run' = DOMAIN run
        /\ run'.mode = run.mode /\ run'.on = run.on /\ run'.heard = run.heard
    BY <1>4 DEF Screen, Next1, Inv, Shapes
  <2>2. /\ DOMAIN mem' = DOMAIN mem
        /\ mem'.lastSent = mem.lastSent /\ mem'.enabledAt = mem.enabledAt
    BY <1>4, RingAddDates DEF Screen, Inv, Shapes
  <2>. QED
    BY <1>4, <2>1, <2>2, SameDates DEF Screen, InTurn, world, Inv, Shapes, DatesOK
<1>5. CASE Handle
  BY <1>5, ProcessedDates DEF Handle, InTurn, world
<1>6. CASE HandlerThrows
  BY <1>6, StruckDates DEF HandlerThrows, InTurn, world
<1>7. CASE Forward
  BY <1>7, ProcessedDates, StruckDates DEF Forward, InTurn
<1>8. CASE EndTurn
  <2>1. /\ DOMAIN mem' = DOMAIN mem
        /\ mem'.lastSent = mem.lastSent /\ mem'.enabledAt = mem.enabledAt
    BY <1>8 DEF EndTurn, Inv, Shapes
  <2>2. /\ DOMAIN disk' = DOMAIN disk
        /\ \/ disk'.lastSent = disk.lastSent /\ disk'.enabledAt = disk.enabledAt
           \/ disk'.lastSent = mem.lastSent /\ disk'.enabledAt = mem.enabledAt
    BY <1>8 DEF EndTurn, Inv, Shapes
  <2>. QED
    BY <1>8, <2>1, <2>2, SameDates DEF EndTurn, world, Inv, Shapes, DatesOK
<1>9. CASE Finish
  BY <1>9, FinishInv
<1>10. CASE FinishThrows \/ Crash
  <2>1. /\ pc' = "idle" /\ run' = NoRun /\ UNCHANGED <<day, disk, least>>
        /\ mem' = mem \/ mem' = disk
    BY <1>10 DEF FinishThrows, Crash, world
  <2>. QED
    BY <2>1 DEF NoRun, Inv, NotBefore, DatesOK, Shapes, RunKnows, Never
<1>11. CASE NextDay
  <2>1. day' \in Nat /\ day' >= day
    BY <1>11 DEF NextDay, Inv, DatesOK
  <2>. QED
    BY <1>11, <2>1 DEF NextDay, Inv, NotBefore, DatesOK, Shapes, RunKnows, Live, Never
<1>12. CASE Deliver
  BY <1>12 DEF Deliver, Inv, NotBefore, DatesOK, Shapes, RunKnows, Live, Never
<1>13. CASE UNCHANGED vars
  BY <1>13 DEF vars, world, Inv, NotBefore, DatesOK, Shapes, RunKnows, Live, Never
<1>. QED
  BY <1>1, <1>2, <1>3, <1>4, <1>5, <1>6, <1>7, <1>8, <1>9, <1>10, <1>11, <1>12, <1>13 DEF Next

(* While a run is under way there is no verdict. *)
Pending == pc # "idle" => verdict = "none"
LEMMA StepPending == Pending /\ [Next]_vars => Pending'
BY DEF Pending, Next, vars, Start, List, ListFails, Screen, Handle, HandlerThrows, Forward,
       EndTurn, GiveUp, InTurn, Finish, FinishThrows, Crash, NextDay, Deliver

(* So only the end of a run gives one. *)
LEMMA OnlyFinishJudges ==
    Pending /\ [Next]_vars /\ pc = "finish" /\ verdict' # "none" => Finish
BY DEF Pending, Next, vars, Start, List, ListFails, Screen, Handle, HandlerThrows, Forward,
       EndTurn, FinishThrows, Crash, NextDay, Deliver, InTurn

-----------------------------------------------------------------------------
(* poll.js 565-574 with 165-174 and 450-455: an account is only called silent *)
(* when a live run saw the option on longer ago than SENT_SILENT_MS, with no  *)
(* returned run that saw it off or ingested sent mail since.                  *)
THEOREM SilenceOnlyWhenEarned == Spec => SilenceIsEarned
<1>1. Init => Inv /\ Pending
  BY InitInv DEF Init, Pending
<1>2. Inv /\ Pending /\ [Next]_vars => (Inv /\ Pending)'
  BY StepInv, StepPending
<1>3. Inv /\ Pending /\ [Next]_vars =>
        [pc = "finish" /\ verdict' = "silent" => least' # Never /\ day - least' > SilentDays]_vars
  BY OnlyFinishJudges, VerdictIsEarned
<1>. QED
  BY <1>1, <1>2, <1>3, PTL DEF Spec, SilenceIsEarned

-----------------------------------------------------------------------------
(* The other side: neither copy of the baseline is after `most`. *)
Since(a) == IF a.lastSent # Never THEN a.lastSent ELSE a.enabledAt
NotAfter(a) ==
    /\ a.lastSent <= day /\ a.enabledAt <= day
    /\ most # Never => Since(a) # Never /\ Since(a) <= most
(* A live run with the option on has a baseline, and one with it off no history. *)
RunHolds ==
    pc # "idle" /\ Live => /\ run.on => mem.enabledAt # Never
                           /\ ~run.on => most = Never
UntilInv == NotAfter(disk) /\ NotAfter(mem) /\ most \in Nat /\ most <= day /\ RunHolds

LEMMA InitUntil == Init => UntilInv
BY DEF Init, UntilInv, NotAfter, RunHolds, Since, Never

(* A step that leaves the sent fields and the history alone. *)
LEMMA SameUntil ==
    ASSUME Inv, UntilInv, pc # "idle" \/ pc' = "idle",
           mem'.lastSent = mem.lastSent, mem'.enabledAt = mem.enabledAt,
           \/ disk'.lastSent = disk.lastSent /\ disk'.enabledAt = disk.enabledAt
           \/ disk'.lastSent = mem.lastSent /\ disk'.enabledAt = mem.enabledAt,
           run'.mode = run.mode, run'.on = run.on,
           day' \in Nat, day' >= day, most' = most
    PROVE  UntilInv'
BY DEF Inv, NotBefore, DatesOK, UntilInv, NotAfter, RunHolds, Since, Live, Never

LEMMA StruckUntil ==
    Inv /\ UntilInv /\ pc # "idle" /\ Struck /\ pc' = pc /\ UNCHANGED <<day, disk>> => UntilInv'
<1>. SUFFICES ASSUME Inv, UntilInv, pc # "idle", Struck, pc' = pc, UNCHANGED <<day, disk>>
              PROVE  UntilInv'
  OBVIOUS
<1>1. mem'.lastSent = mem.lastSent /\ mem'.enabledAt = mem.enabledAt /\ most' = most
  BY RingAddDates DEF Struck, Inv, Shapes
<1>2. run'.mode = run.mode /\ run'.on = run.on
  BY DEF Struck, Next1, Inv, Shapes
<1>. QED
  BY <1>1, <1>2, SameUntil DEF Inv, DatesOK

(* Sent mail that was ingested is today's in the state object and the history. *)
LEMMA ProcessedUntil ==
    ASSUME Inv, UntilInv, pc = "message", ~Screened(id), Processed, pc' = pc,
           UNCHANGED <<day, disk>>
    PROVE  UntilInv'
<1>1. run'.mode = run.mode /\ run'.on = run.on
  BY DEF Processed, Inv, Shapes
<1>2. CASE Live /\ IsSent(id)
  <2>1. run.on
    BY <1>2 DEF Screened, Inv, Shapes
  <2>2. mem'.lastSent = day /\ mem'.enabledAt = mem.enabledAt
    <3>. DEFINE a == [mem EXCEPT !.lastSent = day]
    <3>1. DOMAIN a = DOMAIN mem /\ a.lastSent = day /\ a.enabledAt = mem.enabledAt
      BY DEF Inv, Shapes
    <3>2. mem' = RingAdd(a)
      BY <1>2 DEF Processed
    <3>. HIDE DEF a
    <3>. QED
      BY <3>1, <3>2, RingAddDates DEF Inv, Shapes
  <2>3. most' = IF most # Never THEN day ELSE most
    BY <1>2 DEF Processed
  <2>. QED
    BY <1>1, <2>1, <2>2, <2>3
       DEF Inv, NotBefore, DatesOK, UntilInv, NotAfter, RunHolds, Since, Live, Never
<1>3. CASE ~(Live /\ IsSent(id))
  <2>1. mem'.lastSent = mem.lastSent /\ mem'.enabledAt = mem.enabledAt /\ most' = most
    BY <1>3, RingAddDates DEF Processed, Inv, Shapes
  <2>. QED
    BY <1>1, <2>1, SameUntil DEF Inv, DatesOK
<1>. QED
  BY <1>2, <1>3

LEMMA StartUntil == Inv /\ UntilInv /\ Start => UntilInv'
<1>. SUFFICES ASSUME Inv, UntilInv, Start PROVE UntilInv'
  OBVIOUS
<1>1. PICK mode \in Modes : \E on \in BOOLEAN : run' = [NoRun EXCEPT !.mode = mode, !.on = on]
  BY DEF Start
<1>2. PICK on \in BOOLEAN : run' = [NoRun EXCEPT !.mode = mode, !.on = on]
  BY <1>1
<1>3. run'.mode = mode /\ run'.on = on /\ UNCHANGED <<day, disk>>
  BY <1>2 DEF NoRun, Start, world
<1>4. CASE mode = "live" /\ on
  <2>1. /\ mem'.lastSent = disk.lastSent
        /\ mem'.enabledAt = IF disk.enabledAt = Never THEN day ELSE disk.enabledAt
    BY <1>3, <1>4 DEF Start, Baseline, Inv, Shapes
  <2>2. most' = most
    BY <1>3, <1>4 DEF Start
  <2>. QED
    BY <1>3, <1>4, <2>1, <2>2
       DEF Inv, NotBefore, DatesOK, UntilInv, NotAfter, RunHolds, Since, Live, Never
<1>5. CASE mode = "live" /\ ~on
  <2>1. mem'.lastSent = Never /\ mem'.enabledAt = Never /\ most' = Never
    BY <1>3, <1>5 DEF Start, Baseline, Inv, Shapes
  <2>. QED
    BY <1>3, <1>5, <2>1
       DEF Inv, NotBefore, DatesOK, UntilInv, NotAfter, RunHolds, Since, Live, Never
<1>6. CASE mode # "live"
  <2>1. mem' = disk /\ most' = most
    BY <1>3, <1>6 DEF Start
  <2>. QED
    BY <1>3, <1>6, <2>1 DEF UntilInv, NotAfter, RunHolds, Since, Live
<1>. QED
  BY <1>4, <1>5, <1>6

(* The run that returns brings the file, and the history, up to its state object. *)
LEMMA FinishUntil == Inv /\ UntilInv /\ Finish => UntilInv'
<1>. SUFFICES ASSUME Inv, UntilInv, Finish PROVE UntilInv'
  OBVIOUS
<1>1. /\ UNCHANGED <<day, mem>> /\ pc # "idle" /\ pc' = "idle"
      /\ disk' = IF Live THEN mem ELSE disk
      /\ most' = IF Live /\ run.on /\ most = Never THEN day ELSE most
  BY DEF Finish, world
<1>2. CASE Live /\ run.on /\ most = Never
  BY <1>1, <1>2 DEF Inv, NotBefore, DatesOK, UntilInv, NotAfter, RunHolds, Since, Never
<1>3. CASE ~(Live /\ run.on /\ most = Never)
  BY <1>1, <1>3 DEF UntilInv, NotAfter, RunHolds, Since
<1>. QED
  BY <1>2, <1>3

(* A verdict of "fine" looks at the state object, which is not after the history. *)
LEMMA VerdictIsGiven ==
    Inv /\ UntilInv /\ Finish /\ verdict' = "fine" /\ run.on
      => most' = Never \/ day - most' <= SilentDays
<1>. SUFFICES ASSUME Inv, UntilInv, Finish, verdict' = "fine", run.on, most' # Never
              PROVE  day - most' <= SilentDays
  OBVIOUS
<1>1. ~Silent
  BY DEF Finish
<1>2. Since(mem) = Never \/ ~(day - Since(mem) > SilentDays)
  BY <1>1 DEF Silent, Since
<1>3. SilentDays \in Nat /\ day \in Nat /\ Since(mem) \in Nat
  BY SentAssumption DEF Inv, NotBefore, DatesOK, Since
<1>4. most' = IF Live /\ run.on /\ most = Never THEN day ELSE most
  BY DEF Finish
<1>5. CASE most = Never
  <2>1. most' = day
    BY <1>4, <1>5
  <2>. QED
    BY <1>3, <2>1
<1>6. CASE most # Never
  <2>1. most' = most /\ Since(mem) # Never /\ Since(mem) <= most /\ most \in Nat
    BY <1>4, <1>6 DEF UntilInv, NotAfter
  <2>. QED
    BY <1>2, <1>3, <2>1
<1>. QED
  BY <1>5, <1>6

LEMMA StepUntil == Inv /\ UntilInv /\ [Next]_vars => UntilInv'
<1>. SUFFICES ASSUME Inv, UntilInv, [Next]_vars PROVE UntilInv'
  OBVIOUS
<1>0. day \in Nat /\ day >= day
  BY DEF Inv, DatesOK
<1>1. CASE Start
  BY <1>1, StartUntil
<1>2. CASE List
  <2>1. run'.mode = run.mode /\ run'.on = run.on
    BY <1>2 DEF List, Inv, Shapes
  <2>. QED
    BY <1>0, <1>2, <2>1, SameUntil DEF List, world
<1>3. CASE ListFails
  BY <1>0, <1>3, SameUntil DEF ListFails, world
<1>4. CASE Screen
  <2>1. run'.mode = run.mode /\ run'.on = run.on
    BY <1>4 DEF Screen, Next1, Inv, Shapes
  <2>2. mem'.lastSent = mem.lastSent /\ mem'.enabledAt = mem.enabledAt
    BY <1>4, RingAddDates DEF Screen, Inv, Shapes
  <2>. QED
    BY <1>0, <1>4, <2>1, <2>2, SameUntil DEF Screen, InTurn, world
<1>5. CASE Handle
  BY <1>5, ProcessedUntil DEF Handle, InTurn, world
<1>6. CASE HandlerThrows
  BY <1>6, StruckUntil DEF HandlerThrows, InTurn, world
<1>7. CASE Forward
  BY <1>7, ProcessedUntil, StruckUntil DEF Forward, InTurn
<1>8. CASE EndTurn
  <2>1. mem'.lastSent = mem.lastSent /\ mem'.enabledAt = mem.enabledAt
    BY <1>8 DEF EndTurn, Inv, Shapes
  <2>2. \/ disk'.lastSent = disk.lastSent /\ disk'.enabledAt = disk.enabledAt
        \/ disk'.lastSent = mem.lastSent /\ disk'.enabledAt = mem.enabledAt
    BY <1>8 DEF EndTurn, Inv, Shapes
  <2>. QED
    BY <1>0, <1>8, <2>1, <2>2, SameUntil DEF EndTurn, world
<1>9. CASE Finish
  BY <1>9, FinishUntil
<1>10. CASE FinishThrows \/ Crash
  <2>1. /\ pc' = "idle" /\ UNCHANGED <<day, disk, most>>
        /\ mem' = mem \/ mem' = disk
    BY <1>10 DEF FinishThrows, Crash, world
  <2>. QED
    BY <2>1 DEF UntilInv, NotAfter, RunHolds, Since
<1>11. CASE NextDay
  <2>1. day' \in Nat /\ day' >= day
    BY <1>11 DEF NextDay, Inv, DatesOK
  <2>. QED
    BY <1>11, <2>1 DEF NextDay, Inv, NotBefore, DatesOK, UntilInv, NotAfter, RunHolds, Since, Live
<1>12. CASE Deliver
  BY <1>12 DEF Deliver, UntilInv, NotAfter, RunHolds, Since, Live
<1>13. CASE UNCHANGED vars
  BY <1>13 DEF vars, world, UntilInv, NotAfter, RunHolds, Since, Live
<1>. QED
  BY <1>1, <1>2, <1>3, <1>4, <1>5, <1>6, <1>7, <1>8, <1>9, <1>10, <1>11, <1>12, <1>13 DEF Next

(* poll.js 565-574: the silence is told by the first run with the option on    *)
(* that returns after the window, whatever runs failed or died before it.      *)
THEOREM SilenceIsTold == Spec => SilenceIsReported
<1>1. Init => Inv /\ UntilInv /\ Pending
  BY InitInv, InitUntil DEF Init, Pending
<1>2. Inv /\ UntilInv /\ Pending /\ [Next]_vars => (Inv /\ UntilInv /\ Pending)'
  BY StepInv, StepUntil, StepPending
<1>3. Inv /\ UntilInv /\ Pending /\ [Next]_vars =>
        [pc = "finish" /\ verdict' = "fine" /\ run.on
           => most' = Never \/ day - most' <= SilentDays]_vars
  BY OnlyFinishJudges, VerdictIsGiven
<1>. QED
  BY <1>1, <1>2, <1>3, PTL DEF Spec, SilenceIsReported

-----------------------------------------------------------------------------
(* The forwards, and the mail that is behind the account. *)
Now == IF pc = "idle" THEN disk ELSE mem
Dealt == {p \in DOMAIN box : p \in Now.ring \/ p <= Now.cursor}
Originals == {p \in DOMAIN box : box[p].gen = 0}

Mails == [of : Received \cup Written, gen : {0, 1}]

(* A mailbox of originals, one of each message, and of copies of those. *)
Mailbox ==
    /\ box \in Seq(Mails)
    /\ \A p, q \in Originals : box[p].of = box[q].of => p = q
    /\ \A q \in DOMAIN box : \E p \in Originals : box[p].of = box[q].of
    /\ readOnly => Originals = DOMAIN box
(* One copy more than failures only of a message the account is done with. *)
Ledger ==
    /\ Mailbox /\ budget \in 0..MaxFaults
    /\ \A m \in Received \cup Written :
          /\ Cardinality(Copies(m)) + budget <= 1 + MaxFaults
          /\ \A p \in Originals \ Dealt :
                box[p].of = m => Cardinality(Copies(m)) + budget <= MaxFaults
(* The turn has before it only mail it has not dealt with. *)
Turn ==
    /\ mem.cursor \in 0..Len(box) /\ disk.cursor \in 0..Len(box)
    /\ run.todo \subseteq {p \in DOMAIN box : p \notin mem.ring /\ p > mem.cursor}
    /\ pc # "idle" /\ ~Live => mem = disk

(* A set of positions that is not empty has a first one: of the intervals that *)
(* end in one of them, a smallest by inclusion.                                *)
LEMMA FirstOf == ASSUME NEW S \in SUBSET Nat, S # {} PROVE Min(S) \in S
<1>. DEFINE R == StrictSubsetOrdering(Nat)
            Upto == {0..x : x \in S}
<1>1. Upto \subseteq FiniteSubsetsOf(Nat) /\ Upto # {}
  <2>1. ASSUME NEW x \in S PROVE 0..x \in FiniteSubsetsOf(Nat)
    BY FS_Interval DEF FiniteSubsetsOf
  <2>. QED
    BY <2>1
<1>2. IsWellFoundedOn(R, FiniteSubsetsOf(Nat))
  BY FS_StrictSubsetOrderingWellFounded
<1>3. PICK u \in Upto : \A v \in Upto : ~(<<v, u>> \in R)
  <2>. HIDE DEF R, Upto
  <2>. QED
    BY <1>1, <1>2, WFMin
<1>4. PICK x \in S : u = 0..x
  OBVIOUS
<1>5. ASSUME NEW y \in S PROVE x =< y
  <2>1. ~(0..y \subseteq 0..x /\ 0..y # 0..x)
    <3>1. ~(<<0..y, 0..x>> \in R)
      BY <1>3, <1>4
    <3>2. 0..y \in SUBSET Nat /\ 0..x \in SUBSET Nat
      OBVIOUS
    <3>. QED
      BY <3>1, <3>2, Zenon DEF StrictSubsetOrdering
  <2>2. y < x => x \in 0..x /\ x \notin 0..y /\ 0..y \subseteq 0..x
    OBVIOUS
  <2>. QED
    BY <2>1, <2>2
<1>. QED
  BY <1>5 DEF Min

(* The message a turn is about to look at. *)
LEMMA NextUp ==
    ASSUME Mailbox, Turn, InTurn
    PROVE  /\ id \in run.todo /\ id \in DOMAIN box /\ id \in Nat
           /\ ~Screened(id) => id \in Originals
           /\ id \notin Dealt
<1>1. DOMAIN box = 1..Len(box) /\ Len(box) \in Nat
  BY DEF Mailbox
<1>2. run.todo \in SUBSET Nat /\ run.todo # {}
  BY <1>1 DEF Turn, InTurn
<1>3. id \in run.todo
  BY <1>2, FirstOf DEF id
<1>4. id \in DOMAIN box /\ id \notin mem.ring /\ id > mem.cursor /\ id \in Nat /\ mem.cursor \in Nat
  BY <1>1, <1>3 DEF Turn
<1>5. id \notin Dealt
  BY <1>4 DEF Dealt, Now, InTurn
<1>6. box[id].gen \in {0, 1}
  <2>1. box[id] \in Mails
    BY <1>4 DEF Mailbox
  <2>. QED
    BY <2>1 DEF Mails
<1>7. ~Screened(id) => box[id].gen = 0
  BY <1>6 DEF Screened, IsSent, isAutomatedMessage
<1>. QED
  BY <1>3, <1>4, <1>5, <1>7 DEF Originals

LEMMA CopiesFinite ==
    ASSUME Mailbox, NEW m
    PROVE  IsFiniteSet(Copies(m)) /\ Cardinality(Copies(m)) \in Nat
<1>1. DOMAIN box = 1..Len(box) /\ Len(box) \in Nat
  BY DEF Mailbox
<1>2. IsFiniteSet(DOMAIN box)
  BY <1>1, FS_Interval
<1>3. Copies(m) \in SUBSET (DOMAIN box)
  BY DEF Copies
<1>. QED
  BY <1>2, <1>3, FS_Subset, FS_CardinalityType

(* What a failure pays for. *)
LEMMA Paid ==
    ASSUME NEW c \in Nat, NEW b \in Int, NEW d \in Int, NEW M \in Int, d < b
    PROVE  /\ c + b <= 1 + M => c + d <= M /\ c + d <= 1 + M
           /\ c + b <= M => c + 1 + d <= M /\ c + 1 + d <= 1 + M
OBVIOUS

(* A step that fails pays for every message; one that does not loses none it was done with. *)
LEMMA LedgerKept ==
    ASSUME Ledger, box' = box, readOnly' = readOnly, budget' \in 0..MaxFaults,
           \/ budget' < budget
           \/ budget' = budget /\ Dealt \subseteq Dealt'
    PROVE  Ledger'
<1>1. Mailbox' /\ Originals' = Originals
  BY DEF Ledger, Mailbox, Originals, Mails
<1>2. ASSUME NEW m \in Received \cup Written
      PROVE  /\ Cardinality(Copies(m)') + budget' <= 1 + MaxFaults
             /\ \A p \in Originals \ Dealt' :
                   box[p].of = m => Cardinality(Copies(m)') + budget' <= MaxFaults
  <2>1. Cardinality(Copies(m)) \in Nat
    BY CopiesFinite DEF Ledger
  <2>2. budget \in Int /\ budget' \in Int /\ MaxFaults \in Int
    BY SentAssumption DEF Ledger
  <2>3. /\ Cardinality(Copies(m)) + budget <= 1 + MaxFaults
        /\ \A p \in Originals \ Dealt :
              box[p].of = m => Cardinality(Copies(m)) + budget <= MaxFaults
    BY DEF Ledger
  <2>4. Copies(m)' = Copies(m)
    BY DEF Copies
  <2>5. CASE budget' < budget
    <3>1. /\ Cardinality(Copies(m)) + budget' <= MaxFaults
          /\ Cardinality(Copies(m)) + budget' <= 1 + MaxFaults
      BY <2>1, <2>2, <2>3, <2>5, Paid
    <3>. QED
      BY <2>4, <3>1
  <2>6. CASE budget' = budget /\ Dealt \subseteq Dealt'
    BY <2>3, <2>4, <2>6
  <2>. QED
    BY <2>5, <2>6
<1>. QED
  BY <1>1, <1>2 DEF Ledger

(* Mail that arrives is the only one of its message. *)
LEMMA LedgerDelivers ==
    ASSUME Ledger, Turn, Deliver PROVE Ledger' /\ Turn'
<1>1. PICK m \in Received \cup Written :
         (\A p \in DOMAIN box : box[p].of # m) /\ box' = Append(box, [of |-> m, gen |-> 0])
  BY DEF Deliver
<1>. DEFINE e == [of |-> m, gen |-> 0]
            n == Len(box) + 1
<1>2. box \in Seq(Mails)
  BY DEF Ledger, Mailbox
<1>3. e \in Mails /\ e.of = m /\ e.gen = 0
  BY DEF Mails
<1>4. box' = Append(box, e)
  BY <1>1
<1>. HIDE DEF e
<1>5. /\ Len(box) \in Nat /\ DOMAIN box = 1..Len(box)
      /\ box' \in Seq(Mails) /\ Len(box') = n /\ DOMAIN box' = 1..n
      /\ \A p \in DOMAIN box : box'[p] = box[p]
      /\ box'[n] = e
  BY <1>2, <1>3, <1>4
<1>6. n \notin DOMAIN box /\ DOMAIN box' = DOMAIN box \cup {n}
  BY <1>5
<1>7. Len(box) <= Len(box')
  BY <1>5
<1>. HIDE DEF n
<1>8. Originals' = Originals \cup {n}
  BY <1>3, <1>5, <1>6 DEF Originals
<1>9. Mailbox'
  <2>1. ASSUME NEW p \in Originals', NEW q \in Originals', box'[p].of = box'[q].of
        PROVE  p = q
    <3>1. (p \in Originals \/ p = n) /\ (q \in Originals \/ q = n)
      BY <1>8
    <3>2. \A r \in Originals : r \in DOMAIN box /\ box'[r].of = box[r].of /\ box[r].of # m
      BY <1>1, <1>5 DEF Originals
    <3>3. box'[n].of = m
      BY <1>3, <1>5
    <3>4. \A r, t \in Originals : box[r].of = box[t].of => r = t
      BY DEF Ledger, Mailbox
    <3>. QED
      BY <2>1, <3>1, <3>2, <3>3, <3>4
  <2>2. ASSUME NEW q \in DOMAIN box' PROVE \E p \in Originals' : box'[p].of = box'[q].of
    <3>1. CASE q = n
      BY <1>8, <3>1
    <3>2. CASE q \in DOMAIN box
      <4>1. PICK p \in Originals : box[p].of = box[q].of
        BY <3>2 DEF Ledger, Mailbox
      <4>2. box'[p].of = box'[q].of
        BY <1>5, <3>2, <4>1 DEF Originals
      <4>. QED
        BY <1>8, <4>2
    <3>. QED
      BY <1>6, <3>1, <3>2
  <2>3. readOnly' => Originals' = DOMAIN box'
    BY <1>6, <1>8 DEF Ledger, Mailbox, Deliver
  <2>. QED
    BY <1>5, <2>1, <2>2, <2>3 DEF Mailbox, Mails
<1>10. budget' = budget /\ budget \in 0..MaxFaults
  BY DEF Ledger, Deliver
<1>11. Dealt \subseteq Dealt'
  BY <1>6 DEF Dealt, Now, Deliver
<1>12. ASSUME NEW o \in Received \cup Written
       PROVE  /\ Cardinality(Copies(o)') + budget' <= 1 + MaxFaults
              /\ \A p \in Originals' \ Dealt' :
                    box'[p].of = o => Cardinality(Copies(o)') + budget' <= MaxFaults
  <2>1. Copies(o)' = Copies(o)
    BY <1>3, <1>5, <1>6 DEF Copies
  <2>2. Cardinality(Copies(o)) + budget <= 1 + MaxFaults
    BY DEF Ledger
  <2>3. ASSUME NEW p \in Originals' \ Dealt', box'[p].of = o
        PROVE  Cardinality(Copies(o)) + budget <= MaxFaults
    <3>1. CASE p = n
      <4>1. o = m
        BY <1>3, <1>5, <2>3, <3>1
      <4>2. Copies(o) = {}
        BY <1>1, <4>1 DEF Copies
      <4>3. Cardinality(Copies(o)) = 0
        BY <4>2, FS_EmptySet
      <4>. QED
        BY <1>10, <4>3, SentAssumption
    <3>2. CASE p \in Originals
      <4>1. p \notin Dealt /\ box[p].of = o
        BY <1>5, <1>11, <2>3, <3>2 DEF Originals
      <4>. QED
        BY <3>2, <4>1 DEF Ledger
    <3>. QED
      BY <1>8, <3>1, <3>2
  <2>. QED
    BY <1>10, <2>1, <2>2, <2>3
<1>13. Ledger'
  BY <1>9, <1>10, <1>12 DEF Ledger
<1>14. Turn'
  <2>1. UNCHANGED <<mem, disk, run, pc>>
    BY DEF Deliver
  <2>2. 0..Len(box) \subseteq 0..Len(box')
    BY <1>5, <1>7
  <2>. QED
    BY <1>6, <2>1, <2>2 DEF Turn, Live
<1>. QED
  BY <1>13, <1>14

(* A copy that is sent is of the original at hand: either the account is done *)
(* with that one now, or a failure pays for the copy.                         *)
LEMMA LedgerForwards ==
    ASSUME Ledger, NEW k \in Originals, k \notin Dealt, ~readOnly, readOnly' = readOnly,
           box' = Append(box, [box[k] EXCEPT !.gen = @ + 1]), budget' \in 0..MaxFaults,
           \/ budget' < budget
           \/ budget' = budget /\ Dealt \subseteq Dealt' /\ k \in Dealt'
    PROVE  Ledger'
<1>. DEFINE e == [box[k] EXCEPT !.gen = @ + 1]
            n == Len(box) + 1
<1>1. box \in Seq(Mails)
  BY DEF Ledger, Mailbox
<1>2. k \in DOMAIN box /\ box[k].gen = 0
  BY DEF Originals
<1>3. box[k] \in Mails
  BY <1>1, <1>2
<1>4. e \in Mails /\ e.of = box[k].of /\ e.gen = 1 /\ box[k].of \in Received \cup Written
  BY <1>2, <1>3 DEF Mails
<1>5. box' = Append(box, e)
  OBVIOUS
<1>. HIDE DEF e
<1>6. /\ Len(box) \in Nat /\ DOMAIN box = 1..Len(box)
      /\ box' \in Seq(Mails) /\ Len(box') = n /\ DOMAIN box' = 1..n
      /\ \A p \in DOMAIN box : box'[p] = box[p]
      /\ box'[n] = e
  BY <1>1, <1>4, <1>5
<1>7. n \notin DOMAIN box /\ DOMAIN box' = DOMAIN box \cup {n}
  BY <1>6
<1>. HIDE DEF n
<1>8. Originals' = Originals
  BY <1>4, <1>6, <1>7 DEF Originals
<1>9. \A p \in Originals : box'[p] = box[p]
  BY <1>6 DEF Originals
<1>10. Mailbox'
  <2>1. ASSUME NEW q \in DOMAIN box' PROVE \E p \in Originals : box'[p].of = box'[q].of
    <3>1. CASE q = n
      BY <1>4, <1>6, <1>9, <3>1
    <3>2. CASE q \in DOMAIN box
      <4>1. PICK p \in Originals : box[p].of = box[q].of
        BY <3>2 DEF Ledger, Mailbox
      <4>. QED
        BY <1>6, <1>9, <3>2, <4>1
    <3>. QED
      BY <1>7, <3>1, <3>2
  <2>2. ASSUME NEW p \in Originals, NEW q \in Originals, box'[p].of = box'[q].of
        PROVE  p = q
    <3>1. box[p].of = box[q].of
      BY <1>9, <2>2
    <3>. QED
      BY <3>1 DEF Ledger, Mailbox
  <2>. QED
    BY <1>6, <1>8, <2>1, <2>2 DEF Mailbox, Mails
<1>11. budget \in Int /\ budget' \in Int /\ MaxFaults \in Int
  BY SentAssumption DEF Ledger
<1>12. ASSUME NEW o \in Received \cup Written
       PROVE  /\ Cardinality(Copies(o)') + budget' <= 1 + MaxFaults
              /\ \A p \in Originals \ Dealt' :
                    box'[p].of = o => Cardinality(Copies(o)') + budget' <= MaxFaults
  <2>. DEFINE c == Cardinality(Copies(o))
  <2>1. IsFiniteSet(Copies(o)) /\ c \in Nat
    BY CopiesFinite DEF Ledger
  <2>2. /\ c + budget <= 1 + MaxFaults
        /\ \A p \in Originals \ Dealt : box[p].of = o => c + budget <= MaxFaults
    BY DEF Ledger
  <2>3. CASE o = box[k].of
    <3>1. Copies(o)' = Copies(o) \cup {n}
      <4>1. \A p \in DOMAIN box : p \in Copies(o)' <=> p \in Copies(o)
        BY <1>6, <1>7 DEF Copies
      <4>2. box'[n].of = o /\ box'[n].gen > 0 /\ n \in DOMAIN box'
        <5>1. box'[n].of = o /\ box'[n].gen = 1
          BY <1>4, <1>6, <2>3
        <5>2. n \in DOMAIN box'
          BY <1>7
        <5>. QED
          BY <5>1, <5>2
      <4>3. n \in Copies(o)'
        BY <4>2 DEF Copies
      <4>4. Copies(o)' \subseteq DOMAIN box \cup {n} /\ Copies(o) \subseteq DOMAIN box
        BY <1>7 DEF Copies
      <4>. QED
        BY <4>1, <4>3, <4>4
    <3>2. n \notin Copies(o)
      BY <1>7 DEF Copies
    <3>3. Cardinality(Copies(o)') = c + 1
      BY <2>1, <3>1, <3>2, FS_AddElement
    <3>4. c + budget <= MaxFaults
      BY <2>2, <2>3
    <3>. HIDE DEF c
    <3>5. CASE budget' < budget
      <4>1. c + 1 + budget' <= MaxFaults /\ c + 1 + budget' <= 1 + MaxFaults
        BY <1>11, <2>1, <3>4, <3>5, Paid
      <4>. QED
        BY <3>3, <4>1
    <3>6. CASE budget' = budget /\ k \in Dealt'
      <4>1. c + 1 + budget' <= 1 + MaxFaults
        BY <1>11, <2>1, <3>4, <3>6
      <4>2. ASSUME NEW p \in Originals \ Dealt', box'[p].of = o PROVE FALSE
        <5>1. box[p].of = box[k].of
          BY <1>9, <2>3, <4>2
        <5>. QED
          BY <3>6, <5>1 DEF Ledger, Mailbox
      <4>. QED
        BY <3>3, <4>1, <4>2
    <3>. QED
      BY <3>5, <3>6
  <2>4. CASE o # box[k].of
    <3>1. Copies(o)' = Copies(o)
      BY <1>4, <1>6, <1>7, <2>4 DEF Copies
    <3>2. Cardinality(Copies(o)') = c
      BY <3>1
    <3>. HIDE DEF c
    <3>3. CASE budget' < budget
      <4>1. c + budget' <= MaxFaults /\ c + budget' <= 1 + MaxFaults
        BY <1>11, <2>1, <2>2, <3>3, Paid
      <4>. QED
        BY <3>2, <4>1
    <3>4. CASE budget' = budget /\ Dealt \subseteq Dealt'
      BY <1>9, <2>2, <3>2, <3>4
    <3>. QED
      BY <3>3, <3>4
  <2>. QED
    BY <2>3, <2>4
<1>. QED
  BY <1>8, <1>10, <1>12 DEF Ledger

(* A step that looks at one message and takes it off the queue. *)
Consumes ==
    /\ run'.todo = run.todo \ {id} /\ run'.mode = run.mode
    /\ mem'.cursor = mem.cursor
    /\ mem'.ring = mem.ring \/ mem'.ring = mem.ring \cup {id}
    /\ ~Live => mem' = mem

LEMMA RingAddRing ==
    ASSUME NEW a, DOMAIN a = {"cursor", "ring", "strikes", "enabledAt", "lastSent"}
    PROVE  RingAdd(a).ring = a.ring \cup {id} /\ RingAdd(a).cursor = a.cursor
BY DEF RingAdd

LEMMA ProcessedConsumes ==
    ASSUME Inv, Processed
    PROVE  Consumes /\ (Live => mem'.ring = mem.ring \cup {id})
<1>1. run'.todo = run.todo \ {id} /\ run'.mode = run.mode
  BY DEF Processed, Inv, Shapes
<1>2. CASE ~Live
  BY <1>1, <1>2 DEF Processed, Consumes
<1>3. CASE Live
  <2>. DEFINE a == IF IsSent(id) THEN [mem EXCEPT !.lastSent = day] ELSE mem
  <2>1. DOMAIN a = DOMAIN mem /\ a.ring = mem.ring /\ a.cursor = mem.cursor
    BY DEF Inv, Shapes
  <2>2. mem' = RingAdd(a)
    BY <1>3 DEF Processed
  <2>. HIDE DEF a
  <2>3. mem'.ring = mem.ring \cup {id} /\ mem'.cursor = mem.cursor
    BY <2>1, <2>2, RingAddRing DEF Inv, Shapes
  <2>. QED
    BY <1>1, <1>3, <2>3 DEF Consumes
<1>. QED
  BY <1>2, <1>3

LEMMA StruckConsumes == ASSUME Inv, Struck PROVE Consumes
<1>1. run'.todo = run.todo \ {id} /\ run'.mode = run.mode
  BY DEF Struck, Next1, Inv, Shapes
<1>2. CASE ~Live
  BY <1>1, <1>2 DEF Struck, Consumes
<1>3. CASE Live /\ mem' = RingAdd(mem)
  BY <1>1, <1>3, RingAddRing DEF Consumes, Inv, Shapes
<1>4. CASE Live /\ mem' = [mem EXCEPT !.strikes[id] = @ + 1]
  BY <1>1, <1>4 DEF Consumes, Inv, Shapes
<1>. QED
  BY <1>2, <1>3, <1>4 DEF Struck

(* Then the rest of the queue is still undealt with, and nothing is forgotten. *)
LEMMA ConsumesTurn ==
    ASSUME Mailbox, Turn, InTurn, Consumes, pc' = pc, disk' = disk,
           Len(box') \in Nat, Len(box) <= Len(box'), DOMAIN box \subseteq DOMAIN box'
    PROVE  /\ Turn' /\ Dealt \subseteq Dealt'
           /\ mem'.ring = mem.ring \cup {id} => id \in Dealt'
<1>1. Len(box) \in Nat
  BY DEF Mailbox
<1>2. mem'.cursor \in 0..Len(box') /\ disk'.cursor \in 0..Len(box')
  BY <1>1 DEF Turn, Consumes
<1>3. run'.todo \subseteq {p \in DOMAIN box' : p \notin mem'.ring /\ p > mem'.cursor}
  BY DEF Turn, Consumes
<1>4. pc' # "idle" /\ ~Live' => mem' = disk'
  BY DEF Turn, Consumes, Live, InTurn
<1>5. Turn'
  BY <1>2, <1>3, <1>4 DEF Turn
<1>6. pc # "idle" /\ pc' # "idle"
  BY DEF InTurn
<1>7. Dealt \subseteq Dealt'
  BY <1>6 DEF Dealt, Now, Consumes
<1>8. id \in DOMAIN box
  BY NextUp
<1>. QED
  BY <1>5, <1>6, <1>7, <1>8 DEF Dealt, Now

(* A forwarded message, whether its answer came or not. *)
LEMMA ForwardLedger == ASSUME Inv, Ledger, Turn, Forward PROVE Ledger' /\ Turn'
<1>1. InTurn /\ ~Screened(id) /\ Live /\ ~readOnly /\ readOnly' = readOnly /\ disk' = disk /\ pc' = pc
  BY DEF Forward, Forwards
<1>2. id \in Originals /\ id \notin Dealt /\ id \in DOMAIN box
  BY <1>1, NextUp DEF Ledger
<1>3. box' = Append(box, [box[id] EXCEPT !.gen = @ + 1])
  BY DEF Forward
<1>4. Len(box') \in Nat /\ Len(box) <= Len(box') /\ DOMAIN box \subseteq DOMAIN box'
  <2>1. box \in Seq(Mails) /\ box[id] \in Mails /\ box[id].gen = 0
    BY <1>2 DEF Ledger, Mailbox, Originals
  <2>2. [box[id] EXCEPT !.gen = @ + 1] \in Mails
    BY <2>1 DEF Mails
  <2>. HIDE DEF Mails
  <2>. QED
    BY <1>3, <2>1, <2>2
<1>5. budget \in 0..MaxFaults /\ MaxFaults \in Nat
  BY SentAssumption DEF Ledger
<1>6. CASE Processed /\ NoFault
  <2>1. Consumes /\ mem'.ring = mem.ring \cup {id}
    BY <1>1, <1>6, ProcessedConsumes
  <2>2. Turn' /\ Dealt \subseteq Dealt' /\ id \in Dealt'
    BY <1>1, <1>4, <2>1, ConsumesTurn DEF Ledger
  <2>3. budget' = budget
    BY <1>6 DEF NoFault
  <2>4. Ledger'
    BY <1>1, <1>2, <1>3, <1>5, <2>2, <2>3, LedgerForwards
  <2>. QED
    BY <2>2, <2>4
<1>7. CASE Struck /\ Fault
  <2>1. Turn'
    BY <1>1, <1>4, <1>7, StruckConsumes, ConsumesTurn DEF Ledger
  <2>2. budget' \in 0..MaxFaults /\ budget' < budget
    BY <1>5, <1>7 DEF Fault
  <2>3. Ledger'
    BY <1>1, <1>2, <1>3, <2>2, LedgerForwards
  <2>. QED
    BY <2>1, <2>3
<1>. QED
  BY <1>6, <1>7 DEF Forward

(* A step that sends nothing: what it fails, or leaves behind, is in the ledger. *)
LEMMA StartLedger == ASSUME Inv, Ledger, Turn, Start PROVE Ledger' /\ Turn'
<1>1. PICK mode \in Modes : \E on \in BOOLEAN : run' = [NoRun EXCEPT !.mode = mode, !.on = on]
  BY DEF Start
<1>2. PICK on \in BOOLEAN : run' = [NoRun EXCEPT !.mode = mode, !.on = on]
  BY <1>1
<1>3. run'.mode = mode /\ run'.todo = {}
  BY <1>2 DEF NoRun
<1>4. /\ pc = "idle" /\ pc' = "list" /\ box' = box /\ readOnly' = readOnly /\ disk' = disk
      /\ budget' = budget
  BY DEF Start, world
<1>5. mem'.ring = disk.ring /\ mem'.cursor = disk.cursor /\ (mode # "live" => mem' = disk)
  <2>1. Baseline(disk).ring = disk.ring /\ Baseline(disk).cursor = disk.cursor
    BY DEF Baseline, Inv, Shapes
  <2>. QED
    BY <1>3, <2>1 DEF Start, Baseline
<1>6. Dealt' = Dealt
  BY <1>4, <1>5 DEF Dealt, Now
<1>7. Ledger'
  BY <1>4, <1>6, LedgerKept DEF Ledger
<1>8. Turn'
  BY <1>3, <1>4, <1>5 DEF Turn, Live
<1>. QED
  BY <1>7, <1>8

(* The turn that ends: its cursor is not behind the one it had. *)
LEMMA EndTurnLedger == ASSUME Inv, Ledger, Turn, EndTurn PROVE Ledger' /\ Turn'
<1>. DEFINE a == [mem EXCEPT !.cursor = IF run.capped THEN @ ELSE Len(box)]
<1>1. /\ pc = "message" /\ run.todo = {} /\ run' = run /\ box' = box /\ readOnly' = readOnly
      /\ pc' = "finish" /\ (budget' = budget \/ (budget > 0 /\ budget' = budget - 1))
  BY DEF EndTurn, world, GiveUp, Fault, NoFault
<1>2. Len(box) \in Nat /\ DOMAIN box = 1..Len(box)
  BY DEF Ledger, Mailbox
<1>3. a.ring = mem.ring /\ a.cursor \in 0..Len(box) /\ mem.cursor <= a.cursor
  BY <1>2 DEF Turn, Inv, Shapes
<1>4. /\ mem' = mem \/ mem' = a
      /\ disk' = disk \/ disk' = a
      /\ ~Live => mem' = mem /\ disk' = disk
  BY DEF EndTurn
<1>. HIDE DEF a
<1>5. mem'.ring = mem.ring /\ mem'.cursor \in 0..Len(box) /\ mem.cursor <= mem'.cursor
  BY <1>2, <1>3, <1>4 DEF Turn
<1>6. Dealt \subseteq Dealt'
  <2>1. \A p \in DOMAIN box : p <= mem.cursor => p <= mem'.cursor
    BY <1>2, <1>5 DEF Turn
  <2>. QED
    BY <1>1, <1>5, <2>1 DEF Dealt, Now
<1>7. budget' \in 0..MaxFaults /\ (budget' = budget \/ budget' < budget)
  BY <1>1, SentAssumption DEF Ledger
<1>8. Ledger'
  BY <1>1, <1>6, <1>7, LedgerKept
<1>9. Turn'
  <2>1. disk'.cursor \in 0..Len(box)
    BY <1>3, <1>4 DEF Turn
  <2>. QED
    BY <1>1, <1>4, <1>5, <2>1 DEF Turn, Live
<1>. QED
  BY <1>8, <1>9

(* A run that returns writes what it knows; one that does not, pays for what is forgotten. *)
LEMMA FinishLedger ==
    ASSUME Inv, Ledger, Turn, Finish \/ FinishThrows \/ Crash PROVE Ledger' /\ Turn'
<1>1. /\ pc # "idle" /\ pc' = "idle" /\ run' = NoRun /\ box' = box /\ readOnly' = readOnly
  BY DEF Finish, FinishThrows, Crash, world
<1>2. run'.todo = {}
  BY <1>1 DEF NoRun
<1>3. (mem' = mem \/ mem' = disk) /\ (disk' = disk \/ disk' = mem)
  BY DEF Finish, FinishThrows, Crash
<1>4. Turn'
  BY <1>1, <1>2, <1>3 DEF Turn
<1>5. CASE Finish
  <2>1. disk' = mem /\ budget' = budget
    BY <1>1, <1>5 DEF Finish, NoFault, Turn
  <2>2. Dealt' = Dealt
    BY <1>1, <2>1 DEF Dealt, Now
  <2>. QED
    BY <1>1, <1>4, <2>1, <2>2, LedgerKept DEF Ledger
<1>6. CASE FinishThrows \/ Crash
  <2>1. budget > 0 /\ budget' = budget - 1
    BY <1>6 DEF FinishThrows, Crash, Fault
  <2>2. budget' \in 0..MaxFaults /\ budget' < budget
    BY <2>1, SentAssumption DEF Ledger
  <2>. QED
    BY <1>1, <1>4, <2>2, LedgerKept
<1>. QED
  BY <1>5, <1>6

LEMMA StepLedger == Inv /\ Ledger /\ Turn /\ [Next]_vars => Ledger' /\ Turn'
<1>. SUFFICES ASSUME Inv, Ledger, Turn, [Next]_vars PROVE Ledger' /\ Turn'
  OBVIOUS
<1>0. Mailbox /\ Len(box) \in Nat /\ budget \in 0..MaxFaults /\ MaxFaults \in Nat
  BY SentAssumption DEF Ledger, Mailbox
<1>1. CASE Start
  BY <1>1, StartLedger
<1>2. CASE List
  <2>1. /\ pc = "list" /\ pc' = "message" /\ budget' = budget
        /\ box' = box /\ readOnly' = readOnly /\ mem' = mem /\ disk' = disk
    BY <1>2 DEF List, NoFault, world
  <2>2. /\ run'.mode = run.mode
        /\ run'.todo \subseteq {p \in DOMAIN box : p \notin mem.ring /\ p > mem.cursor}
    BY <1>2 DEF List, Inv, Shapes
  <2>3. Dealt' = Dealt
    BY <2>1 DEF Dealt, Now
  <2>4. Ledger'
    BY <1>0, <2>1, <2>3, LedgerKept
  <2>5. Turn'
    BY <2>1, <2>2 DEF Turn, Live
  <2>. QED
    BY <2>4, <2>5
<1>3. CASE ListFails
  <2>1. /\ pc = "list" /\ pc' = "finish" /\ budget > 0 /\ budget' = budget - 1
        /\ box' = box /\ readOnly' = readOnly /\ mem' = mem /\ disk' = disk /\ run' = run
    BY <1>3 DEF ListFails, GiveUp, Fault, world
  <2>2. budget' \in 0..MaxFaults /\ budget' < budget
    BY <1>0, <2>1
  <2>3. Ledger'
    BY <2>1, <2>2, LedgerKept
  <2>4. Turn'
    BY <2>1 DEF Turn, Live
  <2>. QED
    BY <2>3, <2>4
<1>4. CASE Screen
  <2>1. /\ InTurn /\ pc' = pc /\ disk' = disk /\ budget' = budget
        /\ box' = box /\ readOnly' = readOnly
    BY <1>4 DEF Screen, NoFault, world
  <2>2. Consumes
    <3>1. run'.todo = run.todo \ {id} /\ run'.mode = run.mode
      BY <1>4 DEF Screen, Next1, Inv, Shapes
    <3>2. mem' = IF Live THEN RingAdd(mem) ELSE mem
      BY <1>4 DEF Screen
    <3>. QED
      BY <3>1, <3>2, RingAddRing DEF Consumes, Inv, Shapes
  <2>3. Turn' /\ Dealt \subseteq Dealt'
    BY <1>0, <2>1, <2>2, ConsumesTurn
  <2>. QED
    BY <1>0, <2>1, <2>3, LedgerKept
<1>5. CASE Handle
  <2>1. /\ InTurn /\ pc' = pc /\ disk' = disk /\ budget' = budget
        /\ box' = box /\ readOnly' = readOnly
    BY <1>5 DEF Handle, NoFault, world
  <2>2. Consumes
    BY <1>5, ProcessedConsumes DEF Handle
  <2>3. Turn' /\ Dealt \subseteq Dealt'
    BY <1>0, <2>1, <2>2, ConsumesTurn
  <2>. QED
    BY <1>0, <2>1, <2>3, LedgerKept
<1>6. CASE HandlerThrows
  <2>1. /\ InTurn /\ pc' = pc /\ disk' = disk /\ budget > 0 /\ budget' = budget - 1
        /\ box' = box /\ readOnly' = readOnly
    BY <1>6 DEF HandlerThrows, Fault, world
  <2>2. Consumes
    BY <1>6, StruckConsumes DEF HandlerThrows
  <2>3. Turn' /\ Dealt \subseteq Dealt'
    BY <1>0, <2>1, <2>2, ConsumesTurn
  <2>4. budget' \in 0..MaxFaults /\ budget' < budget
    BY <1>0, <2>1
  <2>. QED
    BY <2>1, <2>3, <2>4, LedgerKept
<1>7. CASE Forward
  BY <1>7, ForwardLedger
<1>8. CASE EndTurn
  BY <1>8, EndTurnLedger
<1>9. CASE Finish \/ FinishThrows \/ Crash
  BY <1>9, FinishLedger
<1>10. CASE NextDay \/ UNCHANGED vars
  <2>1. UNCHANGED <<readOnly, box, disk, mem, pc, run, budget>>
    BY <1>10 DEF NextDay, vars, world
  <2>2. Dealt' = Dealt
    BY <2>1 DEF Dealt, Now
  <2>3. Ledger'
    BY <1>0, <2>1, <2>2, LedgerKept
  <2>4. Turn'
    BY <2>1 DEF Turn, Live
  <2>. QED
    BY <2>3, <2>4
<1>11. CASE Deliver
  BY <1>11, LedgerDelivers
<1>. QED
  BY <1>1, <1>2, <1>3, <1>4, <1>5, <1>6, <1>7, <1>8, <1>9, <1>10, <1>11 DEF Next

LEMMA InitLedger == Init => Ledger /\ Turn
<1>. SUFFICES ASSUME Init PROVE Ledger /\ Turn
  OBVIOUS
<1>1. box = <<>> /\ DOMAIN box = {} /\ Len(box) = 0 /\ box \in Seq(Mails)
  BY DEF Init
<1>2. Originals = {} /\ Mailbox
  BY <1>1 DEF Originals, Mailbox
<1>3. budget = MaxFaults /\ MaxFaults \in Nat
  BY SentAssumption DEF Init
<1>4. ASSUME NEW m \in Received \cup Written
      PROVE  Cardinality(Copies(m)) + budget <= 1 + MaxFaults
  <2>1. Copies(m) = {}
    BY <1>1 DEF Copies
  <2>2. Cardinality(Copies(m)) = 0
    BY <2>1, FS_EmptySet
  <2>. QED
    BY <1>3, <2>2
<1>5. Ledger
  BY <1>2, <1>3, <1>4 DEF Ledger
<1>6. Turn
  BY <1>1 DEF Init, Turn, NoRun
<1>. QED
  BY <1>5, <1>6

LEMMA LedgerAccounts == Ledger => ForwardsAreAccounted
<1>. SUFFICES ASSUME Ledger PROVE ForwardsAreAccounted
  OBVIOUS
<1>1. \A p \in DOMAIN box : box[p] \in Mails
  BY DEF Ledger, Mailbox
<1>2. \A p \in DOMAIN box : box[p].gen \in {0, 1}
  BY <1>1 DEF Mails
<1>3. ASSUME NEW m \in Ruled PROVE Cardinality(Copies(m)) <= 1 + (MaxFaults - budget)
  <2>1. m \in Received \cup Written /\ budget \in Int /\ MaxFaults \in Int
    BY SentAssumption DEF Ledger
  <2>2. Cardinality(Copies(m)) + budget <= 1 + MaxFaults /\ Cardinality(Copies(m)) \in Nat
    BY <2>1, CopiesFinite DEF Ledger
  <2>. QED
    BY <2>1, <2>2
<1>4. readOnly => \A p \in DOMAIN box : box[p].gen = 0
  BY DEF Ledger, Mailbox, Originals
<1>. QED
  BY <1>2, <1>3, <1>4 DEF ForwardsAreAccounted

(* poll.js 26-36 and 416-426, forward.js 40-65: a copy is never forwarded again, *)
(* a message is forwarded once, and once more only for each call, write or      *)
(* process that failed, and a read-only account forwards nothing, whatever the  *)
(* mailbox, the cap, the number of attempts and the order of the failures.      *)
THEOREM ForwardsAreCounted == Spec => []ForwardsAreAccounted
<1>1. Init => Inv /\ Ledger /\ Turn
  BY InitInv, InitLedger
<1>2. Inv /\ Ledger /\ Turn /\ [Next]_vars => (Inv /\ Ledger /\ Turn)'
  BY StepInv, StepLedger
<1>. QED
  BY <1>1, <1>2, LedgerAccounts, PTL DEF Spec
=============================================================================
