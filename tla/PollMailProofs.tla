---------------------------- MODULE PollMailProofs ----------------------------
(***************************************************************************)
(* What becomes of the mail, for every mailbox, bound and failing call.    *)
(*                                                                         *)
(* The seven message actions and the ways a turn may end are summarised    *)
(* once, by what they do to the ring, the state object and the history of  *)
(* a message; the invariants below cite the summaries.  They go from what  *)
(* a run may touch, over what it may drop and pass, to what its report     *)
(* says of it, and end with what the ring remembers.                       *)
(***************************************************************************)
EXTENDS PollCycleProofs, PollHealth

InTurn == pc \in {"quiet", "message", "archive", "commit"}

-----------------------------------------------------------------------------
(* What a step of the message loop does. *)

(* A failure short of the last, or any message of a run that is not live. *)
Held ==
    /\ work'.ring = work.ring /\ work'.progressed = work.progressed
    /\ work'.toArchive = work.toArchive
    /\ UNCHANGED <<mem, fate, calls>>
    /\ Durable => stats'.messageErrors = stats.messageErrors + 1

Rings ==
    /\ Durable
    /\ work'.ring = IF id \in Range(work.ring) THEN work.ring ELSE Append(work.ring, id)
    /\ Range(work'.ring) = Range(work.ring) \cup {id}
    /\ work'.progressed = (work.progressed \/ id \notin Range(work.ring))
Retires ==
    /\ Rings
    /\ \E f \in {"gone", "mistaken", "screened", "duplicate"} :
          /\ Becomes(id, f)
          /\ f = "mistaken" => "mistaken" \in Faults
          /\ f = "duplicate" => DedupeKeys(id) \cap seen # {}
    /\ work'.toArchive = work.toArchive
    /\ UNCHANGED <<mem, calls>>
IsHandled ==
    /\ Rings /\ fate' = [fate EXCEPT ![id] = "handled"]
    /\ ~Screened(id)
    /\ work'.toArchive = work.toArchive
       \/ (ShouldArchive(id) /\ work'.toArchive = work.toArchive \cup {id})
    /\ UNCHANGED mem
Drops ==
    /\ Rings /\ Becomes(id, "quarantined")
    /\ mem' = [mem EXCEPT ![acct].dropped = LastN(Append(@, id), QuarantineMax)]
    /\ work'.toArchive = work.toArchive
    /\ UNCHANGED calls

(* The dedupe keys a message leaves in `seen`, and what it took to leave them. *)
Attempted ==
    /\ seen' = seen \cup DedupeKeys(id)
    /\ \/ ~Durable \/ IsHandled
       \/ "mistaken" \in Faults
       \/ ("handler" \in Faults \/ id \in Poison) /\ stats'.messageErrors > 0

Consumed ==
    /\ pc = "message" /\ id \in Messages
    /\ work'.listed = work.listed /\ work'.truncated = work.truncated
    /\ work'.capped = work.capped /\ work'.todo = Tail(work.todo)
    /\ pc' \in {"message", "archive", "commit"}
    /\ pc' # "message" => work'.todo = <<>>
    /\ pc' = "archive" => work'.toArchive # {}
    /\ UNCHANGED <<env, archived, disk, at, mode, enrolled>>

(* ringAdd adds the message and nothing else. *)
LEMMA RingAddRange ==
    ASSUME NEW w \in Works, NEW m \in Messages
    PROVE  /\ Range(RingAdd(w, m).ring) = Range(w.ring) \cup {m}
           /\ RingAdd(w, m).progressed = (w.progressed \/ m \notin Range(w.ring))
           /\ RingAdd(w, m).listed = w.listed /\ RingAdd(w, m).truncated = w.truncated
           /\ RingAdd(w, m).capped = w.capped /\ RingAdd(w, m).todo = w.todo
           /\ RingAdd(w, m).toArchive = w.toArchive
           /\ RingAdd(w, m).ring = IF m \in Range(w.ring) THEN w.ring ELSE Append(w.ring, m)
<1>1. w.ring \in Seq(Messages)
  BY DEF Works
<1>2. m \notin Range(w.ring) => Range(Append(w.ring, m)) = Range(w.ring) \cup {m}
  BY <1>1, AppendProperties DEF Range
<1>3. RingAdd(w, m).ring = IF m \in Range(w.ring) THEN w.ring ELSE Append(w.ring, m)
  BY DEF RingAdd, Works
<1> QED
  BY <1>2, <1>3 DEF RingAdd, Works

LEMMA ConsumeShape ==
    ASSUME NEW w \in Works, w.todo # <<>>, Consume(w)
    PROVE  /\ work'.listed = w.listed /\ work'.truncated = w.truncated
           /\ work'.capped = w.capped /\ work'.todo = Tail(w.todo)
           /\ work'.ring = w.ring /\ work'.progressed = w.progressed
           /\ work'.toArchive = w.toArchive /\ work'.strikes = w.strikes
           /\ pc' \in {"message", "archive", "commit"}
           /\ pc' # "message" => work'.todo = <<>>
           /\ pc' = "archive" => work'.toArchive # {}
<1>1. w.todo \in Seq(Messages)
  BY DEF Works
<1>2. Tail(w.todo) \in Seq(Messages) /\ Len(Tail(w.todo)) = Len(w.todo) - 1
      /\ Len(w.todo) \in Nat \ {0}
  BY <1>1, HeadTailProperties, LenProperties, EmptySeq
<1>3. ~(Len(w.todo) > 1) => Tail(w.todo) = <<>>
  BY <1>2, EmptySeq
<1> QED
  BY <1>3 DEF Consume, Works

LEMMA MessageShape ==
    ASSUME TypeOK, MessageStep
    PROVE  /\ Consumed
           /\ \/ Held
              \/ Retires
              \/ IsHandled
              \/ Drops
           /\ seen' = seen \/ Attempted
           /\ stats'.expired = stats.expired /\ stats'.messageErrors >= stats.messageErrors
<1>0. pc = "message" /\ UNCHANGED <<env, archived, disk, at, mode, enrolled>>
  BY DEF MessageStep, InLoop, FetchGone, HandlerGone, ScreenOut, SkipDuplicate, Handle,
         FetchThrows, HandlerThrows
<1>1. id \in Messages /\ work \in Works /\ work.todo # <<>> /\ stats \in Counters
  BY <1>0, IdType DEF TypeOK
<1> DEFINE Window1 == /\ work'.listed = work.listed /\ work'.truncated = work.truncated
                      /\ work'.capped = work.capped /\ work'.todo = Tail(work.todo)
                      /\ pc' \in {"message", "archive", "commit"}
                      /\ pc' # "message" => work'.todo = <<>>
                      /\ pc' = "archive" => work'.toArchive # {}
           Added == RingAdd(work, id)
<1>2. Added \in Works /\ Added.todo # <<>>
  BY <1>1, RingAddType
<1>3. ASSUME NEW f \in {"gone", "mistaken", "screened", "duplicate"}, Retire(id, f),
             f = "mistaken" => "mistaken" \in Faults,
             f = "duplicate" => DedupeKeys(id) \cap seen # {},
             UNCHANGED <<mem, stats, calls>>
      PROVE  Window1 /\ (Retires \/ (Held /\ ~Durable))
  <2>1. CASE Durable
    <3>1. Consume(Added) /\ Becomes(id, f)
      BY <1>3, <2>1 DEF Retire
    <3>2. Window1 /\ work'.ring = Added.ring /\ work'.progressed = Added.progressed
          /\ work'.toArchive = Added.toArchive
      BY <1>1, <1>2, <3>1, ConsumeShape, RingAddRange
    <3>3. Rings /\ work'.toArchive = work.toArchive
      BY <1>1, <2>1, <3>2, RingAddRange DEF Rings
    <3>4. UNCHANGED <<mem, calls>>
      BY <1>3
    <3>5. Retires
      BY <1>3, <3>1, <3>3, <3>4 DEF Retires
    <3> QED
      BY <3>2, <3>5
  <2>2. CASE ~Durable
    <3>1. Consume(work) /\ fate' = fate
      BY <1>3, <2>2 DEF Retire
    <3> QED
      BY <1>1, <1>3, <2>2, <3>1, ConsumeShape DEF Held
  <2> QED
    BY <2>1, <2>2
<1>4. ASSUME Struck(id), UNCHANGED calls
      PROVE  /\ Window1 /\ (Held \/ Drops)
             /\ stats'.expired = stats.expired /\ stats'.messageErrors >= stats.messageErrors
             /\ stats'.messageErrors > 0
  <2> DEFINE w == [work EXCEPT !.strikes = Strike(@, id)]
             failed == Count(stats, "messageErrors")
  <2>1. w \in Works /\ w.todo # <<>>
    BY <1>1, StrikeType DEF Works
  <2>2. /\ w.listed = work.listed /\ w.truncated = work.truncated /\ w.capped = work.capped
        /\ w.todo = work.todo /\ w.ring = work.ring /\ w.progressed = work.progressed
        /\ w.toArchive = work.toArchive
    BY <1>1 DEF Works
  <2>3. /\ failed.messageErrors = stats.messageErrors + 1 /\ failed.expired = stats.expired
        /\ Count(failed, "quarantined").messageErrors = stats.messageErrors + 1
        /\ Count(failed, "quarantined").expired = stats.expired
        /\ stats.messageErrors \in Nat
    BY <1>1 DEF Count, Counters
  <2> HIDE DEF w, failed
  <2>4. stats' = failed \/ stats' = Count(failed, "quarantined")
    BY <1>4 DEF Struck, failed
  <2>5. CASE ~Durable
    <3>1. Consume(work) /\ UNCHANGED <<mem, fate>>
      BY <1>4, <2>5 DEF Struck
    <3> QED
      BY <1>1, <1>4, <2>3, <2>4, <2>5, <3>1, ConsumeShape DEF Held
  <2>6. CASE Durable /\ StrikesOf(w.strikes, id) < MaxAttempts
    <3>1. Consume(w) /\ UNCHANGED <<mem, fate>>
      BY <1>4, <2>6 DEF Struck, w
    <3>2. Window1 /\ work'.ring = work.ring /\ work'.progressed = work.progressed
          /\ work'.toArchive = work.toArchive
      BY <2>1, <2>2, <3>1, ConsumeShape
    <3> QED
      BY <1>4, <2>3, <2>4, <3>1, <3>2 DEF Held
  <2>7. CASE Durable /\ ~(StrikesOf(w.strikes, id) < MaxAttempts)
    <3>1. /\ Consume(RingAdd(w, id)) /\ Becomes(id, "quarantined")
          /\ mem' = [mem EXCEPT ![acct].dropped = LastN(Append(@, id), QuarantineMax)]
      BY <1>4, <2>7 DEF Struck, w
    <3>2. RingAdd(w, id) \in Works /\ RingAdd(w, id).todo # <<>>
      BY <1>1, <2>1, RingAddType
    <3>3. Window1 /\ work'.ring = RingAdd(w, id).ring /\ work'.toArchive = work.toArchive
          /\ work'.progressed = RingAdd(w, id).progressed
      BY <1>1, <2>1, <2>2, <3>1, <3>2, ConsumeShape, RingAddRange
    <3>4. Rings
      BY <1>1, <2>1, <2>2, <2>7, <3>3, RingAddRange DEF Rings
    <3> QED
      BY <1>4, <2>3, <2>4, <3>1, <3>3, <3>4 DEF Drops
  <2> QED
    BY <2>5, <2>6, <2>7
<1>5. CASE Handle
  <2> DEFINE w == IF Durable THEN RingAdd(work, id) ELSE work
             v == [w EXCEPT !.toArchive = @ \cup
                     (IF mode # "dry" /\ ShouldArchive(id) THEN {id} ELSE {})]
  <2>1. w \in Works /\ w.todo # <<>>
    BY <1>1, <1>2
  <2>2. /\ w.listed = work.listed /\ w.truncated = work.truncated /\ w.capped = work.capped
        /\ w.todo = work.todo /\ w.toArchive = work.toArchive
    BY <1>1, RingAddRange
  <2>3. Consume(v)
    BY <1>5 DEF Handle
  <2>4. v \in Works /\ v.todo # <<>>
    BY <2>1, <1>1 DEF Works
  <2>5. /\ v.listed = w.listed /\ v.truncated = w.truncated /\ v.capped = w.capped
        /\ v.todo = w.todo /\ v.ring = w.ring /\ v.progressed = w.progressed
    BY <2>1 DEF Works
  <2>6. v.toArchive = w.toArchive \/ (ShouldArchive(id) /\ v.toArchive = w.toArchive \cup {id})
    BY <2>1 DEF Works
  <2>7. ~Durable => v.toArchive = w.toArchive
    BY <2>6 DEF ShouldArchive
  <2>8. Durable => /\ w.ring = IF id \in Range(work.ring) THEN work.ring ELSE Append(work.ring, id)
                   /\ Range(w.ring) = Range(work.ring) \cup {id}
                   /\ w.progressed = (work.progressed \/ id \notin Range(work.ring))
    BY <1>1, RingAddRange
  <2>9. ~Durable => w = work
    OBVIOUS
  <2> HIDE DEF w, v
  <2>10. Window1 /\ work'.ring = w.ring /\ work'.progressed = w.progressed
         /\ work'.toArchive = v.toArchive
    BY <2>2, <2>3, <2>4, <2>5, ConsumeShape
  <2>11. UNCHANGED <<mem, stats>> /\ ~Screened(id) /\ seen' = seen \cup DedupeKeys(id)
    BY <1>5 DEF Handle, Arrives
  <2>12. CASE Durable
    <3>1. fate' = [fate EXCEPT ![id] = "handled"]
      BY <1>5, <2>12 DEF Handle
    <3>2. Rings
      BY <2>8, <2>10, <2>12 DEF Rings
    <3>3. IsHandled
      BY <2>2, <2>6, <2>10, <2>11, <3>1, <3>2 DEF IsHandled
    <3> QED
      BY <1>0, <1>1, <2>10, <2>11, <3>3 DEF Consumed, Attempted, Counters
  <2>13. CASE ~Durable
    <3>1. UNCHANGED <<fate, calls>>
      BY <1>5, <2>13 DEF Handle
    <3>2. Held
      BY <2>2, <2>7, <2>9, <2>10, <2>11, <2>13, <3>1 DEF Held
    <3> QED
      BY <1>0, <1>1, <2>10, <2>11, <2>13, <3>2 DEF Consumed, Attempted, Counters
  <2> QED
    BY <2>12, <2>13
<1>6. CASE FetchGone \/ ScreenOut \/ SkipDuplicate
  <2>1. /\ \E f \in {"gone", "screened", "duplicate"} :
              Retire(id, f) /\ (f = "duplicate" => DedupeKeys(id) \cap seen # {})
        /\ UNCHANGED <<mem, seen, stats, calls>>
    BY <1>6 DEF FetchGone, ScreenOut, SkipDuplicate
  <2> QED
    BY <1>0, <1>1, <1>3, <2>1 DEF Consumed, Counters
<1>7. CASE HandlerGone
  <2>1. /\ Retire(id, "mistaken") /\ "mistaken" \in Faults
        /\ UNCHANGED <<mem, stats, calls>> /\ seen' = seen \cup DedupeKeys(id)
    BY <1>7 DEF HandlerGone, Fault, Arrives
  <2> QED
    BY <1>0, <1>1, <1>3, <2>1 DEF Consumed, Counters, Attempted
<1>8. CASE FetchThrows
  <2>1. Struck(id) /\ UNCHANGED <<seen, calls>>
    BY <1>8 DEF FetchThrows
  <2> QED
    BY <1>0, <1>1, <1>4, <2>1 DEF Consumed
<1>9. CASE HandlerThrows
  <2>1. /\ Struck(id) /\ UNCHANGED calls /\ seen' = seen \cup DedupeKeys(id)
        /\ id \in Poison \/ "handler" \in Faults
    BY <1>9 DEF HandlerThrows, Fault, Arrives
  <2> QED
    BY <1>0, <1>1, <1>4, <2>1 DEF Consumed, Attempted
<1> QED
  BY <1>5, <1>6, <1>7, <1>8, <1>9 DEF MessageStep

-----------------------------------------------------------------------------
(* How a turn ends: with no change, or with a record for its account that is  *)
(* written, or that only the state object of the run keeps.                   *)

SeedRecord(r) ==
    /\ pc = "account" /\ mem[acct].cursor = 0
    /\ r = [Fresh EXCEPT !.cursor = profile[acct]]
ResetRecord(r) ==
    /\ pc = "expired" /\ r.cursor = profile[acct] /\ r.ring = mem[acct].ring
    /\ r.stalled # 0 => r.cursor = mem[acct].cursor
QuietRecord(r) ==
    /\ pc = "quiet" /\ r.cursor \in NextCursors /\ r.ring = mem[acct].ring
    /\ r.stalled # 0 => /\ r.cursor = mem[acct].cursor
                        /\ work.truncated /\ work.listed # {}
CommitRecord(r) ==
    /\ pc = "commit"
    /\ r.cursor \in IF work.truncated \/ ~work.capped THEN NextCursors ELSE {mem[acct].cursor}
    /\ r.ring = LastN(work.ring, RingMax)
    /\ r.stalled # 0 => r.cursor = mem[acct].cursor /\ ~work.progressed
CutRecord(r) ==
    /\ pc \in {"quiet", "commit"}
    /\ r.cursor = mem[acct].cursor /\ r.ring = work.ring /\ r.stalled = mem[acct].stalled
Concluding(r) ==
    (ResetRecord(r) \/ QuietRecord(r) \/ CommitRecord(r)) /\ r.dropped = mem[acct].dropped

Skips ==
    /\ Durable
    /\ fate' = [m \in Messages |->
                  IF /\ acct \notin enrolled
                     /\ Owner[m] = acct /\ hist[m] # 0 /\ fate[m] = "pending"
                  THEN "skipped" ELSE fate[m]]

Keeps(r) == Durable /\ mem' = [mem EXCEPT ![acct] = r]
ErrorCounted == stats'.messageErrors = stats.messageErrors + 1
Seeded == \E r \in AccountStates :
    Keeps(r) /\ SeedRecord(r) /\ Skips /\ (disk' = mem' \/ disk' = disk)
Concluded == \E r \in AccountStates :
    Keeps(r) /\ Concluding(r) /\ fate' = fate
    /\ (disk' = mem' \/ (disk' = disk /\ ErrorCounted))
CutShort == \E r \in AccountStates :
    Keeps(r) /\ CutRecord(r) /\ r.dropped = mem[acct].dropped /\ fate' = fate
    /\ disk' = disk /\ ErrorCounted

TurnEnds ==
    /\ pc \in {"account", "expired", "quiet", "commit"}
    /\ work' = NoWork
    /\ \/ pc' = "finish" /\ at = Len(Clients) /\ at' = at
       \/ pc' = "account" /\ at # Len(Clients) /\ at' = at + 1
    /\ UNCHANGED <<env, archived, mode, seen, enrolled, calls>>
    /\ stats'.expired = stats.expired /\ stats'.messageErrors >= stats.messageErrors
    /\ UNCHANGED <<mem, disk, fate>> \/ Seeded \/ Concluded \/ CutShort

LEMMA CountShape ==
    ASSUME NEW s \in Counters, NEW u \in {"messageErrors", "accountErrors"}
    PROVE  /\ Count(s, u).expired = s.expired
           /\ Count(s, u).messageErrors >= s.messageErrors
           /\ u = "messageErrors" => Count(s, u).messageErrors = s.messageErrors + 1
  BY DEF Count, Counters

LEMMA EndTurnShape ==
    ASSUME TypeOK, NEW m \in AccountMap, NEW s \in Counters,
           NEW u \in {"messageErrors", "accountErrors"}, EndTurn(m, s, u)
    PROVE  /\ work' = NoWork
           /\ \/ pc' = "finish" /\ at = Len(Clients) /\ at' = at
              \/ pc' = "account" /\ at # Len(Clients) /\ at' = at + 1
           /\ stats'.expired = s.expired /\ stats'.messageErrors >= s.messageErrors
           /\ \/ UNCHANGED <<mem, disk>> /\ ~Durable
              \/ /\ Durable /\ mem' = m
                 /\ \/ disk' = m
                    \/ disk' = disk
                       /\ (u = "messageErrors" => stats'.messageErrors = s.messageErrors + 1)
<1>1. s.messageErrors \in Nat
  BY DEF Counters
<1> QED
  BY <1>1, CountShape DEF EndTurn, NextAccount

LEMMA GiveUpShape ==
    ASSUME TypeOK, NEW m \in AccountMap,
           NEW u \in {"messageErrors", "accountErrors"}, GiveUp(m, u)
    PROVE  /\ work' = NoWork
           /\ \/ pc' = "finish" /\ at = Len(Clients) /\ at' = at
              \/ pc' = "account" /\ at # Len(Clients) /\ at' = at + 1
           /\ stats'.expired = stats.expired /\ stats'.messageErrors >= stats.messageErrors
           /\ u = "messageErrors" => stats'.messageErrors = stats.messageErrors + 1
           /\ disk' = disk
           /\ mem' = mem \/ (Durable /\ mem' = m)
<1>1. stats \in Counters
  BY DEF TypeOK
<1> QED
  BY <1>1, CountShape DEF GiveUp, NextAccount

(* noteRun: the record is the one given, with its stall count brought up to date. *)
LEMMA ConcludeShape ==
    ASSUME TypeOK, NEW r \in AccountStates, NEW c \in BOOLEAN, Conclude(r, c)
    PROVE  \E q \in AccountStates :
              /\ q.cursor = r.cursor /\ q.ring = r.ring /\ q.dropped = r.dropped
              /\ q.stalled # 0 => r.cursor = mem[acct].cursor /\ ~work.progressed /\ ~c
              /\ work' = NoWork
              /\ \/ pc' = "finish" /\ at = Len(Clients) /\ at' = at
                 \/ pc' = "account" /\ at # Len(Clients) /\ at' = at + 1
              /\ stats'.expired = stats.expired /\ stats'.messageErrors >= stats.messageErrors
              /\ \/ UNCHANGED <<mem, disk>>
                 \/ Keeps(q) /\ (disk' = mem' \/ (disk' = disk /\ ErrorCounted))
<1> DEFINE progress == r.cursor # mem[acct].cursor \/ work.progressed \/ c
           stalled == IF progress THEN 0
                      ELSE IF r.stalled < StallCap THEN r.stalled + 1 ELSE StallCap
           worst == IF Durable /\ stalled > stats.maxStalled THEN stalled ELSE stats.maxStalled
           q == [r EXCEPT !.stalled = stalled]
           m == [mem EXCEPT ![acct] = q]
           s == [stats EXCEPT !.maxStalled = worst]
<1>1. stalled \in 0..StallCap
  BY BoundsAssumption DEF AccountStates
<1>2. stalled # 0 => r.cursor = mem[acct].cursor /\ ~work.progressed /\ ~c
  OBVIOUS
<1>3. EndTurn(m, s, "messageErrors")
  BY DEF Conclude
<1>4. worst \in Nat
  BY <1>1, BoundsAssumption DEF TypeOK, Counters
<1> HIDE DEF stalled, worst
<1>5. /\ q \in AccountStates /\ q.cursor = r.cursor /\ q.ring = r.ring
      /\ q.dropped = r.dropped /\ q.stalled = stalled
  BY <1>1 DEF AccountStates
<1>6. s \in Counters /\ s.expired = stats.expired /\ s.messageErrors = stats.messageErrors
  BY <1>4 DEF TypeOK, Counters
<1> HIDE DEF q, s
<1>7. m \in AccountMap
  BY <1>5, AcctType DEF TypeOK, AccountMap
<1>8. /\ work' = NoWork
      /\ \/ pc' = "finish" /\ at = Len(Clients) /\ at' = at
         \/ pc' = "account" /\ at # Len(Clients) /\ at' = at + 1
      /\ stats'.expired = s.expired /\ stats'.messageErrors >= s.messageErrors
      /\ \/ UNCHANGED <<mem, disk>> /\ ~Durable
         \/ /\ Durable /\ mem' = m
            /\ \/ disk' = m
               \/ disk' = disk /\ stats'.messageErrors = s.messageErrors + 1
  BY <1>3, <1>6, <1>7, EndTurnShape
<1> QED
  BY <1>2, <1>5, <1>6, <1>8 DEF Keeps, ErrorCounted

LEMMA CutShape ==
    ASSUME TypeOK, pc \in {"quiet", "commit"}, GiveUp(Aliased, "messageErrors"),
           UNCHANGED <<env, archived, mode, seen, ghosts>>
    PROVE  TurnEnds
<1>1. /\ work' = NoWork
      /\ \/ pc' = "finish" /\ at = Len(Clients) /\ at' = at
         \/ pc' = "account" /\ at # Len(Clients) /\ at' = at + 1
      /\ stats'.expired = stats.expired /\ stats'.messageErrors >= stats.messageErrors
      /\ ErrorCounted /\ disk' = disk
      /\ mem' = mem \/ (Durable /\ mem' = Aliased)
  BY AliasedType, GiveUpShape DEF ErrorCounted
<1>2. CASE mem' = mem
  BY <1>1, <1>2 DEF TurnEnds, ghosts
<1>3. CASE mem' # mem
  <2> DEFINE r == [mem[acct] EXCEPT !.ring = work.ring, !.strikes = work.strikes]
  <2>1. mem \in AccountMap /\ acct \in Accounts /\ mem[acct] \in AccountStates
        /\ work.ring \in Seq(Messages) /\ work.strikes \in Seq(Strikes)
    BY AcctType DEF TypeOK, AccountMap, Works
  <2>2. mem' = [mem EXCEPT ![acct].ring = work.ring, ![acct].strikes = work.strikes]
    BY <1>1, <1>3 DEF Aliased
  <2>3. /\ r \in AccountStates /\ r.cursor = mem[acct].cursor /\ r.ring = work.ring
        /\ r.stalled = mem[acct].stalled /\ r.dropped = mem[acct].dropped
    BY <2>1 DEF AccountStates
  <2>4. mem' = [mem EXCEPT ![acct] = r]
    BY <2>1, <2>2 DEF AccountMap
  <2> HIDE DEF r
  <2>5. Keeps(r) /\ CutRecord(r) /\ fate' = fate
    BY <1>1, <1>3, <2>3, <2>4 DEF Keeps, CutRecord, ghosts
  <2>6. CutShort
    BY <1>1, <2>3, <2>5 DEF CutShort
  <2> QED
    BY <1>1, <2>6 DEF TurnEnds, ghosts
<1> QED
  BY <1>2, <1>3

LEMMA TurnShape ==
    ASSUME TypeOK, TurnStep
    PROVE  MessageStep \/ List \/ ListExpired \/ ArchiveBatch \/ TurnEnds
<1>0. /\ acct \in Accounts /\ mem \in AccountMap /\ mem[acct] \in AccountStates
      /\ profile[acct] \in Nat /\ stats \in Counters
  BY AcctType DEF TypeOK, AccountMap
<1>1. CASE Unreachable
  <2>1. GiveUp(mem, "accountErrors") /\ pc = "account"
        /\ UNCHANGED <<env, archived, mode, seen, ghosts>>
    BY <1>1 DEF Unreachable
  <2> QED
    BY <1>0, <2>1, GiveUpShape DEF TurnEnds, ghosts
<1>2. CASE Seed
  <2> DEFINE r == [Fresh EXCEPT !.cursor = profile[acct]]
             m == [mem EXCEPT ![acct] = r]
  <2>1. r \in AccountStates /\ m \in AccountMap
    BY <1>0, FreshType DEF AccountMap, AccountStates
  <2>2. /\ EndTurn(m, stats, "accountErrors") /\ pc = "account" /\ mem[acct].cursor = 0
        /\ UNCHANGED <<env, archived, mode, seen, enrolled, calls>>
        /\ fate' = [k \in Messages |->
                      IF /\ Durable /\ acct \notin enrolled
                         /\ Owner[k] = acct /\ hist[k] # 0 /\ fate[k] = "pending"
                      THEN "skipped" ELSE fate[k]]
    BY <1>2 DEF Seed
  <2>3. SeedRecord(r)
    BY <2>2 DEF SeedRecord
  <2> HIDE DEF r
  <2>4. /\ work' = NoWork
        /\ \/ pc' = "finish" /\ at = Len(Clients) /\ at' = at
           \/ pc' = "account" /\ at # Len(Clients) /\ at' = at + 1
        /\ stats'.expired = stats.expired /\ stats'.messageErrors >= stats.messageErrors
        /\ \/ UNCHANGED <<mem, disk>> /\ ~Durable
           \/ Durable /\ mem' = m /\ (disk' = m \/ disk' = disk)
    BY <1>0, <2>1, <2>2, EndTurnShape
  <2>5. CASE Durable
    <3>1. Skips
      BY <2>2, <2>5 DEF Skips
    <3>2. Seeded
      BY <2>1, <2>3, <2>4, <2>5, <3>1 DEF Seeded, Keeps
    <3> QED
      BY <2>2, <2>4, <3>2 DEF TurnEnds
  <2>6. CASE ~Durable
    <3>1. fate' = fate
      BY <2>2, <2>6 DEF TypeOK
    <3> QED
      BY <2>2, <2>4, <2>6, <3>1 DEF TurnEnds
  <2> QED
    BY <2>5, <2>6
<1>3. ASSUME NEW r \in AccountStates, NEW c \in BOOLEAN, Conclude(r, c),
             pc \in {"expired", "quiet", "commit"},
             UNCHANGED <<env, archived, mode, seen, ghosts>>,
             \A q \in AccountStates :
                /\ q.cursor = r.cursor /\ q.ring = r.ring /\ q.dropped = r.dropped
                /\ q.stalled # 0 => r.cursor = mem[acct].cursor /\ ~work.progressed /\ ~c
                => Concluding(q)
      PROVE  TurnEnds
  <2>1. PICK q \in AccountStates :
              /\ q.cursor = r.cursor /\ q.ring = r.ring /\ q.dropped = r.dropped
              /\ q.stalled # 0 => r.cursor = mem[acct].cursor /\ ~work.progressed /\ ~c
              /\ work' = NoWork
              /\ \/ pc' = "finish" /\ at = Len(Clients) /\ at' = at
                 \/ pc' = "account" /\ at # Len(Clients) /\ at' = at + 1
              /\ stats'.expired = stats.expired /\ stats'.messageErrors >= stats.messageErrors
              /\ \/ UNCHANGED <<mem, disk>>
                 \/ Keeps(q) /\ (disk' = mem' \/ (disk' = disk /\ ErrorCounted))
    BY <1>3, ConcludeShape
  <2>2. Concluding(q)
    BY <1>3, <2>1
  <2>3. UNCHANGED <<mem, disk, fate>> \/ Concluded
    BY <1>3, <2>1, <2>2 DEF Concluded, ghosts
  <2> QED
    BY <1>3, <2>1, <2>3 DEF TurnEnds, ghosts
<1>4. CASE ResetExpired
  <2>0. pc = "expired" /\ UNCHANGED <<env, archived, mode, seen, ghosts>>
    BY <1>4 DEF ResetExpired
  <2>1. CASE Conclude([mem[acct] EXCEPT !.cursor = profile[acct]], FALSE)
    <3> DEFINE r == [mem[acct] EXCEPT !.cursor = profile[acct]]
    <3>1. /\ r \in AccountStates /\ r.cursor = profile[acct] /\ r.ring = mem[acct].ring
          /\ r.dropped = mem[acct].dropped
      BY <1>0 DEF AccountStates
    <3> HIDE DEF r
    <3>2. Conclude(r, FALSE)
      BY <2>1 DEF r
    <3> QED
      BY <1>3, <2>0, <3>1, <3>2 DEF Concluding, ResetRecord
  <2>2. CASE GiveUp(mem, "messageErrors")
    BY <1>0, <2>0, <2>2, GiveUpShape DEF TurnEnds, ghosts
  <2> QED
    BY <1>4, <2>1, <2>2 DEF ResetExpired
<1>5. CASE QuietTurn
  <2>0. pc = "quiet" /\ UNCHANGED <<env, archived, mode, seen, ghosts>>
    BY <1>5 DEF QuietTurn
  <2>1. ASSUME NEW cursor \in NextCursors,
               Conclude([mem[acct] EXCEPT !.cursor = cursor],
                        work.listed = {} \/ ~work.truncated)
        PROVE  TurnEnds
    <3> DEFINE r == [mem[acct] EXCEPT !.cursor = cursor]
               c == work.listed = {} \/ ~work.truncated
    <3>0. cursor \in Nat
      BY NextCursorsNat
    <3>1. /\ r \in AccountStates /\ r.cursor = cursor /\ r.ring = mem[acct].ring
          /\ r.dropped = mem[acct].dropped
      BY <1>0, <3>0 DEF AccountStates
    <3>2. c \in BOOLEAN /\ (~c => work.truncated /\ work.listed # {})
      OBVIOUS
    <3>3. Conclude(r, c)
      BY <2>1
    <3> HIDE DEF r, c
    <3> QED
      BY <1>3, <2>0, <3>1, <3>2, <3>3 DEF Concluding, QuietRecord
  <2>2. CASE GiveUp(Aliased, "messageErrors")
    BY <2>0, <2>2, CutShape
  <2> QED
    BY <1>5, <2>1, <2>2 DEF QuietTurn
<1>6. CASE Commit
  <2> DEFINE cursors == IF work.truncated \/ ~work.capped THEN NextCursors
                        ELSE {mem[acct].cursor}
  <2>0. pc = "commit" /\ UNCHANGED <<env, archived, mode, seen, ghosts>>
    BY <1>6 DEF Commit
  <2>1. ASSUME NEW cursor \in cursors,
               Conclude([mem[acct] EXCEPT !.cursor = cursor, !.kept = TRUE,
                            !.ring = LastN(work.ring, RingMax),
                            !.strikes = LastN(work.strikes, MaxTracked)], FALSE)
        PROVE  TurnEnds
    <3> DEFINE r == [mem[acct] EXCEPT !.cursor = cursor, !.kept = TRUE,
                        !.ring = LastN(work.ring, RingMax),
                        !.strikes = LastN(work.strikes, MaxTracked)]
    <3>1. cursor \in Nat
      BY <1>0, NextCursorsNat DEF AccountStates
    <3>2. LastN(work.ring, RingMax) \in Seq(Messages)
          /\ LastN(work.strikes, MaxTracked) \in Seq(Strikes)
      BY LastNType, BoundsAssumption DEF TypeOK, Works
    <3>3. /\ r \in AccountStates /\ r.cursor = cursor /\ r.ring = LastN(work.ring, RingMax)
          /\ r.dropped = mem[acct].dropped
      BY <1>0, <3>1, <3>2 DEF AccountStates
    <3>4. Conclude(r, FALSE)
      BY <2>1
    <3> HIDE DEF r
    <3> QED
      BY <1>3, <2>0, <3>3, <3>4 DEF Concluding, CommitRecord
  <2>2. CASE GiveUp(Aliased, "messageErrors")
    BY <2>0, <2>2, CutShape
  <2> QED
    BY <1>6, <2>1, <2>2 DEF Commit
<1> QED
  BY <1>1, <1>2, <1>4, <1>5, <1>6 DEF TurnStep

(* Every step is one of these. *)
LEMMA NextShape ==
    ASSUME TypeOK, [Next]_vars
    PROVE  \/ MessageStep \/ List \/ ListExpired \/ ArchiveBatch \/ TurnEnds
           \/ StartRun \/ Return \/ Reject \/ Crash
           \/ Deliver \/ Expire \/ UNCHANGED vars
  BY TurnShape DEF Next, RunStep

-----------------------------------------------------------------------------
(* What a run holds when it is not in the middle of an account's turn, and    *)
(* that only a live run collects messages to archive.                         *)
Resting ==
    /\ ~InTurn => work = NoWork
    /\ pc = "idle" => seen = {} /\ mem = disk
    /\ ~Durable => work.toArchive = {}
    /\ pc = "archive" => work.toArchive # {}

LEMMA InitResting == Init => Resting
  BY DEF Init, Resting, InTurn, NoWork

LEMMA NextResting == TypeOK /\ Resting /\ [Next]_vars => Resting'
<1> SUFFICES ASSUME TypeOK, Resting, [Next]_vars PROVE Resting'
  OBVIOUS
<1> USE DEF Resting, InTurn
<1>1. CASE MessageStep
  <2>1. Consumed /\ (Held \/ Retires \/ IsHandled \/ Drops)
    BY <1>1, MessageShape
  <2>2. ~Durable => work'.toArchive = work.toArchive
    BY <2>1 DEF Held, Retires, IsHandled, Drops, Rings
  <2> QED
    BY <2>1, <2>2 DEF Consumed, Durable
<1>2. CASE List
  <2>1. /\ pc' \in {"quiet", "message"} /\ work'.toArchive = {}
    BY <1>2 DEF List, Begin, NoWork
  <2> QED
    BY <2>1
<1>3. CASE ListExpired
  BY <1>3 DEF ListExpired, Durable
<1>4. CASE ArchiveBatch
  BY <1>4 DEF ArchiveBatch, Durable
<1>5. CASE TurnEnds
  BY <1>5 DEF TurnEnds, NoWork
<1>6. CASE StartRun
  BY <1>6 DEF StartRun, NoWork
<1>7. CASE Return \/ Reject \/ Crash
  BY <1>7 DEF Return, Reject, Crash, NoWork
<1>8. CASE Deliver \/ Expire \/ UNCHANGED vars
  BY <1>8 DEF Deliver, Expire, vars, Durable
<1> QED
  BY <1>1, <1>2, <1>3, <1>4, <1>5, <1>6, <1>7, <1>8, NextShape

(* dryRun (poll.js 159, 189-201, 440-447): whatever the handler, the mailbox  *)
(* and the failing calls do, no step of a run that is not live touches the    *)
(* state file, the inbox or what has become of a message.                     *)
THEOREM DryRunIsInert == Spec => DryRunLeavesNoTrace
<1>1. ASSUME TypeOK, Resting, [Next]_vars, pc # "idle", mode # "live"
      PROVE  UNCHANGED <<disk, archived, fate, calls>>
  <2> USE <1>1 DEF Resting, InTurn, Durable
  <2>1. CASE MessageStep
    BY <2>1, MessageShape DEF Consumed, Held, Retires, IsHandled, Drops, Rings
  <2>2. CASE List \/ ListExpired
    BY <2>2 DEF List, ListExpired, ghosts
  <2>3. CASE ArchiveBatch
    BY <2>3 DEF ArchiveBatch
  <2>4. CASE TurnEnds
    BY <2>4 DEF TurnEnds, Seeded, Concluded, CutShort, Keeps
  <2>5. CASE StartRun \/ Return \/ Reject \/ Crash
    BY <2>5 DEF StartRun, Return, Reject, Crash, ghosts
  <2>6. CASE Deliver \/ Expire \/ UNCHANGED vars
    BY <2>6 DEF Deliver, Expire, vars, ghosts
  <2> QED
    BY <2>1, <2>2, <2>3, <2>4, <2>5, <2>6, NextShape
<1>2. TypeOK /\ Resting /\ [Next]_vars
      => [(pc # "idle" /\ mode # "live") => UNCHANGED <<disk, archived, fate, calls>>]_vars
  BY <1>1
<1> QED
  BY <1>2, InitType, NextType, InitResting, NextResting, PTL DEF Spec, DryRunLeavesNoTrace

-----------------------------------------------------------------------------
(* Slices hold nothing new. *)
LEMMA SliceRange ==
    ASSUME NEW S, NEW s \in Seq(S), NEW n \in Nat
    PROVE  /\ Range(Take(s, n)) \subseteq Range(s)
           /\ Range(LastN(s, n)) \subseteq Range(s)
           /\ s # <<>> /\ n > 0 => Take(s, n) # <<>>
           /\ Len(s) <= n => Range(s) \subseteq Range(Take(s, n))
           /\ s # <<>> => Range(Tail(s)) \subseteq Range(s) /\ Head(s) \in Range(s)
<1>1. Len(s) \in Nat /\ DOMAIN s = 1..Len(s) /\ (s # <<>> => Len(s) > 0)
  BY EmptySeq
<1>2. ASSUME NEW i \in 1..Len(s)+1, NEW j \in 0..Len(s)
      PROVE  /\ Range(SubSeq(s, i, j)) \subseteq Range(s)
             /\ i <= j => SubSeq(s, i, j) # <<>>
             /\ i = 1 /\ j = Len(s) => Range(s) \subseteq Range(SubSeq(s, i, j))
  <2>1. /\ SubSeq(s, i, j) \in Seq(S)
        /\ Len(SubSeq(s, i, j)) = IF i <= j THEN j - i + 1 ELSE 0
        /\ \A k \in 1..(j - i + 1) : SubSeq(s, i, j)[k] = s[i + k - 1]
    BY <1>1, SubSeqProperties
  <2>2. \A k \in DOMAIN SubSeq(s, i, j) : SubSeq(s, i, j)[k] \in Range(s)
    BY <1>1, <2>1 DEF Range
  <2>3. i <= j => SubSeq(s, i, j) # <<>>
    BY <1>1, <2>1, EmptySeq
  <2>4. i = 1 /\ j = Len(s)
        => \A k \in DOMAIN s : k \in DOMAIN SubSeq(s, i, j) /\ SubSeq(s, i, j)[k] = s[k]
    BY <1>1, <2>1
  <2> QED
    BY <2>2, <2>3, <2>4 DEF Range
<1>3. /\ Range(Take(s, n)) \subseteq Range(s)
      /\ s # <<>> /\ n > 0 => Take(s, n) # <<>>
      /\ Len(s) <= n => Range(s) \subseteq Range(Take(s, n))
  <2> DEFINE k == IF n < Len(s) THEN n ELSE Len(s)
  <2>1. k \in 0..Len(s) /\ 1 \in 1..Len(s)+1 /\ (s # <<>> /\ n > 0 => 1 <= k)
    BY <1>1
  <2>2. Len(s) <= n => k = Len(s)
    <3>1. Len(s) \in Nat
      BY <1>1
    <3>2. Len(s) <= n => ~(n < Len(s))
      BY <3>1
    <3> QED
      BY <3>2
  <2>3. Take(s, n) = SubSeq(s, 1, k)
    BY DEF Take
  <2> HIDE DEF k
  <2>4. Range(SubSeq(s, 1, k)) \subseteq Range(s) /\ (1 <= k => SubSeq(s, 1, k) # <<>>)
        /\ (k = Len(s) => Range(s) \subseteq Range(SubSeq(s, 1, k)))
    BY <1>2, <2>1
  <2> QED
    BY <2>1, <2>2, <2>3, <2>4
<1>4. Range(LastN(s, n)) \subseteq Range(s)
  <2> DEFINE k == IF n < Len(s) THEN Len(s) - n + 1 ELSE 1
  <2>1. k \in 1..Len(s)+1 /\ Len(s) \in 0..Len(s)
    BY <1>1
  <2> QED
    BY <1>2, <2>1 DEF LastN
<1>5. s # <<>> => Range(Tail(s)) \subseteq Range(s) /\ Head(s) \in Range(s)
  <2> SUFFICES ASSUME s # <<>> PROVE Range(Tail(s)) \subseteq Range(s) /\ Head(s) \in Range(s)
    OBVIOUS
  <2>1. /\ Tail(s) \in Seq(S) /\ Len(Tail(s)) = Len(s) - 1
        /\ \A k \in 1..Len(s)-1 : Tail(s)[k] = s[k + 1]
    BY HeadTailProperties
  <2>2. \A k \in DOMAIN Tail(s) : Tail(s)[k] \in Range(s)
    BY <1>1, <2>1 DEF Range
  <2>3. Head(s) = s[1] /\ 1 \in DOMAIN s
    BY <1>1
  <2> QED
    BY <2>2, <2>3 DEF Range
<1> QED
  BY <1>3, <1>4, <1>5

(* A mailbox enumerates each message of a set, and no other. *)
LEMMA InOrderRange ==
    ASSUME NEW T \in SUBSET Messages, NEW t \in InOrder(T)
    PROVE  t \in Seq(T) /\ Range(t) = T /\ IsInjective(t)
<1> DEFINE n == Cardinality(T)
<1>1. n \in Nat /\ IsFiniteSet(T)
  BY MailAssumption, FS_Subset, FS_CardinalityType
<1>2. t \in [1..n -> T] /\ \A i, j \in 1..n : i < j => t[i] < t[j]
  BY DEF InOrder
<1> HIDE DEF n
<1>3. ASSUME NEW i \in 1..n, NEW j \in 1..n, t[i] = t[j]
      PROVE  i = j
  <2>1. t[i] \in Nat /\ t[j] \in Nat
    BY <1>2, MailAssumption
  <2>2. ~(t[i] < t[j]) /\ ~(t[j] < t[i])
    BY <1>3, <2>1
  <2> QED
    BY <1>1, <1>2, <2>2
<1>4. t \in Injection(1..n, T)
  BY <1>2, <1>3 DEF Injection, IsInjective
<1>5. Cardinality(1..n) = n
  BY <1>1, FS_Interval
<1>6. Cardinality(1..n) = Cardinality(T)
  BY <1>5 DEF n
<1>7. t \in Surjection(1..n, T)
  BY <1>1, <1>4, <1>6, FS_Injection
<1>8. IsInjective(t)
  BY <1>4 DEF Injection
<1> QED
  BY <1>1, <1>2, <1>7, <1>8 DEF Surjection, Range

LEMMA EnumerationsRange ==
    ASSUME TypeOK, NEW S \in SUBSET Messages, NEW r \in Nat, NEW q \in Enumerations(S, r)
    PROVE  Range(q) = S
<1> DEFINE X == {m \in S : hist[m] <= r}
           Y == {m \in S : hist[m] = r}
           Z == {m \in S : hist[m] > r}
<1>1. X \in SUBSET Messages /\ Y \in SUBSET Messages /\ Z \in SUBSET Messages
      /\ Y \subseteq S /\ S = X \cup Z
  BY DEF TypeOK
<1>2. q \in ListedInTurn(X, Y, Z)
  BY DEF Enumerations
<1> HIDE DEF X, Y, Z
<1>3. PICK x \in InOrder(X), y \in InOrder(Y), z \in InOrder(Z) : q = x \o y \o z
  BY <1>2 DEF ListedInTurn
<1>4. /\ x \in Seq(X) /\ y \in Seq(Y) /\ z \in Seq(Z)
      /\ Range(x) = X /\ Range(y) = Y /\ Range(z) = Z
  BY <1>1, InOrderRange
<1>5. x \in Seq(S) /\ y \in Seq(S) /\ z \in Seq(S)
  BY <1>1, <1>4
<1>6. /\ Range(x \o y) = Range(x) \cup Range(y) /\ x \o y \in Seq(S)
      /\ Range((x \o y) \o z) = Range(x \o y) \cup Range(z)
  <2>1. ASSUME NEW u \in Seq(S), NEW v \in Seq(S)
        PROVE  Range(u \o v) = Range(u) \cup Range(v) /\ u \o v \in Seq(S)
    <3>1. /\ u \o v \in Seq(S) /\ Len(u \o v) = Len(u) + Len(v)
          /\ \A i \in 1..Len(u) + Len(v) :
                (u \o v)[i] = IF i <= Len(u) THEN u[i] ELSE v[i - Len(u)]
      BY ConcatProperties
    <3>2. Len(u) \in Nat /\ Len(v) \in Nat /\ DOMAIN u = 1..Len(u) /\ DOMAIN v = 1..Len(v)
          /\ DOMAIN (u \o v) = 1..Len(u) + Len(v)
      BY <3>1
    <3>3. \A i \in DOMAIN u : i \in DOMAIN (u \o v) /\ (u \o v)[i] = u[i]
      BY <3>1, <3>2
    <3>4. \A i \in DOMAIN v : i + Len(u) \in DOMAIN (u \o v) /\ (u \o v)[i + Len(u)] = v[i]
      BY <3>1, <3>2
    <3>5. \A i \in DOMAIN (u \o v) : \/ i \in DOMAIN u /\ (u \o v)[i] = u[i]
                                     \/ i - Len(u) \in DOMAIN v /\ (u \o v)[i] = v[i - Len(u)]
      BY <3>1, <3>2
    <3>6. Range(u) \subseteq Range(u \o v)
      BY <3>3 DEF Range
    <3>7. Range(v) \subseteq Range(u \o v)
      BY <3>4 DEF Range
    <3>8. Range(u \o v) \subseteq Range(u) \cup Range(v)
      BY <3>5 DEF Range
    <3> QED
      BY <3>1, <3>6, <3>7, <3>8
  <2> QED
    BY <1>5, <2>1
<1> QED
  BY <1>1, <1>3, <1>4, <1>6

(* What a listing puts in the turn's locals: part of the window, and a batch  *)
(* of it that the ring does not hold.                                         *)
Listed ==
    /\ pc = "account" /\ pc' \in {"quiet", "message"}
    /\ \E record : work'.listed \in ListingsOf(acct, record)
    /\ work'.listed \subseteq Window(acct)
    /\ work'.truncated = (work'.listed # Window(acct))
    /\ Range(work'.todo) \subseteq work'.listed \ Range(mem[acct].ring)
    /\ ~work'.capped => work'.listed \ Range(mem[acct].ring) \subseteq Range(work'.todo)
    /\ pc' = "quiet" => work'.todo = <<>>
    /\ pc' = "message" => Head(work'.todo) \in Range(work'.todo)
    /\ work'.ring = mem[acct].ring
    /\ work'.progressed = FALSE /\ work'.toArchive = {}
    /\ pc' = "quiet" /\ MaxPerRun > 0 => ~work'.capped
    /\ mem[acct].cursor # 0
    /\ UNCHANGED <<env, archived, disk, mem, at, mode, seen, ghosts>>
    /\ stats'.messageErrors = stats.messageErrors /\ stats'.expired = stats.expired

LEMMA ListShape ==
    ASSUME TypeOK, List
    PROVE  Listed
<1>1. PICK record \in Overlaps(acct) : \E listed \in ListingsOf(acct, record) :
           \E batch \in Enumerations(listed \ Range(mem[acct].ring), record) :
              Begin(listed, batch)
  BY DEF List
<1>2. PICK listed \in ListingsOf(acct, record) :
           \E batch \in Enumerations(listed \ Range(mem[acct].ring), record) :
              Begin(listed, batch)
  BY <1>1
<1>3. PICK batch \in Enumerations(listed \ Range(mem[acct].ring), record) :
           Begin(listed, batch)
  BY <1>2
<1>4. listed \subseteq Window(acct) /\ listed \ Range(mem[acct].ring) \in SUBSET Messages
  BY ListedInWindow DEF Window
<1>5. batch \in Seq(Messages) /\ Range(batch) = listed \ Range(mem[acct].ring)
  <2>1. record \in Nat
    BY DEF Overlaps, Window, TypeOK
  <2> QED
    BY <1>4, <2>1, EnumerationsType, EnumerationsRange
<1> DEFINE todo == Take(batch, MaxPerRun)
<1>6. /\ Range(todo) \subseteq listed \ Range(mem[acct].ring)
      /\ todo \in Seq(Messages)
      /\ Len(batch) > MaxPerRun /\ MaxPerRun > 0 => todo # <<>>
      /\ ~(Len(batch) > MaxPerRun) => listed \ Range(mem[acct].ring) \subseteq Range(todo)
  <2>1. MaxPerRun \in Nat /\ (Len(batch) > MaxPerRun => batch # <<>>) /\ Len(batch) \in Nat
    BY <1>5, BoundsAssumption, EmptySeq
  <2>2. /\ Range(todo) \subseteq Range(batch)
        /\ batch # <<>> /\ MaxPerRun > 0 => todo # <<>>
        /\ Len(batch) <= MaxPerRun => Range(batch) \subseteq Range(todo)
    BY <1>5, <2>1, SliceRange
  <2>3. todo \in Seq(Messages)
    BY <1>5, <2>1, TakeType
  <2> HIDE DEF todo
  <2> QED
    BY <1>5, <2>1, <2>2, <2>3
<1>7. /\ work'.listed = listed /\ work'.truncated = (listed # Window(acct))
      /\ work'.capped = (Len(batch) > MaxPerRun) /\ work'.todo = todo
      /\ work'.ring = mem[acct].ring
      /\ work'.progressed = FALSE /\ work'.toArchive = {}
      /\ pc' = IF todo = <<>> THEN "quiet" ELSE "message"
      /\ stats'.messageErrors = stats.messageErrors /\ stats'.expired = stats.expired
  BY <1>3 DEF Begin, NoWork, TypeOK, Counters
<1>8. todo # <<>> => Head(todo) \in Range(todo)
  BY <1>6, SliceRange, BoundsAssumption
<1> HIDE DEF todo
<1>9. /\ pc = "account" /\ mem[acct].cursor # 0
      /\ UNCHANGED <<env, archived, disk, mem, at, mode, seen, ghosts>>
  BY DEF List
<1> QED
  BY <1>2, <1>4, <1>6, <1>7, <1>8, <1>9 DEF Listed

-----------------------------------------------------------------------------
(* What leaves the inbox.  archived only grows by the batch the turn          *)
(* collected, so the batch must be sound while the loop still runs, and the   *)
(* owner of a collected message is the account in turn only because the batch *)
(* is part of a window listed for that account.                               *)
HandledMail(m) ==
    /\ fate[m] = "handled" /\ Owner[m] \in Archiving \ ReadOnly
    /\ Kind[m] \notin {"sent", "sentAuto", "sentSelf", "excluded"}
BatchListed == InTurn => Range(work.todo) \subseteq work.listed
ArchiveSound == \A m \in archived \cup work.toArchive : HandledMail(m)

(* What has become of a message is settled once, except that a drop no write  *)
(* kept is superseded; and no settled message is ever pending again.          *)
FatesSettle ==
    \A m \in Messages :
        /\ fate[m] = "handled" => fate'[m] = "handled"
        /\ fate[m] # "pending" => fate'[m] # "pending"
        /\ fate[m] \notin {"pending", "quarantined"} => fate'[m] # "quarantined"

LEMMA BecomesSettles ==
    ASSUME TypeOK, NEW m, NEW f \in Fates \ {"pending"}, Becomes(m, f)
    PROVE  FatesSettle
  BY DEF Becomes, FatesSettle, TypeOK, Fates

LEMMA NextSettles ==
    ASSUME TypeOK, [Next]_vars
    PROVE  FatesSettle
<1>1. CASE MessageStep
  <2>1. Held \/ Retires \/ IsHandled \/ Drops
    BY <1>1, MessageShape
  <2>2. CASE Held
    BY <2>2 DEF Held, FatesSettle
  <2>3. CASE Retires
    <3>1. PICK f \in {"gone", "mistaken", "screened", "duplicate"} : Becomes(id, f)
      BY <2>3 DEF Retires
    <3>2. f \in Fates \ {"pending"}
      BY DEF Fates
    <3> QED
      BY <3>1, <3>2, BecomesSettles
  <2>4. CASE IsHandled
    BY <2>4 DEF IsHandled, FatesSettle, TypeOK
  <2>5. CASE Drops
    <3>1. "quarantined" \in Fates \ {"pending"} /\ Becomes(id, "quarantined")
      BY <2>5 DEF Fates, Drops
    <3> QED
      BY <3>1, BecomesSettles
  <2> QED
    BY <2>1, <2>2, <2>3, <2>4, <2>5
<1>2. CASE TurnEnds
  <2>1. fate' = fate \/ Skips
    BY <1>2 DEF TurnEnds, Seeded, Concluded, CutShort
  <2> QED
    BY <2>1 DEF Skips, FatesSettle
<1>3. CASE UNCHANGED fate
  BY <1>3 DEF FatesSettle
<1> QED
  BY <1>1, <1>2, <1>3, NextShape
     DEF List, ListExpired, ArchiveBatch, StartRun, Return, Reject, Crash, Deliver, Expire,
         vars, ghosts

LEMMA InitArchive == Init => BatchListed /\ ArchiveSound
  BY DEF Init, BatchListed, ArchiveSound, InTurn, NoWork

LEMMA NextBatchListed ==
    ASSUME TypeOK, BatchListed, [Next]_vars
    PROVE  BatchListed'
<1> USE DEF BatchListed, InTurn
<1>1. CASE MessageStep
  <2>1. Consumed /\ work.todo \in Seq(Messages) /\ work.todo # <<>>
    BY <1>1, MessageShape DEF Consumed, TypeOK, Works
  <2>2. Range(work'.todo) \subseteq Range(work.todo)
    BY <2>1, SliceRange, BoundsAssumption DEF Consumed
  <2> QED
    BY <2>1, <2>2 DEF Consumed
<1>2. CASE List
  <2>1. Range(work'.todo) \subseteq work'.listed
    BY <1>2, ListShape DEF Listed
  <2> QED
    BY <2>1
<1>3. CASE ArchiveBatch
  BY <1>3 DEF ArchiveBatch
<1>4. CASE ListExpired \/ TurnEnds \/ StartRun \/ Return \/ Reject \/ Crash
  BY <1>4 DEF ListExpired, TurnEnds, StartRun, Return, Reject, Crash
<1>5. CASE Deliver \/ Expire \/ UNCHANGED vars
  BY <1>5 DEF Deliver, Expire, vars
<1> QED
  BY <1>1, <1>2, <1>3, <1>4, <1>5, NextShape

LEMMA NextArchive ==
    ASSUME TypeOK, CursorInv, Resting, BatchListed, ArchiveSound, [Next]_vars
    PROVE  ArchiveSound'
<1> SUFFICES ASSUME NEW m \in archived' \cup work'.toArchive
             PROVE  HandledMail(m)'
  BY DEF ArchiveSound
<1>1. ASSUME m \in archived \cup work.toArchive
      PROVE  HandledMail(m)'
  <2>1. m \in Messages /\ HandledMail(m)
    BY <1>1 DEF ArchiveSound, TypeOK, Works
  <2>2. FatesSettle
    BY NextSettles
  <2> QED
    BY <2>1, <2>2 DEF HandledMail, FatesSettle
<1>2. CASE MessageStep
  <2>1. Consumed /\ (Held \/ Retires \/ IsHandled \/ Drops)
    BY <1>2, MessageShape
  <2>2. archived' = archived
    BY <2>1 DEF Consumed
  <2>3. CASE work'.toArchive = work.toArchive
    BY <1>1, <2>2, <2>3
  <2>4. CASE IsHandled /\ ShouldArchive(id) /\ work'.toArchive = work.toArchive \cup {id}
    <3>1. CASE m = id
      <4>1. Owner[id] = acct
        <5>1. pc = "message" /\ work.todo \in Seq(Messages) /\ work.todo # <<>>
          BY <2>1 DEF Consumed, TypeOK, Works
        <5>2. id \in Range(work.todo)
          BY <5>1, SliceRange, BoundsAssumption DEF id
        <5> QED
          BY <5>1, <5>2 DEF BatchListed, InTurn, CursorInv, WindowBeyond
      <4>2. fate'[id] = "handled"
        BY <2>1, <2>4 DEF IsHandled, Consumed, TypeOK
      <4>3. id \in Messages /\ Kind[id] \in Kinds /\ Kind[id] # "excluded"
            /\ Kind[id] \notin {"sent", "sentAuto", "sentSelf"}
            /\ acct \in Archiving \ ReadOnly
        <5>1. id \in Messages
          BY <2>1 DEF Consumed
        <5>2. ~Screened(id) /\ ShouldArchive(id) /\ acct \in Accounts
          BY <2>4, AcctType DEF IsHandled
        <5> QED
          BY <5>1, <5>2, MailAssumption DEF Screened, ShouldArchive, IsSent
      <4> QED
        BY <3>1, <4>1, <4>2, <4>3 DEF HandledMail
    <3> QED
      BY <1>1, <2>2, <2>4, <3>1
  <2> QED
    BY <2>1, <2>3, <2>4 DEF Held, Retires, IsHandled, Drops
<1>3. CASE List
  BY <1>1, <1>3, ListShape DEF Listed
<1>4. CASE ArchiveBatch
  BY <1>1, <1>4 DEF ArchiveBatch
<1>5. CASE TurnEnds
  BY <1>1, <1>5 DEF TurnEnds, NoWork
<1>6. CASE ListExpired \/ StartRun \/ Return \/ Reject
  BY <1>1, <1>6 DEF ListExpired, StartRun, Return, Reject
<1>7. CASE Crash
  BY <1>1, <1>7 DEF Crash, NoWork
<1>8. CASE Deliver \/ Expire \/ UNCHANGED vars
  BY <1>1, <1>8 DEF Deliver, Expire, vars
<1> QED
  BY <1>2, <1>3, <1>4, <1>5, <1>6, <1>7, <1>8, NextShape

(* poll.js 457-461, 492-506: for every mix of accounts and kinds of mail, and *)
(* whatever fails: only received mail the handler took leaves the inbox, and  *)
(* never in a read-only or noArchive account.                                 *)
THEOREM OnlyHandledMailLeaves == Spec => []ArchivedWasHandled
<1>1. ArchiveSound => ArchivedWasHandled
  BY DEF ArchiveSound, ArchivedWasHandled, HandledMail
<1> QED
  BY <1>1, InitType, NextType, InitCursor, NextCursorInv, InitResting, NextResting,
     InitArchive, NextBatchListed, NextArchive, PTL DEF Spec

-----------------------------------------------------------------------------
(* When a turn counts as stalled.  A turn that lists anything beyond the ring *)
(* keeps a message that the ring on entry did not hold; one that made no      *)
(* progress adds nothing to the ring; and an expired cursor lies below now,   *)
(* so that its reset moves it.                                                *)
StallSound ==
    /\ \A a \in Accounts : retained[a] <= profile[a]
    /\ pc = "expired" => mem[acct].cursor < retained[acct]
    /\ pc = "quiet" => work.ring = mem[acct].ring
    /\ pc \in {"message", "archive", "commit"} =>
        /\ ~work.progressed => Range(work.ring) = Range(mem[acct].ring)
        /\ \E m \in work.listed : m \notin Range(mem[acct].ring)

LEMMA InitStall == Init => StallSound
  BY DEF Init, StallSound

LEMMA LoopStall ==
    ASSUME TypeOK, StallSound, MessageStep
    PROVE  StallSound'
<1>1. Consumed /\ (Held \/ Retires \/ IsHandled \/ Drops)
  BY MessageShape
<1>2. pc = "message" /\ UNCHANGED <<env, at>> /\ work'.listed = work.listed
      /\ pc' \in {"message", "archive", "commit"} /\ acct' = acct /\ acct \in Accounts
  BY <1>1, AcctType DEF Consumed, acct
<1>3. /\ \A a \in Accounts : mem'[a].ring = mem[a].ring
  <2>1. mem' = mem \/ mem' = [mem EXCEPT ![acct].dropped = LastN(Append(@, id), QuarantineMax)]
    BY <1>1 DEF Held, Retires, IsHandled, Drops
  <2>2. mem \in AccountMap
    BY DEF TypeOK, AccountMap
  <2> QED
    BY <1>2, <2>1, <2>2 DEF AccountMap, AccountStates
<1>4. ~work'.progressed => ~work.progressed /\ Range(work'.ring) = Range(work.ring)
  BY <1>1 DEF Held, Retires, IsHandled, Drops, Rings
<1> QED
  BY <1>2, <1>3, <1>4 DEF StallSound, env

LEMMA NextStall ==
    ASSUME TypeOK, CursorInv, Resting, StallSound, [Next]_vars
    PROVE  StallSound'
<1> USE DEF StallSound
<1>0. \A a \in Accounts : retained[a] \in Nat /\ profile[a] \in Nat
  BY DEF TypeOK
<1>1. CASE MessageStep
  BY <1>1, LoopStall
<1>2. CASE List
  <2>1. Listed /\ acct' = acct
    BY <1>2, ListShape DEF Listed, acct
  <2>2. pc' = "message" => \E m \in work'.listed : m \notin Range(mem[acct].ring)
    BY <2>1 DEF Listed
  <2> QED
    BY <2>1, <2>2 DEF Listed, env
<1>3. CASE ListExpired
  BY <1>3 DEF ListExpired, env, acct
<1>4. CASE ArchiveBatch
  BY <1>4 DEF ArchiveBatch, env, acct
<1>5. CASE TurnEnds
  BY <1>5 DEF TurnEnds, env
<1>6. CASE StartRun \/ Return \/ Reject \/ Crash
  BY <1>6 DEF StartRun, Return, Reject, Crash, env
<1>7. CASE Deliver
  <2>1. UNCHANGED <<retained, mem, pc, at, work>>
    BY <1>7 DEF Deliver
  <2>2. PICK a \in Accounts : profile' = [profile EXCEPT ![a] = @ + 1]
    BY <1>7 DEF Deliver
  <2>3. profile \in [Accounts -> Nat]
    BY DEF TypeOK
  <2>4. \A b \in Accounts : profile'[b] >= profile[b] /\ profile'[b] \in Nat
    BY <2>2, <2>3
  <2> QED
    BY <1>0, <2>1, <2>4 DEF acct
<1>8. CASE Expire
  <2>1. UNCHANGED <<profile, mem, pc, at, work>>
    BY <1>8 DEF Expire
  <2>2. PICK a \in Accounts : retained[a] < profile[a]
                              /\ retained' = [retained EXCEPT ![a] = profile[a]]
    BY <1>8 DEF Expire
  <2>3. retained \in [Accounts -> Nat]
    BY DEF TypeOK
  <2>4. \A b \in Accounts : retained'[b] >= retained[b] /\ retained'[b] <= profile[b]
    BY <1>0, <2>2, <2>3
  <2>5. pc = "expired" => acct \in Accounts /\ mem[acct].cursor \in Nat
    BY AcctType DEF TypeOK, AccountStates
  <2>6. pc' = "expired" => mem'[acct'].cursor < retained'[acct']
    BY <1>0, <2>1, <2>3, <2>4, <2>5, <2>2 DEF acct
  <2> QED
    BY <2>1, <2>4, <2>6 DEF acct
<1>9. CASE UNCHANGED vars
  BY <1>9 DEF vars, env, acct
<1> QED
  BY <1>1, <1>2, <1>3, <1>4, <1>5, <1>6, <1>7, <1>8, <1>9, NextShape

(* nextCursor on a truncated window: it parks, or it answers with a listed    *)
(* record at or below which every listed message is ringed.                   *)
LEMMA WatermarkMeaning ==
    ASSUME TypeOK, NEW c \in Watermarks(work.listed, work.ring, mem[acct].cursor)
    PROVE  \/ /\ c = mem[acct].cursor
              /\ work.listed = {} \/ \E h \in work.listed : h \notin Range(work.ring)
           \/ \E k \in work.listed : /\ c = hist[k]
                                     /\ \A m \in work.listed :
                                           hist[m] <= hist[k] => m \in Range(work.ring)
<1> DEFINE holes == {hist[m] : m \in work.listed \ Range(work.ring)}
           passable == {r \in {hist[m] : m \in work.listed} : \A h \in holes : r < h}
<1>1. work.listed \subseteq Messages /\ hist \in [Messages -> Nat]
  BY DEF TypeOK, Works
<1>2. CASE passable = {}
  <2>1. c = mem[acct].cursor
    BY <1>2 DEF Watermarks
  <2>2. work.listed # {} => holes # {}
    BY <1>2
  <2> QED
    BY <2>1, <2>2
<1>3. CASE passable # {}
  <2>1. c \in passable
    BY <1>3 DEF Watermarks
  <2>2. PICK k \in work.listed : c = hist[k]
    BY <2>1
  <2>3. ASSUME NEW m \in work.listed, hist[m] <= hist[k], m \notin Range(work.ring)
        PROVE  FALSE
    <3>1. hist[m] \in holes
      BY <2>3
    <3>2. c < hist[m]
      BY <2>1, <3>1
    <3>3. hist[m] \in Nat /\ hist[k] \in Nat
      BY <1>1
    <3> QED
      BY <2>2, <2>3, <3>2, <3>3
  <2> QED
    BY <2>2, <2>3
<1> QED
  BY <1>2, <1>3

Backlog(a, record) ==
    \E m \in Messages : /\ Owner[m] = a /\ hist[m] > record.cursor
                        /\ m \notin Range(record.ring)

(* The three records a turn may end with and not be found to have progressed. *)
LEMMA StalledTurn ==
    ASSUME TypeOK, CursorInv, StallSound, NEW r \in AccountStates, Concluding(r),
           r.stalled # 0
    PROVE  Backlog(acct, r)
<1>0. acct \in Accounts /\ mem[acct] \in AccountStates /\ mem[acct].cursor \in Nat
      /\ work \in Works /\ work.listed \subseteq Messages
  BY AcctType DEF TypeOK, AccountStates, Works
<1>1. CASE ResetRecord(r)
  <2>1. mem[acct].cursor < retained[acct] /\ retained[acct] <= profile[acct]
        /\ profile[acct] = mem[acct].cursor
    BY <1>0, <1>1 DEF ResetRecord, StallSound
  <2>2. retained[acct] \in Nat /\ profile[acct] \in Nat
    BY <1>0 DEF TypeOK
  <2> QED
    BY <1>0, <2>1, <2>2
<1>2. CASE QuietRecord(r)
  <2>1. /\ pc = "quiet" /\ work.truncated /\ work.listed # {}
        /\ r.cursor = mem[acct].cursor /\ r.cursor \in NextCursors
        /\ r.ring = work.ring
    BY <1>2 DEF QuietRecord, StallSound
  <2>2. \A m \in work.listed : Owner[m] = acct /\ hist[m] > mem[acct].cursor
    BY <2>1 DEF CursorInv, WindowBeyond
  <2>3. \A m \in work.listed : hist[m] \in Nat
    BY <1>0 DEF TypeOK
  <2>4. r.cursor \in Watermarks(work.listed, work.ring, mem[acct].cursor)
    BY <2>1 DEF NextCursors
  <2>5. \A k \in work.listed : r.cursor # hist[k]
    BY <1>0, <2>1, <2>2, <2>3
  <2>6. \E h \in work.listed : h \notin Range(work.ring)
    BY <2>1, <2>4, <2>5, WatermarkMeaning
  <2> QED
    BY <1>0, <2>1, <2>2, <2>6 DEF Backlog
<1>3. CASE CommitRecord(r)
  <2>1. /\ pc = "commit" /\ r.cursor = mem[acct].cursor /\ ~work.progressed
        /\ r.ring = LastN(work.ring, RingMax)
    BY <1>3 DEF CommitRecord
  <2>2. Range(r.ring) \subseteq Range(mem[acct].ring)
    <3>1. Range(work.ring) = Range(mem[acct].ring) /\ work.ring \in Seq(Messages)
      BY <1>0, <2>1 DEF StallSound, Works
    <3>2. RingMax \in Nat
      BY BoundsAssumption
    <3> QED
      BY <2>1, <3>1, <3>2, SliceRange
  <2>3. PICK m \in work.listed : m \notin Range(mem[acct].ring)
    BY <2>1 DEF StallSound
  <2>4. Owner[m] = acct /\ hist[m] > mem[acct].cursor
    BY <2>1 DEF CursorInv, WindowBeyond
  <2> QED
    BY <1>0, <2>1, <2>2, <2>3, <2>4 DEF Backlog
<1> QED
  BY <1>1, <1>2, <1>3 DEF Concluding

(* noteRun (poll.js 176-208): whatever the mailboxes, the bounds and the      *)
(* failing calls: a turn that raises an account's stall count leaves mail     *)
(* beyond the cursor that its ring does not hold.                             *)
THEOREM StallsAreEarned == Spec => StallMeansBacklog
<1>1. ASSUME TypeOK, CursorInv, Resting, StallSound, [Next]_vars,
             NEW a \in Accounts, mem'[a].stalled > mem[a].stalled, pc # "idle", pc' # "idle"
      PROVE  \E m \in Messages : /\ Owner[m] = a /\ hist[m] > mem'[a].cursor
                                 /\ m \notin Range(mem'[a].ring)
  <2> USE <1>1
  <2>0. mem \in AccountMap /\ acct \in Accounts /\ mem[a].stalled \in 0..StallCap
        /\ StallCap \in Nat
    BY AcctType, BoundsAssumption DEF TypeOK, AccountMap, AccountStates
  <2>1. CASE MessageStep
    <3>1. mem' = mem \/ mem' = [mem EXCEPT ![acct].dropped = LastN(Append(@, id), QuarantineMax)]
      BY <2>1, MessageShape DEF Held, Retires, IsHandled, Drops
    <3>2. mem'[a].stalled = mem[a].stalled
      BY <2>0, <3>1 DEF AccountMap, AccountStates
    <3> QED
      BY <2>0, <3>2
  <2>2. CASE TurnEnds
    <3>1. ASSUME NEW r \in AccountStates, Keeps(r), a # acct
          PROVE  FALSE
      BY <2>0, <3>1 DEF Keeps, AccountMap
    <3>2. ASSUME NEW r \in AccountStates, Keeps(r), a = acct
          PROVE  mem'[a] = r
      BY <2>0, <3>2 DEF Keeps, AccountMap
    <3>3. CASE mem' = mem
      BY <2>0, <3>3
    <3>4. CASE Seeded
      <4>1. PICK r \in AccountStates : Keeps(r) /\ SeedRecord(r)
        BY <3>4 DEF Seeded
      <4>2. r.stalled = 0
        BY <4>1 DEF SeedRecord, Fresh
      <4> QED
        BY <2>0, <3>1, <3>2, <4>1, <4>2
    <3>5. CASE CutShort
      <4>1. PICK r \in AccountStates : Keeps(r) /\ CutRecord(r)
        BY <3>5 DEF CutShort
      <4>2. r.stalled = mem[acct].stalled
        BY <4>1 DEF CutRecord
      <4> QED
        BY <2>0, <3>1, <3>2, <4>1, <4>2
    <3>6. CASE Concluded
      <4>1. PICK r \in AccountStates : Keeps(r) /\ Concluding(r)
        BY <3>6 DEF Concluded
      <4>2. a = acct /\ mem'[a] = r
        BY <3>1, <3>2, <4>1
      <4>3. r.stalled # 0
        BY <2>0, <4>2
      <4> QED
        BY <4>1, <4>2, <4>3, StalledTurn DEF Backlog
    <3> QED
      BY <2>2, <3>3, <3>4, <3>5, <3>6 DEF TurnEnds
  <2>3. CASE StartRun \/ Return \/ Reject \/ Crash
    BY <2>3 DEF StartRun, Return, Reject, Crash
  <2>4. CASE UNCHANGED mem
    BY <2>0, <2>4
  <2> QED
    BY <2>1, <2>2, <2>3, <2>4, NextShape DEF List, ListExpired, ArchiveBatch, Deliver, Expire, vars
<1>2. TypeOK /\ CursorInv /\ Resting /\ StallSound /\ [Next]_vars
      => [\A a \in Accounts :
            mem'[a].stalled > mem[a].stalled /\ pc # "idle" /\ pc' # "idle"
            => \E m \in Messages : /\ Owner[m] = a /\ hist[m] > mem'[a].cursor
                                   /\ m \notin Range(mem'[a].ring)]_vars
  BY <1>1
<1> QED
  BY <1>2, InitType, NextType, InitCursor, NextCursorInv, InitResting, NextResting,
     InitStall, NextStall, PTL DEF Spec, StallMeansBacklog

-----------------------------------------------------------------------------
(* What the ring says of a message.  The ring on disk, the ring of the state  *)
(* object and the ring of the turn may differ, and a name may be on one list  *)
(* of drops and not on another; so each ring is compared with its own list.   *)
Settled(f, ring, record) ==
    \A m \in Range(ring) :
        f[m] # "pending" /\ (f[m] = "quarantined" => Named(record, m))
RingSound ==
    /\ \A a \in Accounts : Settled(fate, disk[a].ring, disk[a]) /\ Settled(fate, mem[a].ring, mem[a])
    /\ InTurn => Settled(fate, work.ring, mem[acct])

(* A list of drops keeps its names, or is full; the newest is always on it. *)
LEMMA NamesKept ==
    ASSUME NEW d \in Seq(Messages), NEW x \in Messages
    PROVE  LET e == LastN(Append(d, x), QuarantineMax)
           IN  /\ x \in Range(e)
               /\ \A m : m \in Range(d) \/ Len(d) = QuarantineMax
                         => m \in Range(e) \/ Len(e) = QuarantineMax
<1> DEFINE s == Append(d, x)
           Q == QuarantineMax
           k == IF Q < Len(s) THEN Len(s) - Q + 1 ELSE 1
           e == SubSeq(s, k, Len(s))
<1>1. /\ s \in Seq(Messages) /\ Len(s) = Len(d) + 1 /\ Len(d) \in Nat
      /\ s[Len(s)] = x /\ \A i \in 1..Len(d) : s[i] = d[i]
  BY AppendProperties
<1>2. Q \in Nat \ {0}
  BY BoundsAssumption
<1> HIDE DEF s, Q
<1>3. k \in 1..Len(s) /\ Len(s) \in Nat
  BY <1>1, <1>2
<1>4. /\ e \in Seq(Messages) /\ Len(e) = Len(s) - k + 1
      /\ \A i \in 1..(Len(s) - k + 1) : e[i] = s[k + i - 1]
  BY <1>1, <1>3, SubSeqProperties
<1>5. LastN(s, Q) = e
  BY DEF LastN
<1>6. x \in Range(e)
  <2>1. Len(s) - k + 1 \in DOMAIN e /\ e[Len(s) - k + 1] = s[Len(s)]
    BY <1>3, <1>4
  <2> QED
    BY <1>1, <2>1 DEF Range
<1>7. ASSUME NEW m, m \in Range(d) \/ Len(d) = Q, Len(e) # Q
      PROVE  m \in Range(e)
  <2>1. k = 1 /\ Len(d) # Q
    BY <1>1, <1>2, <1>3, <1>4, <1>7
  <2>2. PICK i \in 1..Len(d) : d[i] = m
    BY <1>7, <2>1 DEF Range
  <2>3. i \in DOMAIN e /\ e[i] = m
    BY <1>1, <1>4, <2>1, <2>2
  <2> QED
    BY <2>3 DEF Range
<1> HIDE DEF e
<1>8. e = LastN(Append(d, x), QuarantineMax)
  BY <1>5 DEF s, Q
<1> QED
  BY <1>6, <1>7, <1>8 DEF Q

LEMMA SettledStays ==
    ASSUME TypeOK, FatesSettle, NEW ring \in Seq(Messages), NEW r, NEW q,
           Settled(fate, ring, r), \A m \in Messages : Named(r, m) => Named(q, m)
    PROVE  Settled(fate', ring, q)
<1>1. \A m \in Range(ring) : m \in Messages
  BY DEF Range
<1> QED
  BY <1>1 DEF Settled, FatesSettle

LEMMA InitRing == Init => RingSound
<1>1. Range(<<>>) = {}
  BY DEF Range
<1> QED
  BY <1>1 DEF Init, RingSound, Settled, Fresh, InTurn

LEMMA LoopRing ==
    ASSUME TypeOK, RingSound, MessageStep, FatesSettle
    PROVE  RingSound'
<1>1. Consumed /\ (Held \/ Retires \/ IsHandled \/ Drops)
  BY MessageShape
<1>2. /\ id \in Messages /\ acct \in Accounts /\ acct' = acct /\ disk' = disk
      /\ work.ring \in Seq(Messages) /\ mem \in AccountMap
      /\ Settled(fate, work.ring, mem[acct])
  BY <1>1, AcctType DEF Consumed, acct, TypeOK, Works, AccountMap, RingSound, InTurn
<1>3. /\ \A a \in Accounts : mem[a].ring \in Seq(Messages) /\ disk[a].ring \in Seq(Messages)
      /\ \A a \in Accounts : mem[a].dropped \in Seq(Messages)
  BY DEF TypeOK, AccountStates
<1>4. /\ \A a \in Accounts : mem'[a].ring = mem[a].ring
      /\ \A a \in Accounts, m \in Messages : Named(mem[a], m) => Named(mem'[a], m)
      /\ Drops => Named(mem'[acct], id)
  <2>1. CASE mem' = mem /\ ~Drops
    BY <2>1
  <2>2. CASE Drops
    <3>1. mem' = [mem EXCEPT ![acct].dropped = LastN(Append(@, id), QuarantineMax)]
      BY <2>2 DEF Drops
    <3>2. \A a \in Accounts :
            /\ mem'[a].ring = mem[a].ring
            /\ a # acct => mem'[a].dropped = mem[a].dropped
            /\ a = acct => mem'[a].dropped = LastN(Append(mem[a].dropped, id), QuarantineMax)
      BY <1>2, <3>1 DEF AccountMap, AccountStates
    <3>3. \A a \in Accounts, m \in Messages : Named(mem[a], m) => Named(mem'[a], m)
      BY <1>2, <1>3, <3>2, NamesKept DEF Named
    <3>4. Named(mem'[acct], id)
      BY <1>2, <1>3, <3>2, NamesKept DEF Named
    <3> QED
      BY <3>2, <3>3, <3>4
  <2> QED
    BY <1>1, <2>1, <2>2 DEF Held, Retires, IsHandled, Drops
<1>5. \A a \in Accounts : Settled(fate', disk[a].ring, disk[a])
  BY <1>3, SettledStays DEF RingSound
<1>6. \A a \in Accounts : Settled(fate', mem[a].ring, mem'[a])
  BY <1>3, <1>4, SettledStays DEF RingSound
<1>7. Settled(fate', work.ring, mem'[acct])
  BY <1>2, <1>4, SettledStays
<1>8. \/ fate'[id] # "pending" /\ (fate'[id] = "quarantined" => Named(mem'[acct], id))
      \/ Held
  <2>1. fate \in [Messages -> Fates]
    BY DEF TypeOK, Fates
  <2>2. CASE Retires
    <3>1. PICK f \in {"gone", "mistaken", "screened", "duplicate"} : Becomes(id, f)
      BY <2>2 DEF Retires
    <3> QED
      BY <1>2, <2>1, <3>1 DEF Becomes
  <2>3. CASE IsHandled
    BY <1>2, <2>1, <2>3 DEF IsHandled
  <2>4. CASE Drops
    <3>1. Becomes(id, "quarantined") /\ Named(mem'[acct], id)
      BY <1>4, <2>4 DEF Drops
    <3> QED
      BY <1>2, <2>1, <3>1 DEF Becomes
  <2> QED
    BY <1>1, <2>2, <2>3, <2>4
<1>9. Settled(fate', work'.ring, mem'[acct])
  <2>1. CASE Held
    BY <1>7, <2>1 DEF Held
  <2>2. CASE ~Held
    <3>1. Range(work'.ring) = Range(work.ring) \cup {id}
      BY <1>1, <2>2 DEF Retires, IsHandled, Drops, Rings
    <3> QED
      BY <1>7, <1>8, <2>2, <3>1 DEF Settled
  <2> QED
    BY <2>1, <2>2
<1> QED
  BY <1>2, <1>4, <1>5, <1>6, <1>9 DEF RingSound

LEMMA NextRing ==
    ASSUME TypeOK, Resting, RingSound, [Next]_vars
    PROVE  RingSound'
<1>0. FatesSettle
  BY NextSettles
<1>1. /\ mem \in AccountMap /\ Range(<<>>) = {}
      /\ \A a \in Accounts : mem[a].ring \in Seq(Messages) /\ disk[a].ring \in Seq(Messages)
  BY DEF TypeOK, AccountMap, AccountStates, Range
<1>2. /\ \A a \in Accounts : Settled(fate', disk[a].ring, disk[a])
      /\ \A a \in Accounts : Settled(fate', mem[a].ring, mem[a])
      /\ InTurn => Settled(fate', work.ring, mem[acct])
  <2>1. work.ring \in Seq(Messages)
    BY DEF TypeOK, Works
  <2> QED
    BY <1>0, <1>1, <2>1, SettledStays DEF RingSound
<1>3. CASE MessageStep
  BY <1>0, <1>3, LoopRing
<1>4. CASE List
  <2>1. Listed /\ acct' = acct
    BY <1>4, ListShape DEF Listed, acct
  <2>2. acct \in Accounts
    BY AcctType
  <2> QED
    BY <1>2, <2>1, <2>2 DEF Listed, RingSound, InTurn
<1>5. CASE ArchiveBatch
  <2>1. UNCHANGED <<disk, mem, at, work>> /\ pc = "archive"
    BY <1>5 DEF ArchiveBatch
  <2> QED
    BY <1>2, <2>1 DEF RingSound, InTurn, acct
<1>6. CASE TurnEnds
  <2>1. ~InTurn' /\ acct \in Accounts
    BY <1>6, AcctType DEF TurnEnds, InTurn
  <2>2. ASSUME NEW r \in AccountStates, Keeps(r), Settled(fate', r.ring, r),
               disk' = mem' \/ disk' = disk
        PROVE  RingSound'
    <3>1. \A a \in Accounts : mem'[a] = IF a = acct THEN r ELSE mem[a]
      BY <1>1, <2>2 DEF Keeps, AccountMap
    <3>2. \A a \in Accounts : Settled(fate', mem'[a].ring, mem'[a])
      BY <1>2, <2>2, <3>1
    <3> QED
      BY <1>2, <2>1, <2>2, <3>2 DEF RingSound
  <2>3. ASSUME NEW r \in AccountStates, r.dropped = mem[acct].dropped, NEW ring,
               Settled(fate', ring, mem[acct]), Range(r.ring) \subseteq Range(ring)
        PROVE  Settled(fate', r.ring, r)
    BY <2>3 DEF Settled, Named
  <2>4. CASE UNCHANGED <<mem, disk, fate>>
    BY <1>2, <2>1, <2>4 DEF RingSound
  <2>5. CASE Seeded
    <3>1. PICK r \in AccountStates : Keeps(r) /\ SeedRecord(r) /\ (disk' = mem' \/ disk' = disk)
      BY <2>5 DEF Seeded
    <3>2. r.ring = <<>>
      BY <3>1 DEF SeedRecord, Fresh
    <3>3. Settled(fate', r.ring, r)
      BY <1>1, <3>2 DEF Settled
    <3> QED
      BY <2>2, <3>1, <3>3
  <2>6. CASE Concluded
    <3>1. PICK r \in AccountStates :
             Keeps(r) /\ Concluding(r) /\ (disk' = mem' \/ disk' = disk)
      BY <2>6 DEF Concluded
    <3>2. CASE r.ring = mem[acct].ring
      BY <1>2, <2>1, <2>2, <2>3, <3>1, <3>2 DEF Concluding
    <3>3. CASE CommitRecord(r)
      <4>1. InTurn /\ r.ring = LastN(work.ring, RingMax)
        BY <3>3 DEF CommitRecord, InTurn
      <4>2. Range(r.ring) \subseteq Range(work.ring)
        <5>1. work.ring \in Seq(Messages) /\ RingMax \in Nat
          BY BoundsAssumption DEF TypeOK, Works
        <5> QED
          BY <4>1, <5>1, SliceRange
      <4> QED
        BY <1>2, <2>2, <2>3, <3>1, <4>1, <4>2 DEF Concluding
    <3> QED
      BY <3>1, <3>2, <3>3 DEF Concluding, ResetRecord, QuietRecord
  <2>7. CASE CutShort
    <3>1. PICK r \in AccountStates :
             Keeps(r) /\ CutRecord(r) /\ r.dropped = mem[acct].dropped /\ disk' = disk
      BY <2>7 DEF CutShort
    <3>2. InTurn /\ r.ring = work.ring
      BY <3>1 DEF CutRecord, InTurn
    <3> QED
      BY <1>2, <2>2, <2>3, <3>1, <3>2
  <2> QED
    BY <1>6, <2>4, <2>5, <2>6, <2>7 DEF TurnEnds
<1>7. CASE ListExpired
  BY <1>2, <1>7 DEF ListExpired, RingSound, InTurn
<1>8. CASE StartRun
  <2>1. /\ disk' = disk /\ ~InTurn'
        /\ mem' = mem \/ mem' = [a \in Accounts |-> Fresh]
    BY <1>8 DEF StartRun, InTurn
  <2>2. \A a \in Accounts : mem'[a] = mem[a] \/ mem'[a].ring = <<>>
    BY <2>1 DEF Fresh
  <2>3. \A a \in Accounts : Settled(fate', mem'[a].ring, mem'[a])
    BY <1>1, <1>2, <2>2 DEF Settled
  <2> QED
    BY <1>2, <2>1, <2>3 DEF RingSound
<1>9. CASE Return
  <2>1. (disk' = mem \/ disk' = disk) /\ mem' = disk' /\ ~InTurn'
    BY <1>9 DEF Return, InTurn
  <2> QED
    BY <1>2, <2>1 DEF RingSound
<1>10. CASE Reject \/ Crash
  <2>1. disk' = disk /\ mem' = disk /\ ~InTurn'
    BY <1>10 DEF Reject, Crash, InTurn
  <2> QED
    BY <1>2, <2>1 DEF RingSound
<1>11. CASE Deliver \/ Expire \/ UNCHANGED vars
  <2>1. UNCHANGED <<disk, mem, at, work, pc>>
    BY <1>11 DEF Deliver, Expire, vars
  <2> QED
    BY <1>2, <2>1 DEF RingSound, InTurn, acct
<1> QED
  BY <1>3, <1>4, <1>5, <1>6, <1>7, <1>8, <1>9, <1>10, <1>11, NextShape

(* quarantinedIds (poll.js 480-483): through every failed write, crash, lost  *)
(* state file and re-listing, a dropped message that the ring on disk retires *)
(* is named in the state file, or its list is full of later drops.            *)
THEOREM DropsLeaveAName == Spec => []DropsAreAuditable
<1>1. RingSound => DropsAreAuditable
  BY DEF RingSound, Settled, DropsAreAuditable
<1> QED
  BY <1>1, InitType, NextType, InitResting, NextResting, InitRing, NextRing, PTL DEF Spec

-----------------------------------------------------------------------------
(* Dedupe.  The keys of a message enter `seen` before its handler is called,  *)
(* so a copy may be retired for one whose handler then threw: what the keys   *)
(* in `seen` stand for is a handled message, or a failure on the counters.    *)
SeenExplained ==
    Durable /\ pc # "idle" =>
        \A key \in seen : \/ \E m \in Messages : fate[m] = "handled" /\ key \in DedupeKeys(m)
                          \/ stats.messageErrors > 0

LEMMA LoopExplained ==
    ASSUME TypeOK, "mistaken" \notin Faults, SeenExplained, MessageStep
    PROVE  SeenExplained'
<1>1. /\ Consumed /\ (seen' = seen \/ Attempted)
      /\ stats'.messageErrors >= stats.messageErrors
  BY MessageShape
<1>2. pc = "message" /\ id \in Messages /\ mode' = mode /\ fate \in [Messages -> Fates]
  BY <1>1 DEF Consumed, TypeOK, Fates
<1>3. stats \in Counters /\ stats' \in Counters
  BY NextType DEF TypeOK, Next, RunStep, TurnStep
<1>4. FatesSettle
  BY NextSettles DEF Next, RunStep, TurnStep
<1> SUFFICES ASSUME Durable, NEW key \in seen', ~(stats'.messageErrors > 0)
             PROVE  \E m \in Messages : fate'[m] = "handled" /\ key \in DedupeKeys(m)
  BY <1>2 DEF SeenExplained, Durable, DedupeKeys, IsSent
<1>5. CASE key \in seen
  <2>1. ~(stats.messageErrors > 0)
    BY <1>1, <1>3 DEF Counters
  <2> QED
    BY <1>2, <1>4, <1>5, <2>1 DEF SeenExplained, FatesSettle
<1>6. CASE key \notin seen
  <2>1. Attempted /\ key \in DedupeKeys(id)
    BY <1>1, <1>6 DEF Attempted
  <2>2. IsHandled
    BY <2>1 DEF Attempted
  <2> QED
    BY <1>2, <2>1, <2>2 DEF IsHandled
<1> QED
  BY <1>5, <1>6

LEMMA NextExplained ==
    ASSUME TypeOK, "mistaken" \notin Faults, Resting, SeenExplained, [Next]_vars
    PROVE  SeenExplained'
<1>1. CASE MessageStep
  BY <1>1, LoopExplained
<1>2. CASE ~MessageStep
  <2>0. FatesSettle
    BY NextSettles
  <2>1. stats \in Counters /\ stats' \in Counters
    BY NextType DEF TypeOK
  <2>2. \/ /\ UNCHANGED <<mode, seen>> /\ (pc = "idle" => pc' = "idle")
           /\ stats'.messageErrors >= stats.messageErrors
        \/ pc' = "idle"
        \/ pc = "idle" /\ seen' = seen
    <3>1. CASE TurnEnds
      BY <3>1 DEF TurnEnds
    <3>2. CASE List
      <4>1. stats'.messageErrors = stats.messageErrors
        BY <3>2, ListShape DEF Listed
      <4>2. stats.messageErrors \in Nat
        BY <2>1 DEF Counters
      <4>3. UNCHANGED <<mode, seen>> /\ pc = "account"
        BY <3>2 DEF List
      <4> QED
        BY <4>1, <4>2, <4>3
    <3>3. CASE ListExpired
      BY <2>1, <3>3 DEF ListExpired, Count, Counters
    <3>4. CASE ArchiveBatch \/ Deliver \/ Expire \/ UNCHANGED vars
      BY <2>1, <3>4 DEF ArchiveBatch, Deliver, Expire, vars, Counters
    <3>5. CASE StartRun \/ Return \/ Reject \/ Crash
      BY <3>5 DEF StartRun, Return, Reject, Crash
    <3> QED
      BY <1>2, <3>1, <3>2, <3>3, <3>4, <3>5, NextShape
  <2>3. CASE /\ UNCHANGED <<mode, seen>> /\ (pc = "idle" => pc' = "idle")
             /\ stats'.messageErrors >= stats.messageErrors
    <3>1. stats.messageErrors > 0 => stats'.messageErrors > 0
      BY <2>1, <2>3 DEF Counters
    <3> QED
      BY <2>0, <2>3, <3>1 DEF SeenExplained, Durable, FatesSettle, DedupeKeys, IsSent
  <2>4. CASE pc' = "idle"
    BY <2>4 DEF SeenExplained
  <2>5. CASE pc = "idle" /\ seen' = seen
    BY <2>5 DEF SeenExplained, Resting
  <2> QED
    BY <2>2, <2>3, <2>4, <2>5
<1> QED
  BY <1>1, <1>2

(* Dedupe (poll.js 428-438).  The Message-ID is remembered before the handler *)
(* is called, so a copy may be skipped for one that was never handled; but    *)
(* not in silence: when a message is ringed as a duplicate, a copy of it was  *)
(* handled, or the run that rings it has counted a failed message.            *)
DuplicatesAreExplained ==
    [][ \A m \in Messages :
          fate'[m] = "duplicate" /\ fate[m] # "duplicate"
          => HandledCopy(m) \/ stats.messageErrors > 0 ]_vars

(* poll.js 428-438, for whatever handler, throwing ones included, across       *)
(* accounts, failed writes and crashes: a message is only ringed as a          *)
(* duplicate for a copy that was handled, or in a run that counts a failed     *)
(* message.  (A handler's error that reads as a 404 is counted nowhere, and is *)
(* the one thing ruled out.)                                                   *)
THEOREM DuplicatesHaveCauses ==
    "mistaken" \notin Faults => (Spec => DuplicatesAreExplained)
<1> SUFFICES ASSUME "mistaken" \notin Faults PROVE Spec => DuplicatesAreExplained
  OBVIOUS
<1>1. TypeOK /\ Resting /\ SeenExplained /\ [Next]_vars => SeenExplained'
  BY NextExplained
<1>2. Init => SeenExplained
  BY DEF Init, SeenExplained
<1>3. ASSUME TypeOK, SeenExplained, [Next]_vars,
             NEW m \in Messages, fate'[m] = "duplicate", fate[m] # "duplicate"
      PROVE  HandledCopy(m) \/ stats.messageErrors > 0
  <2>1. MessageStep
    <3>1. ~MessageStep => fate' = fate \/ Skips
      BY <1>3, NextShape DEF List, ListExpired, ArchiveBatch, TurnEnds, Seeded, Concluded,
         CutShort, StartRun, Return, Reject, Crash, Deliver, Expire, vars, ghosts
    <3> QED
      BY <1>3, <3>1 DEF Skips
  <2>2. Consumed /\ (Held \/ Retires \/ IsHandled \/ Drops) /\ fate \in [Messages -> Fates]
    BY <1>3, <2>1, MessageShape DEF TypeOK, Fates
  <2>3. Retires /\ m = id /\ fate[m] # "handled" /\ DedupeKeys(id) \cap seen # {}
    BY <1>3, <2>2 DEF Held, Retires, IsHandled, Drops, Becomes
  <2>4. PICK key \in DedupeKeys(id) : key \in seen
    BY <2>3
  <2>5. ASSUME NEW k \in Messages, fate[k] = "handled", key \in DedupeKeys(k)
        PROVE  HandledCopy(m)
    BY <2>3, <2>4, <2>5 DEF HandledCopy
  <2>6. Durable /\ pc # "idle"
    BY <2>2, <2>3 DEF Retires, Rings, Consumed
  <2> QED
    BY <1>3, <2>4, <2>5, <2>6 DEF SeenExplained
<1>4. TypeOK /\ SeenExplained /\ [Next]_vars
      => [ \A m \in Messages :
              fate'[m] = "duplicate" /\ fate[m] # "duplicate"
              => HandledCopy(m) \/ stats.messageErrors > 0 ]_vars
  BY <1>3
<1> QED
  BY <1>1, <1>2, <1>4, InitType, NextType, InitResting, NextResting, PTL
     DEF Spec, DuplicatesAreExplained

-----------------------------------------------------------------------------
(* The theorems on lost mail need more: that each duplicate is a copy of a    *)
(* handled message.  This is not true of a handler that throws on mail that   *)
(* carries a Message-ID, nor of one whose error reads as a 404, which retires *)
(* a message nobody handled.                                                  *)
HandlerSound ==
    /\ "mistaken" \notin Faults
    /\ \A m \in Messages : MessageId[m] # NoId => m \notin Poison /\ "handler" \notin Faults

SeenSound ==
    Durable /\ pc # "idle" =>
        \A key \in seen : \E m \in Messages : fate[m] = "handled" /\ key \in DedupeKeys(m)

DuplicatesWereHandled ==
    \A m \in Messages : fate[m] = "duplicate" => HandledCopy(m)

LEMMA InitDedupe == Init => SeenSound /\ DuplicatesWereHandled
  BY DEF Init, SeenSound, DuplicatesWereHandled

LEMMA CopiesStay ==
    ASSUME FatesSettle, NEW m \in Messages, HandledCopy(m)
    PROVE  HandledCopy(m)'
  BY DEF FatesSettle, HandledCopy, DedupeKeys, IsSent

LEMMA LoopDedupe ==
    ASSUME TypeOK, HandlerSound, SeenSound, DuplicatesWereHandled, MessageStep, FatesSettle
    PROVE  SeenSound' /\ DuplicatesWereHandled'
<1>1. /\ Consumed /\ (Held \/ Retires \/ IsHandled \/ Drops)
      /\ seen' = seen \/ Attempted
  BY MessageShape
<1>2. pc = "message" /\ id \in Messages /\ mode' = mode /\ fate \in [Messages -> Fates]
  BY <1>1 DEF Consumed, TypeOK, Fates
<1>3. SeenSound'
  <2> SUFFICES ASSUME Durable, NEW key \in seen'
               PROVE  \E m \in Messages : fate'[m] = "handled" /\ key \in DedupeKeys(m)
    BY <1>2 DEF SeenSound, Durable, DedupeKeys, IsSent
  <2>1. CASE key \in seen
    BY <1>2, <2>1 DEF SeenSound, FatesSettle
  <2>2. CASE key \notin seen
    <3>1. Attempted /\ key \in DedupeKeys(id)
      BY <1>1, <2>2 DEF Attempted
    <3>2. MessageId[id] # NoId
      BY <3>1 DEF DedupeKeys
    <3>3. IsHandled
      BY <1>2, <3>1, <3>2 DEF Attempted, HandlerSound
    <3> QED
      BY <1>2, <3>1, <3>3 DEF IsHandled
  <2> QED
    BY <2>1, <2>2
<1>4. DuplicatesWereHandled'
  <2> SUFFICES ASSUME NEW m \in Messages, fate'[m] = "duplicate"
               PROVE  HandledCopy(m)'
    BY DEF DuplicatesWereHandled
  <2>1. CASE fate[m] = "duplicate"
    BY <2>1, CopiesStay DEF DuplicatesWereHandled
  <2>2. CASE fate[m] # "duplicate"
    <3>1. Retires /\ m = id /\ DedupeKeys(id) \cap seen # {}
      BY <1>1, <1>2, <2>2 DEF Held, Retires, IsHandled, Drops, Becomes
    <3>2. PICK key \in DedupeKeys(id) : key \in seen
      BY <3>1
    <3>3. PICK k \in Messages : fate[k] = "handled" /\ key \in DedupeKeys(k)
      BY <1>2, <3>1, <3>2 DEF SeenSound, Retires, Rings
    <3>4. fate'[k] = "handled" /\ k # m
      BY <3>3 DEF FatesSettle
    <3> QED
      BY <3>1, <3>2, <3>3, <3>4 DEF HandledCopy, DedupeKeys, IsSent
  <2> QED
    BY <2>1, <2>2
<1> QED
  BY <1>3, <1>4

LEMMA NextDedupe ==
    ASSUME TypeOK, HandlerSound, Resting, SeenSound, DuplicatesWereHandled, [Next]_vars
    PROVE  SeenSound' /\ DuplicatesWereHandled'
<1>0. FatesSettle
  BY NextSettles
<1>1. CASE MessageStep
  BY <1>0, <1>1, LoopDedupe
<1>2. ASSUME ~MessageStep
      PROVE  DuplicatesWereHandled'
  <2>1. \A m \in Messages : fate'[m] = "duplicate" => fate[m] = "duplicate"
    <3>1. fate' = fate \/ Skips
      BY <1>2, NextShape DEF List, ListExpired, ArchiveBatch, TurnEnds, Seeded, Concluded,
         CutShort, StartRun, Return, Reject, Crash, Deliver, Expire, vars, ghosts
    <3> QED
      BY <3>1 DEF Skips
  <2> QED
    BY <1>0, <2>1, CopiesStay DEF DuplicatesWereHandled
<1>3. ASSUME ~MessageStep
      PROVE  SeenSound'
  <2>1. \/ UNCHANGED <<mode, seen>> /\ (pc = "idle" => pc' = "idle")
        \/ pc' = "idle"
        \/ pc = "idle" /\ seen' = seen
    BY <1>3, NextShape DEF List, ListExpired, ArchiveBatch, TurnEnds, StartRun, Return,
       Reject, Crash, Deliver, Expire, vars
  <2>2. CASE UNCHANGED <<mode, seen>> /\ (pc = "idle" => pc' = "idle")
    BY <1>0, <2>2 DEF SeenSound, Durable, FatesSettle, DedupeKeys, IsSent
  <2>3. CASE pc' = "idle"
    BY <2>3 DEF SeenSound
  <2>4. CASE pc = "idle" /\ seen' = seen
    BY <2>4 DEF SeenSound, Resting
  <2> QED
    BY <2>1, <2>2, <2>3, <2>4
<1> QED
  BY <1>1, <1>2, <1>3

-----------------------------------------------------------------------------
(* A listing is a prefix of what lies beyond the cursor, and stays one while  *)
(* the turn lasts, because mail that arrives comes after all of it.           *)
WindowPrefix ==
    InTurn => \A k \in work.listed : \A m \in Messages :
        Owner[m] = acct /\ hist[m] > mem[acct].cursor /\ hist[m] <= hist[k]
        => m \in work.listed

LEMMA ListingIsPrefix ==
    ASSUME TypeOK, NEW a, NEW r, NEW S \in ListingsOf(a, r), NEW k \in S,
           NEW m \in Window(a), hist[m] <= hist[k]
    PROVE  m \in S
<1> DEFINE whole == Attributable(Window(a), hist, Unattributed)
<1>1. \A j \in Window(a) : hist[j] \in Nat
  BY DEF Window, TypeOK
<1>2. ASSUME NEW j \in whole, hist[m] <= hist[j]
      PROVE  m \in whole
  BY <1>1, <1>2 DEF Attributable
<1>3. S = whole \/ \E j \in whole : S = UpTo(whole, hist, hist[j])
  BY DEF ListingsOf, Listings
<1> HIDE DEF whole
<1>4. CASE S = whole
  BY <1>2, <1>4
<1>5. ASSUME NEW j \in whole, S = UpTo(whole, hist, hist[j])
      PROVE  m \in S
  <2>1. k \in whole /\ hist[k] <= hist[j] /\ j \in Window(a) /\ k \in Window(a)
    BY <1>5, ListedInWindow DEF UpTo, whole, Attributable
  <2>2. m \in whole /\ hist[m] <= hist[j]
    BY <1>1, <1>2, <2>1
  <2> QED
    BY <1>5, <2>2 DEF UpTo
<1> QED
  BY <1>3, <1>4, <1>5

LEMMA InitPrefix == Init => WindowPrefix
  BY DEF Init, WindowPrefix, InTurn

LEMMA LoopKeepsCursors ==
    ASSUME TypeOK, MessageStep
    PROVE  \A a \in Accounts : mem'[a].cursor = mem[a].cursor
<1>1. mem' = mem \/ mem' = [mem EXCEPT ![acct].dropped = LastN(Append(@, id), QuarantineMax)]
  BY MessageShape DEF Held, Retires, IsHandled, Drops
<1>2. mem \in AccountMap /\ acct \in Accounts
  BY AcctType DEF TypeOK, AccountMap
<1> QED
  BY <1>1, <1>2 DEF AccountMap, AccountStates

(* What Deliver does to a message: nothing, or it comes after everything. *)
LEMMA Arrival ==
    ASSUME TypeOK, CursorInv, Deliver, NEW m \in Messages
    PROVE  \/ hist'[m] = hist[m]
           \/ /\ hist[m] = 0 /\ hist'[m] > profile[Owner[m]]
              /\ \A k \in Messages : Owner[k] = Owner[m] => hist'[m] > hist[k]
<1>1. PICK a \in Accounts : \E last \in {k \in Messages : Owner[k] = a /\ hist[k] = 0} :
          LET block == {k \in Messages : Owner[k] = a /\ hist[k] = 0 /\ k <= last}
          IN  hist' = [k \in Messages |-> IF k \in block THEN profile[a] + 1 ELSE hist[k]]
  BY DEF Deliver
<1>2. hist'[m] = hist[m] \/ (Owner[m] = a /\ hist[m] = 0 /\ hist'[m] = profile[a] + 1)
  BY <1>1
<1>3. profile[a] \in Nat /\ \A k \in Messages : hist[k] \in Nat /\ hist[k] <= profile[Owner[k]]
  BY DEF TypeOK, CursorInv, ProfileAhead
<1> QED
  BY <1>2, <1>3

LEMMA NextPrefix ==
    ASSUME TypeOK, CursorInv, WindowPrefix, [Next]_vars
    PROVE  WindowPrefix'
<1>0. acct \in Accounts /\ work.listed \subseteq Messages
  BY AcctType DEF TypeOK, Works
<1>1. ASSUME UNCHANGED <<hist, at>>, work'.listed = work.listed, InTurn,
             \A a \in Accounts : mem'[a].cursor = mem[a].cursor
      PROVE  WindowPrefix'
  BY <1>0, <1>1 DEF WindowPrefix, acct
<1>2. CASE MessageStep
  <2>1. InTurn /\ UNCHANGED <<hist, at>> /\ work'.listed = work.listed
    BY <1>2, MessageShape DEF Consumed, InTurn, env
  <2> QED
    BY <1>1, <1>2, <2>1, LoopKeepsCursors
<1>3. CASE List
  <2>1. Listed /\ acct' = acct /\ hist' = hist
    BY <1>3, ListShape DEF Listed, acct, env
  <2>2. PICK record : work'.listed \in ListingsOf(acct, record)
    BY <2>1 DEF Listed
  <2>3. ASSUME NEW k \in work'.listed, NEW m \in Messages,
               Owner[m] = acct, hist[m] > mem[acct].cursor, hist[m] <= hist[k]
        PROVE  m \in work'.listed
    BY <2>2, <2>3, ListingIsPrefix DEF Window
  <2> QED
    BY <2>1, <2>3 DEF Listed, WindowPrefix
<1>4. CASE ArchiveBatch
  BY <1>1, <1>4 DEF ArchiveBatch, InTurn, env
<1>5. CASE ListExpired \/ TurnEnds \/ StartRun \/ Return \/ Reject \/ Crash
  BY <1>5 DEF ListExpired, TurnEnds, StartRun, Return, Reject, Crash, WindowPrefix, InTurn
<1>6. CASE Deliver
  <2>1. UNCHANGED <<mem, at, work, pc>>
    BY <1>6 DEF Deliver
  <2>2. SUFFICES ASSUME InTurn, NEW k \in work.listed, NEW m \in Messages, Owner[m] = acct,
                        hist'[m] > mem[acct].cursor, hist'[m] <= hist'[k]
                 PROVE  m \in work.listed
    BY <2>1 DEF WindowPrefix, acct, InTurn
  <2>3. Owner[k] = acct /\ hist[k] > mem[acct].cursor /\ k \in Messages
        /\ mem[acct].cursor \in Nat
    BY <1>0, <2>2 DEF CursorInv, WindowBeyond, InTurn, TypeOK, AccountStates
  <2>4. hist \in [Messages -> Nat] /\ hist'[k] = hist[k]
    BY <1>6, <2>3, Arrival DEF TypeOK
  <2>5. hist'[m] = hist[m]
    <3>1. hist'[m] = hist[m] \/ hist'[m] > hist[k]
      BY <1>6, <2>2, <2>3, Arrival
    <3>2. hist'[m] \in Nat /\ hist[k] \in Nat
      BY NextType, <2>3, <2>4 DEF TypeOK
    <3> QED
      BY <2>2, <2>4, <3>1, <3>2
  <2> QED
    BY <2>2, <2>4, <2>5 DEF WindowPrefix
<1>7. CASE Expire \/ UNCHANGED vars
  <2>1. UNCHANGED <<hist, mem, at, work, pc>>
    BY <1>7 DEF Expire, vars, env
  <2> QED
    BY <2>1 DEF WindowPrefix, InTurn, acct
<1> QED
  BY <1>2, <1>3, <1>4, <1>5, <1>6, <1>7, NextShape

(* What a truncated turn's cursor passes, the turn's ring holds. *)
LEMMA PassedIsRinged ==
    ASSUME TypeOK, WindowPrefix, NEW r \in AccountStates, Concluding(r),
           pc \in {"quiet", "commit"}, work.truncated, NEW m \in Messages, Owner[m] = acct,
           hist[m] > mem[acct].cursor, hist[m] <= r.cursor
    PROVE  m \in Range(work.ring)
<1>1. r.cursor \in Watermarks(work.listed, work.ring, mem[acct].cursor)
  BY DEF Concluding, ResetRecord, QuietRecord, CommitRecord, NextCursors
<1>2. r.cursor # mem[acct].cursor
  <2>1. acct \in Accounts
    BY AcctType
  <2>2. hist[m] \in Nat /\ mem[acct].cursor \in Nat
    BY <2>1 DEF TypeOK, AccountStates
  <2> QED
    BY <2>2
<1>3. PICK k \in work.listed :
            /\ r.cursor = hist[k]
            /\ \A j \in work.listed : hist[j] <= hist[k] => j \in Range(work.ring)
  BY <1>1, <1>2, WatermarkMeaning
<1>4. m \in work.listed
  BY <1>3 DEF WindowPrefix, InTurn
<1> QED
  BY <1>3, <1>4

(* What a step leaves lost that was not is mail nobody served, and the step   *)
(* moved the cursor on disk over it.                                          *)
LEMMA NewlyLost ==
    ASSUME TypeOK, CursorInv, [Next]_vars, NEW m \in Lost' \ Lost,
           Unserved(m)' => Unserved(m)
    PROVE  /\ m \in Messages /\ Owner[m] \in Accounts /\ Unserved(m)
           /\ hist' = hist \/ Deliver
           /\ hist'[m] = hist[m] /\ hist[m] # 0
           /\ disk'[Owner[m]].cursor >= hist[m] /\ ~(disk[Owner[m]].cursor >= hist[m])
<1>1. m \in Messages /\ Owner[m] \in Accounts /\ Passed(m)' /\ Unserved(m)
  BY MailAssumption DEF Lost
<1>2. ~Passed(m)
  BY <1>1 DEF Lost
<1>3. hist'[m] = hist[m] /\ (hist' = hist \/ Deliver)
  <2>1. CASE Deliver
    <3>1. disk' = disk /\ disk[Owner[m]].cursor <= profile[Owner[m]]
      BY <1>1, <2>1 DEF Deliver, CursorInv, ProfileAhead
    <3>2. disk[Owner[m]].cursor \in Nat /\ profile[Owner[m]] \in Nat /\ hist'[m] \in Nat
      BY <1>1, NextType DEF TypeOK, AccountStates
    <3>3. ~(hist'[m] > profile[Owner[m]])
      BY <1>1, <3>1, <3>2 DEF Passed
    <3> QED
      BY <1>1, <2>1, <3>3, Arrival
  <2>2. CASE ~Deliver
    <3>1. hist' = hist
      BY <2>2, NextShape DEF MessageStep, FetchGone, HandlerGone, ScreenOut, SkipDuplicate,
         Handle, FetchThrows, HandlerThrows, InLoop, List, ListExpired, ArchiveBatch,
         TurnEnds, StartRun, Return, Reject, Crash, Expire, vars, env
    <3> QED
      BY <3>1
  <2> QED
    BY <2>1, <2>2
<1> QED
  BY <1>1, <1>2, <1>3 DEF Passed

(* Of mail whose handler is sound, only what is pending is unserved.          *)
NoneMistaken == \A m \in Messages : fate[m] # "mistaken"
MailSound == NoneMistaken /\ SeenSound /\ DuplicatesWereHandled

LEMMA InitMail == Init => MailSound
  BY InitDedupe DEF Init, MailSound, NoneMistaken

LEMMA NextMail ==
    ASSUME TypeOK, HandlerSound, Resting, MailSound, [Next]_vars
    PROVE  MailSound'
<1>1. SeenSound' /\ DuplicatesWereHandled'
  BY NextDedupe DEF MailSound
<1>2. NoneMistaken'
  <2>1. CASE MessageStep
    <3>1. Held \/ Retires \/ IsHandled \/ Drops
      BY <2>1, MessageShape
    <3>2. \/ fate' = fate
          \/ \E f \in Fates \ {"mistaken"} : Becomes(id, f)
          \/ fate' = [fate EXCEPT ![id] = "handled"]
      BY <3>1 DEF Held, Retires, IsHandled, Drops, HandlerSound, Fates
    <3> QED
      BY <3>2 DEF MailSound, NoneMistaken, Becomes, TypeOK
  <2>2. CASE ~MessageStep
    <3>1. fate' = fate \/ Skips
      BY <2>2, NextShape DEF List, ListExpired, ArchiveBatch, TurnEnds, Seeded, Concluded,
         CutShort, StartRun, Return, Reject, Crash, Deliver, Expire, vars, ghosts
    <3> QED
      BY <3>1 DEF MailSound, NoneMistaken, Skips
  <2> QED
    BY <2>1, <2>2
<1> QED
  BY <1>1, <1>2 DEF MailSound

LEMMA UnservedIsPending ==
    ASSUME MailSound, NEW m \in Messages
    PROVE  Unserved(m) <=> fate[m] = "pending"
  BY DEF MailSound, NoneMistaken, DuplicatesWereHandled, Unserved

LEMMA ServedStays ==
    ASSUME MailSound, MailSound', FatesSettle, NEW m \in Messages, Unserved(m)'
    PROVE  Unserved(m)
<1>1. Unserved(m)' => fate'[m] = "pending"
  BY DEF MailSound, NoneMistaken, DuplicatesWereHandled, Unserved
<1> QED
  BY <1>1 DEF FatesSettle, Unserved

(* The facts about poll()'s mail that the theorems on lost mail rest on. *)
MailInv ==
    /\ TypeOK /\ CursorInv /\ Resting /\ BatchListed /\ ArchiveSound
    /\ StallSound /\ RingSound /\ WindowPrefix

LEMMA InitMailInv == Init => MailInv
  BY InitType, InitCursor, InitResting, InitArchive, InitStall, InitRing, InitPrefix DEF MailInv

LEMMA NextMailInv == MailInv /\ [Next]_vars => MailInv'
  BY NextType, NextCursorInv, NextResting, NextBatchListed, NextArchive, NextStall, NextRing,
     NextPrefix DEF MailInv

(* What moves a cursor on disk while a turn is at its end. *)
LEMMA EndingStep ==
    ASSUME MailInv, [Next]_vars, pc \in {"quiet", "commit"}, disk' # disk
    PROVE  /\ fate' = fate /\ hist' = hist /\ Durable
           /\ stats'.messageErrors >= stats.messageErrors
           /\ \E r \in AccountStates :
                 /\ Concluding(r)
                 /\ \A a \in Accounts : disk'[a] = IF a = acct THEN r ELSE mem[a]
<1>1. TurnEnds
  BY NextShape DEF MailInv, MessageStep, FetchGone, HandlerGone, ScreenOut, SkipDuplicate,
     Handle, FetchThrows, HandlerThrows, InLoop, List, ListExpired, ArchiveBatch, StartRun,
     Return, Reject, Crash, Deliver, Expire, vars
<1>2. Concluded
  BY <1>1 DEF TurnEnds, Seeded, SeedRecord, CutShort
<1>3. PICK r \in AccountStates : Keeps(r) /\ Concluding(r) /\ fate' = fate /\ disk' = mem'
  BY <1>2 DEF Concluded
<1>4. mem \in AccountMap
  BY DEF MailInv, TypeOK, AccountMap
<1> QED
  BY <1>1, <1>3, <1>4 DEF TurnEnds, Keeps, AccountMap, env

PassesNoPending ==
    [][ (pc \in {"quiet", "commit"} /\ work.truncated) =>
          \A m \in Messages :
             (/\ ~Passed(m) /\ hist[m] # 0 /\ disk'[Owner[m]].cursor >= hist[m]
              /\ hist[m] > mem[Owner[m]].cursor)
             => fate'[m] # "pending" ]_vars

LEMMA TruncatedTurnIsSafe ==
    ASSUME MailInv, [Next]_vars, pc \in {"quiet", "commit"}, work.truncated,
           NEW m \in Messages, ~Passed(m), hist[m] # 0, disk'[Owner[m]].cursor >= hist[m],
           hist[m] > mem[Owner[m]].cursor
    PROVE  fate[m] # "pending" /\ fate'[m] # "pending"
<1>0. Owner[m] \in Accounts /\ TypeOK /\ hist[m] \in Nat /\ mem[Owner[m]].cursor \in Nat
      /\ acct \in Accounts
  BY MailAssumption, AcctType DEF MailInv, TypeOK, AccountStates
<1>1. disk' # disk
  BY <1>0 DEF Passed
<1>2. PICK r \in AccountStates :
          /\ Concluding(r)
          /\ \A a \in Accounts : disk'[a] = IF a = acct THEN r ELSE mem[a]
  BY <1>1, EndingStep
<1>3. Owner[m] = acct /\ hist[m] <= r.cursor
  <2>1. r.cursor \in Nat
    BY DEF AccountStates
  <2> QED
    BY <1>0, <1>2, <2>1
<1>4. m \in Range(work.ring)
  BY <1>0, <1>2, <1>3, PassedIsRinged DEF MailInv
<1>5. fate[m] # "pending"
  BY <1>4 DEF MailInv, RingSound, Settled, InTurn
<1> QED
  BY <1>1, <1>5, EndingStep

(* poll.js 281-305, for every listing, ring, bound and failing call, and      *)
(* whatever the handler does: a truncated turn moves the cursor on disk over  *)
(* no message that is still pending, except over one that an earlier turn's   *)
(* lost write had moved the state object over.                                *)
THEOREM TruncatedTurnsPassNoPendingMail == Spec => PassesNoPending
<1>1. MailInv /\ [Next]_vars
      => [(pc \in {"quiet", "commit"} /\ work.truncated) =>
          \A m \in Messages :
             (/\ ~Passed(m) /\ hist[m] # 0 /\ disk'[Owner[m]].cursor >= hist[m]
              /\ hist[m] > mem[Owner[m]].cursor)
             => fate'[m] # "pending"]_vars
  BY TruncatedTurnIsSafe
<1> QED
  BY <1>1, InitMailInv, NextMailInv, PTL DEF Spec, PassesNoPending

(* nextCursor's argument, on the properties of the runs: with a sound handler *)
(* (see HandlerSound), whatever fails and whatever arrives, a turn on a       *)
(* truncated window loses nothing.                                            *)
THEOREM TruncatedTurnsLoseNothing == HandlerSound => (Spec => TruncatedTurnLosesNothing)
<1> SUFFICES ASSUME HandlerSound PROVE Spec => TruncatedTurnLosesNothing
  OBVIOUS
<1>1. TypeOK /\ Resting /\ MailSound /\ [Next]_vars => MailSound'
  BY NextMail
<1>2. ASSUME MailInv, MailSound, MailSound', [Next]_vars,
             pc \in {"quiet", "commit"}, work.truncated
      PROVE  NothingNewlyLost
  <2> SUFFICES ASSUME NEW m \in Lost' \ Lost PROVE hist[m] <= mem[Owner[m]].cursor
    BY DEF NothingNewlyLost
  <2>0. TypeOK /\ CursorInv /\ FatesSettle /\ m \in Messages
    BY <1>2, NextSettles DEF MailInv, Lost
  <2>1. Unserved(m)' => Unserved(m)
    BY <1>2, <2>0, ServedStays
  <2>2. /\ Owner[m] \in Accounts /\ Unserved(m)
        /\ hist'[m] = hist[m] /\ hist[m] # 0
        /\ disk'[Owner[m]].cursor >= hist[m] /\ ~Passed(m)
    BY <1>2, <2>0, <2>1, NewlyLost DEF Passed
  <2>3. fate[m] = "pending"
    BY <1>2, <2>0, <2>2, UnservedIsPending
  <2>4. ~(hist[m] > mem[Owner[m]].cursor)
    BY <1>2, <2>0, <2>2, <2>3, TruncatedTurnIsSafe
  <2>5. hist[m] \in Nat /\ mem[Owner[m]].cursor \in Nat
    BY <2>0, <2>2 DEF TypeOK, AccountStates
  <2> QED
    BY <2>4, <2>5
<1>3. MailInv /\ MailSound /\ MailSound' /\ [Next]_vars
      => [(pc \in {"quiet", "commit"} /\ pc' # pc /\ work.truncated) => NothingNewlyLost]_vars
  BY <1>2
<1>4. MailInv => TypeOK /\ Resting
  BY DEF MailInv
<1> QED
  BY <1>1, <1>3, <1>4, InitMailInv, NextMailInv, InitMail, PTL DEF Spec, TruncatedTurnLosesNothing

-----------------------------------------------------------------------------
(* The end of a batch: nothing is left of it, and a turn that deferred        *)
(* messages handled some (a cap of 0 would defer them all and let the quiet   *)
(* branch step over them).                                                    *)
BatchEnds ==
    /\ pc \in {"quiet", "archive", "commit"} => work.todo = <<>>
    /\ pc = "quiet" /\ MaxPerRun > 0 => ~work.capped

LEMMA InitBatchEnds == Init => BatchEnds
  BY DEF Init, BatchEnds

LEMMA NextBatchEnds == TypeOK /\ BatchEnds /\ [Next]_vars => BatchEnds'
<1> SUFFICES ASSUME TypeOK, BatchEnds, [Next]_vars PROVE BatchEnds'
  OBVIOUS
<1> USE DEF BatchEnds
<1>1. CASE MessageStep
  BY <1>1, MessageShape DEF Consumed
<1>2. CASE List
  <2>1. /\ pc' \in {"quiet", "message"} /\ (pc' = "quiet" => work'.todo = <<>>)
        /\ pc' = "quiet" /\ MaxPerRun > 0 => ~work'.capped
    BY <1>2, ListShape DEF Listed
  <2> QED
    BY <2>1
<1>3. CASE ArchiveBatch
  BY <1>3 DEF ArchiveBatch
<1>4. CASE ListExpired \/ TurnEnds \/ StartRun \/ Return \/ Reject \/ Crash
  BY <1>4 DEF ListExpired, TurnEnds, StartRun, Return, Reject, Crash
<1>5. CASE Deliver \/ Expire \/ UNCHANGED vars
  BY <1>5 DEF Deliver, Expire, vars
<1> QED
  BY <1>1, <1>2, <1>3, <1>4, <1>5, NextShape

(* Overflow (poll.js 365-368): a turn that deferred messages leaves them, and *)
(* everything else nobody served, ahead of the cursor, for every cap above 0. *)
THEOREM OverflowWaits ==
    HandlerSound /\ MaxPerRun > 0 => (Spec => OverflowIsKept)
<1> SUFFICES ASSUME HandlerSound, MaxPerRun > 0 PROVE Spec => OverflowIsKept
  OBVIOUS
<1>1. TypeOK /\ Resting /\ MailSound /\ [Next]_vars => MailSound'
  BY NextMail
<1>2. ASSUME MailInv, MailSound, MailSound', BatchEnds, [Next]_vars,
             pc \in {"quiet", "commit"}, work.capped
      PROVE  NothingNewlyLost
  <2> SUFFICES ASSUME NEW m \in Lost' \ Lost PROVE hist[m] <= mem[Owner[m]].cursor
    BY DEF NothingNewlyLost
  <2>0. TypeOK /\ CursorInv /\ FatesSettle /\ m \in Messages /\ acct \in Accounts
    BY <1>2, NextSettles, AcctType DEF MailInv, Lost
  <2>1. Unserved(m)' => Unserved(m)
    BY <1>2, <2>0, ServedStays
  <2>2. /\ Owner[m] \in Accounts /\ Unserved(m)
        /\ hist'[m] = hist[m] /\ hist[m] # 0
        /\ disk'[Owner[m]].cursor >= hist[m] /\ ~Passed(m)
    BY <1>2, <2>0, <2>1, NewlyLost DEF Passed
  <2>3. fate[m] = "pending"
    BY <1>2, <2>0, <2>2, UnservedIsPending
  <2>4. hist[m] \in Nat /\ mem[Owner[m]].cursor \in Nat
    BY <2>0, <2>2 DEF TypeOK, AccountStates
  <2>5. CASE work.truncated
    BY <1>2, <2>0, <2>2, <2>3, <2>4, <2>5, TruncatedTurnIsSafe
  <2>6. CASE ~work.truncated
    <3>1. disk' # disk
      BY <2>2 DEF Passed
    <3>2. PICK r \in AccountStates :
              /\ Concluding(r)
              /\ \A a \in Accounts : disk'[a] = IF a = acct THEN r ELSE mem[a]
      BY <1>2, <3>1, EndingStep
    <3>3. pc = "commit"
      BY <1>2 DEF BatchEnds
    <3>4. r.cursor = mem[acct].cursor
      BY <1>2, <2>6, <3>2, <3>3 DEF Concluding, ResetRecord, QuietRecord, CommitRecord
    <3>5. disk'[Owner[m]].cursor = mem[Owner[m]].cursor
      BY <2>2, <3>2, <3>4
    <3> QED
      BY <2>2, <2>4, <3>5
  <2> QED
    BY <2>5, <2>6
<1>3. MailInv /\ MailSound /\ MailSound' /\ BatchEnds /\ [Next]_vars
      => [(pc \in {"quiet", "commit"} /\ pc' # pc /\ work.capped) => NothingNewlyLost]_vars
  BY <1>2
<1>4. MailInv => TypeOK /\ Resting
  BY DEF MailInv
<1> QED
  BY <1>1, <1>3, <1>4, InitMailInv, NextMailInv, InitMail, InitBatchEnds, NextBatchEnds, PTL
     DEF Spec, OverflowIsKept

-----------------------------------------------------------------------------
(* No silent loss.  Mail can be lost while every step on disk is innocent:    *)
(* the state object of the run is ahead of the file after a lost write, and   *)
(* the turn in progress is ahead of the state object.  So what counts is the  *)
(* mail that is missing already: what the state object has passed and the     *)
(* file has not, and what the turn in progress has taken from its batch and   *)
(* not settled, when the turn will end at "now".                              *)
(*                                                                            *)
(* It is a theorem about runs during which no mail arrives ("now" is read     *)
(* after the listing), whose state file can be read, and whose handler is     *)
(* sound: poll.js counts no error in any of those cases.                      *)
Calm == ~ArriveMidRun /\ "state" \notin Faults /\ MaxPerRun > 0 /\ HandlerSound

Slipped ==
    {m \in Messages : /\ hist[m] # 0 /\ hist[m] <= mem[Owner[m]].cursor
                      /\ ~Passed(m) /\ fate[m] = "pending"}
Failed ==
    {m \in work.listed : /\ Durable /\ InTurn /\ ~work.truncated /\ ~work.capped
                         /\ m \notin Range(work.todo) /\ fate[m] = "pending"}
Missing == Slipped \cup Failed

WholeWindow == InTurn /\ ~work.truncated => work.listed = Window(acct)
Enrolment == \A a \in enrolled : disk[a].cursor # 0
ExpiryCounted == pc = "expired" => stats.expired > 0
MissingCounted ==
    /\ stats.expired > 0 \/ Cardinality(Missing) <= stats.messageErrors
    /\ Missing # {} => stats.messageErrors > 0
LossInv == WholeWindow /\ Enrolment /\ ExpiryCounted /\ MissingCounted

LEMMA MissingFinite ==
    ASSUME TypeOK
    PROVE  /\ Missing \subseteq Messages /\ IsFiniteSet(Missing)
           /\ \A T \in SUBSET Missing : IsFiniteSet(T) /\ Cardinality(T) <= Cardinality(Missing)
           /\ Cardinality(Missing) \in Nat
<1>1. Missing \subseteq Messages
  BY DEF Missing, Slipped, Failed, TypeOK, Works
<1>2. IsFiniteSet(Missing)
  BY <1>1, MailAssumption, FS_Subset
<1> QED
  BY <1>1, <1>2, FS_Subset, FS_CardinalityType

LEMMA InitLoss == Init => LossInv
<1> SUFFICES ASSUME Init PROVE LossInv
  OBVIOUS
<1>1. ~InTurn /\ pc # "expired" /\ enrolled = {} /\ work.listed = {}
  BY DEF Init, InTurn, NoWork
<1>2. Missing = {}
  BY <1>1 DEF Missing, Slipped, Failed, Init
<1>3. stats.messageErrors = 0
  BY DEF Init, NoStats
<1> QED
  BY <1>1, <1>2, <1>3, FS_EmptySet DEF LossInv, WholeWindow, Enrolment, ExpiryCounted, MissingCounted

(* A step that adds nothing to the missing mail and takes nothing off the count. *)
LEMMA CountedStill ==
    ASSUME TypeOK, TypeOK', MissingCounted, Missing' \subseteq Missing,
           stats'.expired = stats.expired \/ stats'.expired > 0,
           stats'.messageErrors >= stats.messageErrors
    PROVE  MissingCounted'
<1>1. Cardinality(Missing') <= Cardinality(Missing) /\ Cardinality(Missing) \in Nat
      /\ Cardinality(Missing') \in Nat
  <2>1. IsFiniteSet(Missing')
    BY MissingFinite, FS_Subset
  <2> QED
    BY MissingFinite, <2>1, FS_CardinalityType
<1>2. stats.expired \in Nat /\ stats'.expired \in Nat
      /\ stats.messageErrors \in Nat /\ stats'.messageErrors \in Nat
  BY DEF TypeOK, Counters
<1> HIDE DEF Missing
<1> QED
  BY <1>1, <1>2 DEF MissingCounted

LEMMA NoneMissing ==
    ASSUME TypeOK', Missing' = {}
    PROVE  MissingCounted'
<1>1. stats'.messageErrors \in Nat
  BY DEF TypeOK, Counters
<1>2. Cardinality(Missing') = 0
  BY FS_EmptySet
<1> QED
  BY <1>1, <1>2 DEF MissingCounted

(* When the state object is the file, and no turn is on, nothing is missing. *)
LEMMA InStepMissesNothing ==
    ASSUME TypeOK', mem' = disk', ~InTurn'
    PROVE  Missing' = {}
<1>1. ASSUME NEW m \in Slipped' PROVE FALSE
  <2>1. /\ m \in Messages /\ Owner[m] \in Accounts /\ hist'[m] \in Nat
        /\ disk'[Owner[m]].cursor \in Nat /\ hist'[m] # 0
        /\ hist'[m] <= mem'[Owner[m]].cursor /\ ~Passed(m)'
    BY <1>1, MailAssumption DEF Slipped, TypeOK, AccountStates
  <2> QED
    BY <2>1 DEF Passed
<1> QED
  BY <1>1 DEF Missing, Failed

(* A step of the loop leaves one message more unsettled at most, and counts it. *)
LEMMA LoopLoss ==
    ASSUME MailInv, MailInv', LossInv, MessageStep, FatesSettle
    PROVE  LossInv'
<1>0. TypeOK /\ TypeOK' /\ Consumed /\ (Held \/ Retires \/ IsHandled \/ Drops)
      /\ stats'.expired = stats.expired /\ stats'.messageErrors >= stats.messageErrors
  BY MessageShape DEF MailInv
<1>1. /\ pc = "message" /\ id \in Messages /\ acct' = acct /\ acct \in Accounts
      /\ hist' = hist /\ disk' = disk /\ mode' = mode /\ enrolled' = enrolled
      /\ work'.listed = work.listed /\ work'.truncated = work.truncated
      /\ work'.capped = work.capped /\ work'.todo = Tail(work.todo)
      /\ pc' \in {"message", "archive", "commit"}
  BY <1>0, AcctType DEF Consumed, env, acct
<1>2. \A a \in Accounts : mem'[a].cursor = mem[a].cursor
  BY <1>0, LoopKeepsCursors
<1>3. WholeWindow' /\ Enrolment' /\ ExpiryCounted'
  BY <1>1, <1>2 DEF LossInv, WholeWindow, Enrolment, ExpiryCounted, Window, InTurn
<1>4. Slipped' \subseteq Slipped
  BY <1>1, <1>2, MailAssumption DEF Slipped, Passed, FatesSettle
<1>5. \A m \in Failed' : m \in Failed \/ m = id
  <2>1. work.todo \in Seq(Messages) /\ work.todo # <<>>
    BY <1>0, <1>1 DEF TypeOK, Works
  <2>2. \A m \in Range(work.todo) : m = id \/ m \in Range(Tail(work.todo))
    <3>1. /\ Tail(work.todo) \in Seq(Messages) /\ Len(Tail(work.todo)) = Len(work.todo) - 1
          /\ \A k \in 1..Len(work.todo)-1 : Tail(work.todo)[k] = work.todo[k + 1]
          /\ id = work.todo[1] /\ Len(work.todo) \in Nat /\ DOMAIN work.todo = 1..Len(work.todo)
      BY <2>1, HeadTailProperties DEF id
    <3>2. ASSUME NEW i \in DOMAIN work.todo, i # 1
          PROVE  work.todo[i] \in Range(Tail(work.todo))
      <4>1. i - 1 \in 1..Len(work.todo)-1 /\ (i - 1) + 1 = i
        BY <3>1, <3>2
      <4>2. i - 1 \in DOMAIN Tail(work.todo) /\ Tail(work.todo)[i - 1] = work.todo[i]
        BY <3>1, <4>1
      <4> QED
        BY <4>2 DEF Range
    <3> QED
      BY <3>1, <3>2 DEF Range
  <2>3. work.listed \subseteq Messages
    BY <1>0 DEF TypeOK, Works
  <2> QED
    BY <1>1, <2>2, <2>3 DEF Failed, Durable, InTurn, FatesSettle
<1>6. ASSUME ~Held \/ ~Durable
      PROVE  Missing' \subseteq Missing
  <2>1. Durable => fate'[id] # "pending"
    <3>1. CASE Retires
      <4>1. PICK f \in {"gone", "mistaken", "screened", "duplicate"} : Becomes(id, f)
        BY <3>1 DEF Retires
      <4> QED
        BY <1>0, <1>1, <4>1 DEF Becomes, TypeOK
    <3>2. CASE IsHandled
      BY <1>0, <1>1, <3>2 DEF IsHandled, TypeOK
    <3>3. CASE Drops
      BY <1>0, <1>1, <3>3 DEF Drops, Becomes, TypeOK
    <3> QED
      BY <1>0, <1>6, <3>1, <3>2, <3>3
  <2>2. Failed' \subseteq Failed
    BY <1>1, <1>5, <2>1 DEF Failed, Durable
  <2> QED
    BY <1>4, <2>2 DEF Missing
<1>7. MissingCounted'
  <2>1. CASE ~Held \/ ~Durable
    BY <1>0, <1>6, <2>1, CountedStill DEF LossInv
  <2>2. CASE Held /\ Durable
    <3>1. Missing' \subseteq Missing \cup {id} /\ stats'.messageErrors = stats.messageErrors + 1
      BY <1>4, <1>5, <2>2 DEF Missing, Held
    <3>2. /\ IsFiniteSet(Missing \cup {id}) /\ Cardinality(Missing) \in Nat
          /\ Cardinality(Missing \cup {id}) <= Cardinality(Missing) + 1
          /\ Cardinality(Missing \cup {id}) \in Nat
      <4>1. IsFiniteSet(Missing) /\ Cardinality(Missing) \in Nat
        BY <1>0, MissingFinite
      <4> HIDE DEF Missing
      <4>2. /\ IsFiniteSet(Missing \cup {id})
            /\ Cardinality(Missing \cup {id}) =
                 IF id \in Missing THEN Cardinality(Missing) ELSE Cardinality(Missing) + 1
        BY <4>1, FS_AddElement
      <4> QED
        BY <4>1, <4>2
    <3>3. Cardinality(Missing') <= Cardinality(Missing \cup {id}) /\ Cardinality(Missing') \in Nat
      <4>1. IsFiniteSet(Missing')
        BY <3>1, <3>2, FS_Subset
      <4> QED
        BY <3>1, <3>2, <4>1, FS_Subset, FS_CardinalityType
    <3>4. stats.messageErrors \in Nat
      BY <1>0 DEF TypeOK, Counters
    <3> HIDE DEF Missing
    <3> QED
      BY <1>0, <3>1, <3>2, <3>3, <3>4 DEF LossInv, MissingCounted
  <2> QED
    BY <2>1, <2>2
<1> QED
  BY <1>3, <1>7 DEF LossInv

(* What a concluding turn passes and nobody served was missing already, unless *)
(* the turn restarts an expired cursor.                                        *)
LEMMA ConcludedPasses ==
    ASSUME MailInv, BatchEnds, LossInv, MaxPerRun > 0, Durable,
           NEW r \in AccountStates, Concluding(r),
           NEW m \in Messages, Owner[m] = acct, hist[m] # 0, hist[m] <= r.cursor,
           fate[m] = "pending", ~Passed(m), pc # "expired"
    PROVE  m \in Missing
<1>0. TypeOK /\ acct \in Accounts /\ hist[m] \in Nat /\ mem[acct].cursor \in Nat /\ r.cursor \in Nat
  BY AcctType DEF MailInv, TypeOK, AccountStates
<1>1. CASE hist[m] <= mem[acct].cursor
  BY <1>1 DEF Missing, Slipped
<1>2. CASE ~(hist[m] <= mem[acct].cursor)
  <2>1. hist[m] > mem[acct].cursor
    BY <1>0, <1>2
  <2>2. pc \in {"quiet", "commit"} /\ InTurn
    BY DEF Concluding, ResetRecord, QuietRecord, CommitRecord, InTurn
  <2>3. ~work.truncated
    <3>1. work.truncated => m \in Range(work.ring)
      BY <1>0, <2>1, <2>2, PassedIsRinged DEF MailInv
    <3> QED
      BY <2>2, <3>1 DEF MailInv, RingSound, Settled
  <2>4. ~work.capped
    <3>1. pc = "quiet" => ~work.capped
      BY DEF BatchEnds
    <3>2. pc = "commit" /\ work.capped => r.cursor = mem[acct].cursor
      BY <2>3 DEF Concluding, ResetRecord, QuietRecord, CommitRecord
    <3> QED
      BY <1>0, <2>1, <2>2, <3>1, <3>2
  <2>5. m \in work.listed
    BY <2>1, <2>2, <2>3 DEF LossInv, WholeWindow, Window
  <2>6. m \notin Range(work.todo)
    <3>1. work.todo = <<>>
      BY <2>2 DEF BatchEnds
    <3> QED
      BY <3>1 DEF Range
  <2> QED
    BY <2>2, <2>3, <2>4, <2>5, <2>6 DEF Missing, Failed
<1> QED
  BY <1>1, <1>2

(* While the state file can be read, a seeded account stays seeded. *)
LEMMA EnrolmentStays ==
    ASSUME TypeOK, TypeOK', Enrolment, enrolled' = enrolled, Forward, "state" \notin Faults
    PROVE  Enrolment'
<1>1. \A a \in Accounts : disk[a].cursor \in Nat /\ disk'[a].cursor \in Nat
  BY DEF TypeOK, AccountStates
<1>2. \A a \in Accounts : disk'[a].cursor >= disk[a].cursor
  BY DEF Forward, NoOlder, Reseeded
<1>3. enrolled \subseteq Accounts /\ \A a \in enrolled : disk[a].cursor # 0
  BY DEF Enrolment, TypeOK
<1>4. \A a \in enrolled : disk'[a].cursor # 0
  BY <1>1, <1>2, <1>3
<1> QED
  BY <1>4 DEF Enrolment

(* What a turn ends with, of another account, was the state object's already. *)
LEMMA TurnLoss ==
    ASSUME Calm, MailInv, MailInv', BatchEnds, LossInv, TurnEnds, Forward
    PROVE  LossInv'
<1>0. /\ TypeOK /\ TypeOK' /\ acct \in Accounts /\ mem \in AccountMap /\ disk \in AccountMap
      /\ Owner \in [Messages -> Accounts] /\ ~InTurn' /\ pc' # "expired"
      /\ hist' = hist /\ enrolled' = enrolled /\ stats'.expired = stats.expired
      /\ stats'.messageErrors >= stats.messageErrors /\ "state" \notin Faults /\ MaxPerRun > 0
  BY AcctType, MailAssumption DEF MailInv, TypeOK, AccountMap, TurnEnds, env, InTurn, Calm
<1>1. WholeWindow' /\ ExpiryCounted'
  BY <1>0 DEF WholeWindow, ExpiryCounted
<1>2. Enrolment'
  BY <1>0, EnrolmentStays DEF LossInv
<1>3. Missing' = Slipped'
  BY <1>0 DEF Missing, Failed
<1>4. CASE UNCHANGED <<mem, disk, fate>>
  <2>1. Slipped' \subseteq Slipped
    BY <1>0, <1>4 DEF Slipped, Passed
  <2> QED
    BY <1>0, <1>1, <1>2, <1>3, <2>1, CountedStill DEF LossInv, Missing
<1>5. CASE mem' = disk'
  <2>1. Missing' = {}
    BY <1>0, <1>5, InStepMissesNothing
  <2> HIDE DEF Missing
  <2> QED
    BY <1>0, <1>1, <1>2, <2>1, NoneMissing DEF LossInv
<1>6. ASSUME NEW r \in AccountStates, Keeps(r), disk' = disk,
             \A k \in Messages : fate'[k] = "pending" => fate[k] = "pending"
      PROVE  \A m \in Slipped' : /\ m \in Messages /\ fate'[m] = "pending" /\ fate[m] = "pending"
                                 /\ hist[m] # 0 /\ ~Passed(m)
                                 /\ m \in Slipped \/ (Owner[m] = acct /\ hist[m] <= r.cursor)
  <2> SUFFICES ASSUME NEW m \in Slipped'
               PROVE  /\ m \in Messages /\ fate'[m] = "pending" /\ fate[m] = "pending"
                      /\ hist[m] # 0 /\ ~Passed(m)
                      /\ m \in Slipped \/ (Owner[m] = acct /\ hist[m] <= r.cursor)
    OBVIOUS
  <2>1. /\ m \in Messages /\ fate'[m] = "pending" /\ hist[m] # 0 /\ ~Passed(m)
        /\ hist[m] <= mem'[Owner[m]].cursor
    BY <1>0, <1>6 DEF Slipped, Passed
  <2>2. mem'[Owner[m]] = IF Owner[m] = acct THEN r ELSE mem[Owner[m]]
    BY <1>0, <1>6, <2>1 DEF Keeps, AccountMap
  <2> QED
    BY <1>6, <2>1, <2>2 DEF Slipped
<1>7. CASE Seeded /\ disk' = disk
  <2>1. PICK r \in AccountStates : Keeps(r) /\ SeedRecord(r) /\ Skips
    BY <1>7 DEF Seeded
  <2>2. acct \notin enrolled
    <3>1. mem[acct].cursor = 0 /\ disk[acct].cursor \in Nat
      BY <1>0, <2>1 DEF SeedRecord, TypeOK, AccountStates
    <3>2. disk[acct].cursor = 0
      BY <1>0, <3>1 DEF MailInv, CursorInv, MemoryNoOlder, NoOlder, Reseeded
    <3> QED
      BY <3>2 DEF LossInv, Enrolment
  <2>3. \A k \in Messages : /\ fate'[k] = "pending" => fate[k] = "pending"
                            /\ Owner[k] = acct /\ hist[k] # 0 => fate'[k] # "pending"
    BY <2>1, <2>2 DEF Skips
  <2>4. Slipped' \subseteq Slipped
    BY <1>6, <1>7, <2>1, <2>3
  <2> QED
    BY <1>0, <1>1, <1>2, <1>3, <2>4, CountedStill DEF LossInv, Missing
<1>8. CASE Concluded /\ disk' = disk /\ ErrorCounted
  <2>1. PICK r \in AccountStates : Keeps(r) /\ Concluding(r) /\ fate' = fate
    BY <1>8 DEF Concluded
  <2>2. Durable
    BY <2>1 DEF Keeps
  <2>3. CASE pc = "expired"
    <3>1. stats'.expired > 0 /\ stats'.messageErrors > 0
      <4>1. stats.expired > 0 /\ stats.messageErrors \in Nat
        BY <1>0, <2>3 DEF LossInv, ExpiryCounted, TypeOK, Counters
      <4> QED
        BY <1>0, <1>8, <4>1 DEF ErrorCounted
    <3> QED
      BY <1>1, <1>2, <3>1 DEF LossInv, MissingCounted
  <2>4. CASE pc # "expired"
    <3>1. ASSUME NEW m \in Slipped' PROVE m \in Missing
      <4>1. /\ m \in Messages /\ fate[m] = "pending" /\ hist[m] # 0 /\ ~Passed(m)
            /\ m \in Slipped \/ (Owner[m] = acct /\ hist[m] <= r.cursor)
        BY <1>6, <1>8, <2>1, <3>1
      <4> QED
        BY <1>0, <2>1, <2>2, <2>4, <4>1, ConcludedPasses DEF Missing
    <3>2. Missing' \subseteq Missing
      BY <1>3, <3>1
    <3> HIDE DEF Missing
    <3> QED
      BY <1>0, <1>1, <1>2, <3>2, CountedStill DEF LossInv
  <2> QED
    BY <2>3, <2>4
<1>9. CASE CutShort
  <2>1. PICK r \in AccountStates : Keeps(r) /\ CutRecord(r) /\ fate' = fate /\ disk' = disk
    BY <1>9 DEF CutShort
  <2>2. Slipped' \subseteq Slipped
    BY <1>6, <2>1 DEF CutRecord, Slipped
  <2> QED
    BY <1>0, <1>1, <1>2, <1>3, <2>2, CountedStill DEF LossInv, Missing
<1> QED
  BY <1>4, <1>5, <1>7, <1>8, <1>9 DEF TurnEnds, Seeded, Concluded

LEMMA ListLoss ==
    ASSUME MailInv, MailInv', LossInv, Listed
    PROVE  LossInv'
<1>0. /\ TypeOK /\ TypeOK' /\ acct \in Accounts /\ acct' = acct
      /\ pc' \in {"quiet", "message"} /\ mem' = mem /\ disk' = disk /\ hist' = hist
      /\ fate' = fate /\ enrolled' = enrolled
      /\ stats'.expired = stats.expired /\ stats'.messageErrors = stats.messageErrors
  BY AcctType DEF MailInv, Listed, env, ghosts, acct
<1>1. WholeWindow' /\ Enrolment' /\ ExpiryCounted'
  BY <1>0 DEF LossInv, WholeWindow, Enrolment, ExpiryCounted, Listed, Window
<1>2. Slipped' = Slipped
  BY <1>0 DEF Slipped, Passed
<1>3. ASSUME NEW m \in Failed' PROVE FALSE
  <2>1. /\ m \in work'.listed /\ ~work'.capped /\ m \notin Range(work'.todo)
        /\ fate[m] = "pending"
    BY <1>0, <1>3 DEF Failed
  <2>2. m \in Range(mem[acct].ring)
    BY <2>1 DEF Listed
  <2> QED
    BY <1>0, <2>1, <2>2 DEF MailInv, RingSound, Settled
<1>4. Missing' \subseteq Missing
  BY <1>2, <1>3 DEF Missing
<1>5. stats.messageErrors \in Nat
  BY <1>0 DEF TypeOK, Counters
<1> HIDE DEF Missing
<1> QED
  BY <1>0, <1>1, <1>4, <1>5, CountedStill DEF LossInv

(* A step after which the process is at rest loses sight of nothing... *)
LEMMA RestLoss ==
    ASSUME TypeOK, TypeOK', LossInv, mem' = disk', ~InTurn', pc' # "expired",
           enrolled' = enrolled, Forward, "state" \notin Faults
    PROVE  LossInv'
<1>1. Enrolment'
  BY EnrolmentStays DEF LossInv
<1>2. Missing' = {}
  BY InStepMissesNothing
<1>3. WholeWindow' /\ ExpiryCounted'
  BY DEF WholeWindow, ExpiryCounted
<1> HIDE DEF Missing
<1> QED
  BY <1>1, <1>2, <1>3, NoneMissing DEF LossInv

(* ... and one that touches no cursor and no fate leaves the missing mail. *)
LEMMA StillLoss ==
    ASSUME TypeOK, TypeOK', LossInv, mem' = mem, disk' = disk, fate' = fate,
           enrolled' = enrolled, hist' = hist, WholeWindow', ExpiryCounted',
           Failed' \subseteq Failed, stats'.expired = stats.expired \/ stats'.expired > 0,
           stats'.messageErrors = stats.messageErrors
    PROVE  LossInv'
<1>1. Enrolment'
  BY DEF LossInv, Enrolment
<1>2. Missing' \subseteq Missing
  BY DEF Missing, Slipped, Passed
<1>3. stats'.messageErrors >= stats.messageErrors
  BY DEF TypeOK, Counters
<1> HIDE DEF Missing
<1> QED
  BY <1>1, <1>2, <1>3, CountedStill DEF LossInv

LEMMA NextLoss ==
    ASSUME Calm, MailInv, BatchEnds, LossInv, [Next]_vars
    PROVE  LossInv'
<1>0. /\ MailInv' /\ TypeOK /\ TypeOK' /\ FatesSettle /\ Forward /\ "state" \notin Faults
      /\ acct \in Accounts
  BY NextMailInv, NextSettles, NextCursorInv, AcctType DEF MailInv, Calm
<1>1. CASE MessageStep
  BY <1>0, <1>1, LoopLoss
<1>2. CASE List
  BY <1>0, <1>2, ListShape, ListLoss
<1>3. CASE TurnEnds
  BY <1>0, <1>3, TurnLoss
<1>4. CASE ListExpired
  <2>1. /\ UNCHANGED <<mem, disk, fate>> /\ enrolled' = enrolled /\ hist' = hist
        /\ ~InTurn' /\ stats'.messageErrors = stats.messageErrors /\ stats'.expired > 0
    <3>1. stats' = [stats EXCEPT !.expired = @ + 1] /\ stats.expired \in Nat /\ stats \in Counters
      BY <1>0, <1>4 DEF ListExpired, Count, TypeOK, Counters
    <3>2. stats'.messageErrors = stats.messageErrors /\ stats'.expired = stats.expired + 1
      BY <3>1 DEF Counters
    <3> QED
      BY <1>4, <3>1, <3>2 DEF ListExpired, ghosts, env, InTurn
  <2>2. WholeWindow' /\ ExpiryCounted' /\ Failed' \subseteq Failed
    BY <2>1 DEF WholeWindow, ExpiryCounted, Failed
  <2> QED
    BY <1>0, <2>1, <2>2, StillLoss
<1>5. CASE ArchiveBatch
  <2>1. /\ UNCHANGED <<mem, disk, fate, stats, work, mode>> /\ enrolled' = enrolled
        /\ hist' = hist /\ pc' = "commit" /\ InTurn /\ InTurn' /\ acct' = acct
    BY <1>5 DEF ArchiveBatch, ghosts, env, InTurn, acct
  <2>2. WholeWindow' /\ ExpiryCounted' /\ Failed' \subseteq Failed
    BY <2>1 DEF WholeWindow, ExpiryCounted, Failed, LossInv, Window, Durable
  <2>3. /\ mem' = mem /\ disk' = disk /\ fate' = fate /\ enrolled' = enrolled /\ hist' = hist
        /\ stats'.expired = stats.expired /\ stats'.messageErrors = stats.messageErrors
    BY <2>1
  <2> QED
    BY <1>0, <2>2, <2>3, StillLoss
<1>6. CASE StartRun
  <2>1. /\ pc = "idle" /\ mem' = mem /\ disk' = disk /\ hist' = hist /\ ~InTurn'
        /\ enrolled' = enrolled \cup {a \in Accounts : disk[a].cursor # 0}
        /\ pc' # "expired"
    BY <1>0, <1>6 DEF StartRun, Fault, env, InTurn
  <2>2. mem' = disk'
    BY <2>1 DEF MailInv, Resting
  <2>3. Missing' = {}
    BY <1>0, <2>1, <2>2, InStepMissesNothing
  <2>4. WholeWindow' /\ ExpiryCounted' /\ Enrolment'
    BY <2>1 DEF WholeWindow, ExpiryCounted, Enrolment, LossInv
  <2> HIDE DEF Missing
  <2> QED
    BY <1>0, <2>3, <2>4, NoneMissing DEF LossInv
<1>7. CASE Return \/ Reject \/ Crash
  <2>1. mem' = disk' /\ ~InTurn' /\ pc' # "expired" /\ enrolled' = enrolled
    BY <1>7 DEF Return, Reject, Crash, ghosts, InTurn
  <2> QED
    BY <1>0, <2>1, RestLoss
<1>8. CASE Deliver
  <2>1. /\ pc = "idle" /\ pc' = pc /\ UNCHANGED <<mem, disk, fate, stats>> /\ ~InTurn'
        /\ enrolled' = enrolled
    BY <1>8, BoundsAssumption DEF Calm, Deliver, ghosts, InTurn
  <2>2. mem' = disk'
    BY <2>1 DEF MailInv, Resting
  <2>3. Missing' = {}
    BY <1>0, <2>1, <2>2, InStepMissesNothing
  <2>4. WholeWindow' /\ ExpiryCounted' /\ Enrolment'
    BY <2>1 DEF WholeWindow, ExpiryCounted, Enrolment, LossInv
  <2> HIDE DEF Missing
  <2> QED
    BY <1>0, <2>3, <2>4, NoneMissing DEF LossInv
<1>9. CASE Expire \/ UNCHANGED vars
  <2>1. /\ UNCHANGED <<mem, disk, fate, stats, work, mode, pc>> /\ enrolled' = enrolled
        /\ hist' = hist /\ acct' = acct
    BY <1>9 DEF Expire, vars, ghosts, env, acct
  <2>2. WholeWindow' /\ ExpiryCounted' /\ Failed' \subseteq Failed
    BY <2>1 DEF WholeWindow, ExpiryCounted, Failed, LossInv, Window, Durable, InTurn
  <2>3. /\ mem' = mem /\ disk' = disk /\ fate' = fate /\ enrolled' = enrolled /\ hist' = hist
        /\ stats'.expired = stats.expired /\ stats'.messageErrors = stats.messageErrors
    BY <2>1
  <2> QED
    BY <1>0, <2>2, <2>3, StillLoss
<1> QED
  BY <1>0, <1>1, <1>2, <1>3, <1>4, <1>5, <1>6, <1>7, <1>8, <1>9, NextShape

(* What a step adds to the lost mail was missing, or an expiry is counted. *)
LEMMA LostWasMissing ==
    ASSUME Calm, MailInv, MailInv', MailSound, MailSound', BatchEnds, LossInv, [Next]_vars,
           NEW m \in Lost' \ Lost
    PROVE  /\ m \in Missing \/ (pc = "expired" /\ stats.expired > 0)
           /\ stats'.expired = stats.expired /\ stats'.messageErrors >= stats.messageErrors
<1>0. /\ TypeOK /\ FatesSettle /\ m \in Messages /\ MaxPerRun > 0
      /\ Unserved(m)' => fate'[m] = "pending"
      /\ Unserved(m)' => Unserved(m)
  <2>1. TypeOK /\ FatesSettle /\ m \in Messages /\ MaxPerRun > 0
    BY NextSettles DEF MailInv, Lost, Calm
  <2>2. Unserved(m)' => fate'[m] = "pending"
    BY <2>1 DEF MailSound, NoneMistaken, DuplicatesWereHandled, Unserved
  <2> QED
    BY <2>1, <2>2, ServedStays
<1>1. /\ Owner[m] \in Accounts /\ Unserved(m) /\ hist'[m] = hist[m] /\ hist[m] # 0
      /\ disk'[Owner[m]].cursor >= hist[m] /\ ~(disk[Owner[m]].cursor >= hist[m])
  BY <1>0, NewlyLost DEF MailInv
<1>2. fate[m] = "pending" /\ fate'[m] = "pending" /\ ~Passed(m) /\ hist[m] \in Nat
      /\ mem \in AccountMap /\ disk \in AccountMap /\ acct \in Accounts
  BY <1>0, <1>1, UnservedIsPending, AcctType DEF Lost, Passed, TypeOK, AccountMap
<1>3. hist[m] <= mem[Owner[m]].cursor => m \in Missing
  BY <1>0, <1>1, <1>2 DEF Missing, Slipped
<1>4. CASE Return
  <2>1. disk' = mem /\ stats' = stats
    BY <1>1, <1>4 DEF Return
  <2>2. hist[m] <= mem[Owner[m]].cursor
    BY <1>1, <1>2, <2>1 DEF AccountMap, AccountStates
  <2>3. stats.messageErrors \in Nat
    BY <1>0 DEF TypeOK, Counters
  <2> QED
    BY <1>3, <2>1, <2>2, <2>3
<1>5. CASE TurnEnds
  <2>0. stats'.expired = stats.expired /\ stats'.messageErrors >= stats.messageErrors
    BY <1>5 DEF TurnEnds
  <2>1. PICK r \in AccountStates :
           /\ Keeps(r) /\ disk' = mem'
           /\ (SeedRecord(r) /\ Skips) \/ (Concluding(r) /\ fate' = fate)
    BY <1>1, <1>5 DEF TurnEnds, Seeded, Concluded, CutShort
  <2>2. Durable /\ disk'[Owner[m]] = IF Owner[m] = acct THEN r ELSE mem[Owner[m]]
    BY <1>1, <1>2, <2>1 DEF Keeps, AccountMap
  <2>3. CASE Owner[m] # acct
    <3>1. hist[m] <= mem[Owner[m]].cursor
      BY <1>1, <1>2, <2>2, <2>3 DEF AccountMap, AccountStates
    <3> QED
      BY <1>3, <2>0, <3>1
  <2>4. CASE Owner[m] = acct /\ SeedRecord(r) /\ Skips
    <3>1. mem[acct].cursor = 0 /\ disk[acct].cursor \in Nat
      BY <1>2, <2>4 DEF SeedRecord, AccountMap, AccountStates
    <3>2. disk[acct].cursor = 0
      BY <1>2, <3>1 DEF MailInv, CursorInv, MemoryNoOlder, NoOlder, Reseeded, Calm
    <3>3. acct \notin enrolled
      BY <3>2 DEF LossInv, Enrolment
    <3> QED
      BY <1>0, <1>1, <1>2, <2>4, <3>3 DEF Skips
  <2>5. CASE Owner[m] = acct /\ Concluding(r)
    <3>1. hist[m] <= r.cursor
      BY <1>1, <1>2, <2>2, <2>5 DEF AccountStates
    <3>2. pc # "expired" => m \in Missing
      BY <1>0, <1>1, <1>2, <2>2, <2>5, <3>1, ConcludedPasses
    <3> QED
      BY <2>0, <3>2 DEF LossInv, ExpiryCounted
  <2> QED
    BY <2>1, <2>3, <2>4, <2>5
<1>6. disk' # disk
  BY <1>1
<1>7. disk' # disk => Return \/ TurnEnds
  <2>1. MessageStep => disk' = disk
    BY <1>0, MessageShape DEF Consumed
  <2>2. List => disk' = disk
    BY DEF List
  <2> QED
    BY <1>0, <2>1, <2>2, NextShape
       DEF ListExpired, ArchiveBatch, StartRun, Reject, Crash, Deliver, Expire, vars
<1> QED
  BY <1>4, <1>5, <1>6, <1>7

(* LossIsReported, for every number of accounts and messages, every choice of   *)
(* failing calls, crashes and lost writes, every cap of a run and every page     *)
(* budget: mail that the cursor on disk passes without anyone having served it   *)
(* is counted in the run that loses it, as messageErrors or as an expired        *)
(* window.  The three cases poll.js does not count are the hypotheses.           *)
THEOREM LossesAreCounted == Calm => (Spec => LossIsReported)
<1> SUFFICES ASSUME Calm PROVE Spec => LossIsReported
  OBVIOUS
<1>1. ASSUME MailInv, MailInv', MailSound, MailSound', BatchEnds, LossInv, [Next]_vars,
             ~(Lost' \subseteq Lost), ~(stats'.expired > 0)
      PROVE  Cardinality(Lost' \ Lost) <= stats'.messageErrors
  <2>1. PICK k : k \in Lost' \ Lost
    BY <1>1
  <2>2. stats'.expired = stats.expired /\ stats'.messageErrors >= stats.messageErrors
    BY <1>1, <2>1, LostWasMissing
  <2>3. Lost' \ Lost \subseteq Missing
    <3> SUFFICES ASSUME NEW m \in Lost' \ Lost PROVE m \in Missing
      OBVIOUS
    <3>1. m \in Missing \/ stats.expired > 0
      BY <1>1, LostWasMissing
    <3> QED
      BY <1>1, <2>2, <3>1
  <2>4. /\ Cardinality(Lost' \ Lost) <= Cardinality(Missing) /\ Cardinality(Missing) \in Nat
        /\ Cardinality(Lost' \ Lost) \in Nat
    BY <1>1, <2>3, MissingFinite, FS_CardinalityType DEF MailInv
  <2>5. Cardinality(Missing) <= stats.messageErrors
    <3> HIDE DEF Missing
    <3> QED
      BY <1>1, <2>2 DEF LossInv, MissingCounted
  <2>6. stats.messageErrors \in Nat /\ stats'.messageErrors \in Nat
    BY <1>1 DEF MailInv, TypeOK, Counters
  <2> HIDE DEF Missing, Lost
  <2> QED
    BY <2>2, <2>4, <2>5, <2>6
<1>2. HandlerSound
  BY DEF Calm
<1>3. MailInv => TypeOK /\ Resting
  BY DEF MailInv
<1>4. /\ MailInv /\ MailInv' /\ MailSound /\ MailSound' /\ BatchEnds /\ LossInv /\ [Next]_vars
      => [ \/ Lost' \subseteq Lost
           \/ stats'.expired > 0
           \/ Cardinality(Lost' \ Lost) <= stats'.messageErrors ]_vars
  BY <1>1
<1>5. MailInv /\ BatchEnds /\ LossInv /\ [Next]_vars => LossInv'
  BY NextLoss
<1> QED
  BY <1>2, <1>3, <1>4, <1>5, InitMailInv, NextMailInv, InitMail, NextMail, InitBatchEnds,
     NextBatchEnds, InitLoss, PTL DEF Spec, LossIsReported

(* NowIsCorrect, under the hypotheses the run that violates it does without:    *)
(* while no mail arrives during a run and the state file can be read, a turn    *)
(* that listed its whole window, deferred nothing and saw no message fail moves *)
(* the cursor to "now" without losing anything (poll.js 279-280).               *)
THEOREM NowIsCorrectWhenCalm == Calm => (Spec => NowIsCorrect)
<1> SUFFICES ASSUME Calm PROVE Spec => NowIsCorrect
  OBVIOUS
<1>1. ASSUME MailInv, MailInv', MailSound, MailSound', BatchEnds, LossInv, [Next]_vars,
             pc \in {"quiet", "commit"}, stats.messageErrors = 0, NEW m \in Lost' \ Lost
      PROVE  FALSE
  <2>1. m \in Missing
    BY <1>1, LostWasMissing
  <2>2. stats.messageErrors > 0
    BY <1>1, <2>1 DEF LossInv, MissingCounted
  <2> QED
    BY <1>1, <2>2
<1>2. HandlerSound
  BY DEF Calm
<1>3. MailInv => TypeOK /\ Resting
  BY DEF MailInv
<1>4. /\ MailInv /\ MailInv' /\ MailSound /\ MailSound' /\ BatchEnds /\ LossInv /\ [Next]_vars
      => [ (/\ pc \in {"quiet", "commit"} /\ ~work.truncated /\ ~work.capped
            /\ stats.messageErrors = 0) => Lost' \subseteq Lost ]_vars
  BY <1>1
<1>5. MailInv /\ BatchEnds /\ LossInv /\ [Next]_vars => LossInv'
  BY NextLoss
<1> QED
  BY <1>2, <1>3, <1>4, <1>5, InitMailInv, NextMailInv, InitMail, NextMail, InitBatchEnds,
     NextBatchEnds, InitLoss, PTL DEF Spec, NowIsCorrect

-----------------------------------------------------------------------------
(* The counters of a run and the report they make (PollHealth).  A run starts *)
(* with clear counters, and a counter never goes back while the run lasts, so *)
(* what a turn counts the report still sees.                                  *)

(* The ways a turn ends count no drop, and a turn that ends without a failing *)
(* call counts a stall or nothing.                                            *)
LEMMA ConcludeCounts ==
    ASSUME TypeOK, NEW r \in AccountStates, NEW c \in BOOLEAN, Conclude(r, c)
    PROVE  /\ stats'.quarantined = stats.quarantined
           /\ budget' = budget =>
                /\ stats'.messageErrors = stats.messageErrors
                /\ stats'.accountErrors = stats.accountErrors
                /\ \/ stats'.maxStalled = stats.maxStalled
                   \/ r.cursor = mem[acct].cursor /\ ~work.progressed /\ ~c /\ Durable
<1> DEFINE progress == r.cursor # mem[acct].cursor \/ work.progressed \/ c
           stalled == IF progress THEN 0
                      ELSE IF r.stalled < StallCap THEN r.stalled + 1 ELSE StallCap
           worst == IF Durable /\ stalled > stats.maxStalled THEN stalled ELSE stats.maxStalled
           s == [stats EXCEPT !.maxStalled = worst]
<1>1. stats \in Counters /\ budget \in Nat /\ stats.maxStalled \in Nat
  BY DEF TypeOK, Counters
<1>2. EndTurn([mem EXCEPT ![acct] = [r EXCEPT !.stalled = stalled]], s, "messageErrors")
  BY DEF Conclude
<1>3. progress \/ ~Durable => worst = stats.maxStalled
  BY <1>1
<1> HIDE DEF worst, stalled
<1>4. /\ s.quarantined = stats.quarantined /\ s.messageErrors = stats.messageErrors
      /\ s.accountErrors = stats.accountErrors /\ s.maxStalled = worst
      /\ Count(s, "messageErrors").quarantined = stats.quarantined
  BY <1>1 DEF Counters, Count
<1> HIDE DEF s
<1>5. \/ budget' = budget /\ stats' = s
      \/ budget' = budget - 1 /\ stats' = Count(s, "messageErrors")
  BY <1>2 DEF EndTurn, NoFault, Fault
<1> QED
  BY <1>1, <1>3, <1>4, <1>5

LEMMA LoopCounts ==
    ASSUME TypeOK, MessageStep
    PROVE  /\ stats'.quarantined >= stats.quarantined
           /\ \A m \in Messages :
                 fate'[m] = "quarantined" => fate[m] = "quarantined" \/ stats'.quarantined > 0
           /\ budget' = budget /\ Poison = {} => stats' = stats
<1>1. pc = "message" /\ id \in Messages /\ stats \in Counters /\ budget \in Nat
      /\ stats.quarantined \in Nat /\ fate \in [Messages -> Fates]
  <2>1. pc = "message"
    BY DEF MessageStep, InLoop, FetchGone, HandlerGone, ScreenOut, SkipDuplicate, Handle,
           FetchThrows, HandlerThrows
  <2> QED
    BY <2>1, IdType DEF TypeOK, Counters, Fates
<1>2. ASSUME NEW f \in Fates, f # "quarantined", Becomes(id, f)
      PROVE  \A m \in Messages : fate'[m] = "quarantined" => fate[m] = "quarantined"
  BY <1>1, <1>2 DEF Becomes
<1>3. CASE FetchGone \/ HandlerGone \/ ScreenOut \/ SkipDuplicate
  <2>1. stats' = stats
    BY <1>3 DEF FetchGone, HandlerGone, ScreenOut, SkipDuplicate
  <2>2. \E f \in {"gone", "mistaken", "screened", "duplicate"} : fate' = fate \/ Becomes(id, f)
    BY <1>3 DEF FetchGone, HandlerGone, ScreenOut, SkipDuplicate, Retire
  <2> QED
    BY <1>1, <1>2, <2>1, <2>2 DEF Fates
<1>4. CASE Handle
  <2>1. stats' = stats /\ (fate' = fate \/ fate' = [fate EXCEPT ![id] = "handled"])
    BY <1>4 DEF Handle
  <2> QED
    BY <1>1, <2>1
<1>5. ASSUME Struck(id)
      PROVE  /\ stats'.quarantined >= stats.quarantined
             /\ fate' = fate \/ stats'.quarantined > 0
  <2> DEFINE failed == Count(stats, "messageErrors")
  <2>1. /\ failed.quarantined = stats.quarantined
        /\ Count(failed, "quarantined").quarantined = stats.quarantined + 1
    BY <1>1 DEF Count, Counters
  <2> HIDE DEF failed
  <2>2. \/ stats' = failed /\ fate' = fate
        \/ stats' = Count(failed, "quarantined")
    BY <1>5 DEF Struck, failed
  <2> QED
    BY <1>1, <2>1, <2>2
<1>6. CASE FetchThrows \/ HandlerThrows
  <2>1. Struck(id)
    BY <1>6 DEF FetchThrows, HandlerThrows
  <2>2. budget' = budget => Poison # {}
    BY <1>1, <1>6 DEF FetchThrows, HandlerThrows, Fault
  <2> QED
    BY <1>1, <1>5, <2>1, <2>2
<1> QED
  BY <1>3, <1>4, <1>6 DEF MessageStep

(* Nothing that a step of a run counts is ever taken off again, and a message *)
(* is only dropped by a step that counts the drop.                            *)
LEMMA TurnCounts ==
    ASSUME TypeOK, TurnStep
    PROVE  /\ stats'.messageErrors >= stats.messageErrors
           /\ stats'.expired >= stats.expired
           /\ stats'.quarantined >= stats.quarantined
           /\ \A m \in Messages :
                 fate'[m] = "quarantined" => fate[m] = "quarantined" \/ stats'.quarantined > 0
<1>1. stats \in Counters /\ stats.messageErrors \in Nat /\ stats.expired \in Nat
      /\ stats.quarantined \in Nat /\ fate \in [Messages -> Fates]
      /\ mem[acct] \in AccountStates /\ profile[acct] \in Nat
  BY AcctType DEF TypeOK, Counters, Fates
<1>2. CASE MessageStep
  BY <1>1, <1>2, MessageShape, LoopCounts
<1>3. CASE List
  <2>1. stats'.quarantined = stats.quarantined /\ fate' = fate
    BY <1>1, <1>3 DEF List, Begin, Counters, ghosts
  <2>2. stats'.messageErrors = stats.messageErrors /\ stats'.expired = stats.expired
    BY <1>3, ListShape DEF Listed
  <2> QED
    BY <1>1, <2>1, <2>2
<1>4. CASE ListExpired
  <2>1. stats' = Count(stats, "expired") /\ fate' = fate
    BY <1>4 DEF ListExpired, ghosts
  <2> QED
    BY <1>1, <2>1 DEF Count, Counters
<1>5. CASE ArchiveBatch
  <2>1. stats' = stats /\ fate' = fate
    BY <1>5 DEF ArchiveBatch, ghosts
  <2> QED
    BY <1>1, <2>1
<1>6. ASSUME NEW s \in Counters, NEW u \in {"messageErrors", "accountErrors"},
             s.quarantined = stats.quarantined, stats' = s \/ stats' = Count(s, u)
      PROVE  stats'.quarantined = stats.quarantined
  BY <1>6 DEF Count, Counters
<1>7. CASE Unreachable
  <2>1. stats' = Count(stats, "accountErrors") /\ fate' = fate
    BY <1>7 DEF Unreachable, GiveUp, ghosts
  <2>2. stats'.quarantined = stats.quarantined /\ stats'.messageErrors = stats.messageErrors
        /\ stats'.expired = stats.expired
    BY <1>1, <2>1 DEF Count, Counters
  <2> QED
    BY <1>1, <2>1, <2>2
<1>8. CASE Seed
  <2>1. /\ stats' = stats \/ stats' = Count(stats, "accountErrors")
        /\ \A m \in Messages : fate'[m] = fate[m] \/ fate'[m] = "skipped"
    BY <1>8 DEF Seed, EndTurn
  <2>2. stats'.quarantined = stats.quarantined /\ stats'.messageErrors = stats.messageErrors
        /\ stats'.expired = stats.expired
    BY <1>1, <2>1 DEF Count, Counters
  <2> QED
    BY <1>1, <2>1, <2>2
<1>9. ASSUME stats'.quarantined = stats.quarantined, fate' = fate, TurnEnds
      PROVE  /\ stats'.messageErrors >= stats.messageErrors
             /\ stats'.expired >= stats.expired
             /\ stats'.quarantined >= stats.quarantined
             /\ \A m \in Messages :
                   fate'[m] = "quarantined" => fate[m] = "quarantined" \/ stats'.quarantined > 0
  BY <1>1, <1>9 DEF TurnEnds
<1>10. ASSUME NEW m, NEW u \in {"messageErrors"}, GiveUp(m, u)
       PROVE  stats'.quarantined = stats.quarantined
  BY <1>1, <1>10 DEF GiveUp, Count, Counters
<1>11. CASE ResetExpired \/ QuietTurn \/ Commit
  <2>1. fate' = fate /\ pc \in {"expired", "quiet", "commit"}
    BY <1>11 DEF ResetExpired, QuietTurn, Commit, ghosts
  <2>2. \/ \E r \in AccountStates, c \in BOOLEAN : Conclude(r, c)
        \/ \E m : GiveUp(m, "messageErrors")
    <3>1. CASE ResetExpired
      <4>1. [mem[acct] EXCEPT !.cursor = profile[acct]] \in AccountStates
        BY <1>1 DEF AccountStates
      <4> QED
        BY <3>1, <4>1 DEF ResetExpired
    <3>2. CASE QuietTurn
      <4>1. \A c \in NextCursors : [mem[acct] EXCEPT !.cursor = c] \in AccountStates
        BY <1>1, NextCursorsNat DEF AccountStates
      <4> QED
        BY <3>2, <4>1 DEF QuietTurn
    <3>3. CASE Commit
      <4>1. LastN(work.ring, RingMax) \in Seq(Messages)
            /\ LastN(work.strikes, MaxTracked) \in Seq(Strikes)
        BY LastNType, BoundsAssumption DEF TypeOK, Works
      <4>2. \A c \in Nat : [mem[acct] EXCEPT !.cursor = c, !.kept = TRUE,
                               !.ring = LastN(work.ring, RingMax),
                               !.strikes = LastN(work.strikes, MaxTracked)] \in AccountStates
        BY <1>1, <4>1 DEF AccountStates
      <4>3. mem[acct].cursor \in Nat
        BY <1>1 DEF AccountStates
      <4> QED
        BY <3>3, <4>2, <4>3, NextCursorsNat DEF Commit
    <3> QED
      BY <1>11, <3>1, <3>2, <3>3
  <2>3. stats'.quarantined = stats.quarantined
    BY <1>10, <2>2, ConcludeCounts
  <2>4. TurnEnds
    <3>1. ~MessageStep /\ ~List /\ ~ListExpired /\ ~ArchiveBatch
      BY <2>1 DEF MessageStep, InLoop, FetchGone, HandlerGone, ScreenOut, SkipDuplicate,
         Handle, FetchThrows, HandlerThrows, List, ListExpired, ArchiveBatch
    <3> QED
      BY <3>1, TurnShape
  <2> QED
    BY <1>9, <2>1, <2>3, <2>4
<1> QED
  BY <1>2, <1>3, <1>4, <1>5, <1>7, <1>8, <1>11 DEF TurnStep

(* The failures left to an instance are never handed back. *)
LEMMA BudgetFalls ==
    ASSUME TypeOK, [Next]_vars
    PROVE  budget' = budget \/ budget' = budget - 1
<1> USE DEF Fault, NoFault
<1>1. CASE MessageStep
  BY <1>1 DEF MessageStep, FetchGone, HandlerGone, ScreenOut, SkipDuplicate, Handle,
     FetchThrows, HandlerThrows
<1>2. CASE ResetExpired \/ QuietTurn \/ Commit
  BY <1>2 DEF ResetExpired, QuietTurn, Commit, Conclude, EndTurn
<1>3. CASE Unreachable \/ Seed \/ ListExpired \/ List \/ ArchiveBatch
  BY <1>3 DEF Unreachable, Seed, EndTurn, ListExpired, List, ArchiveBatch
<1>4. CASE StartRun \/ Return \/ Reject \/ Crash \/ Deliver \/ Expire
  BY <1>4 DEF StartRun, Return, Reject, Crash, Deliver, Expire
<1>5. CASE UNCHANGED vars
  BY <1>5 DEF vars
<1> QED
  BY <1>1, <1>2, <1>3, <1>4, <1>5 DEF Next, RunStep, TurnStep

(* What the report says of a run's counters.  They are counts, and the sum of *)
(* the errors is theirs, so the split is trusted.                             *)
LEMMA CountsAreValid ==
    ASSUME TypeOK
    PROVE  /\ producerHealthStats.fetched \in Nat
           /\ producerHealthStats.messageErrors = stats.messageErrors
           /\ producerHealthStats.accountErrors = stats.accountErrors
           /\ producerHealthStats.historyExpired = stats.expired
           /\ producerHealthStats.maxStalledRuns = stats.maxStalled
           /\ producerHealthStats.quarantined = stats.quarantined
           /\ producerHealthStats.sentSilentAccounts = 0
           /\ stats.messageErrors \in Nat /\ stats.accountErrors \in Nat /\ stats.expired \in Nat
           /\ stats.maxStalled \in Nat /\ stats.quarantined \in Nat
           /\ SplitIsCoherent(producerHealthStats)
  BY DEF producerHealthStats, TypeOK, Counters, SplitIsCoherent, validCount

LEMMA WorstShows ==
    ASSUME NEW V, "down" \in V \/ "degraded" \in V
    PROVE  WorstOf(V) # "ok" /\ ("down" \in V => WorstOf(V) = "down")
  BY DEF WorstOf

LEMMA MessageErrorShows ==
    ASSUME TypeOK, stats.messageErrors > 0
    PROVE  reportProducerHealth(producerHealthStats, "pass") # "ok"
<1> DEFINE s == producerHealthStats
<1>1. /\ SplitIsCoherent(s) /\ s.messageErrors # 0 /\ s.fetched \in Nat
  BY CountsAreValid
<1> HIDE DEF s
<1>2. computeProducerStatus(s) \in {"down", "degraded"}
  BY <1>1 DEF computeProducerStatus, SplitStatus, validCount
<1>3. "down" \in Verdicts(s, "pass") \/ "degraded" \in Verdicts(s, "pass")
  BY <1>2 DEF Verdicts
<1> QED
  BY <1>3, WorstShows DEF reportProducerHealth, s

LEMMA ExpiryOrDropIsDown ==
    ASSUME TypeOK, stats.expired > 0 \/ stats.quarantined > 0
    PROVE  reportProducerHealth(producerHealthStats, "pass") = "down"
<1> DEFINE s == producerHealthStats
<1>1. \/ s.historyExpired \in Nat /\ s.historyExpired >= 1
      \/ s.quarantined \in Nat /\ s.quarantined >= 1
  BY CountsAreValid
<1> HIDE DEF s
<1>2. Checks(s, "pass").expired = "fail" \/ Checks(s, "pass").quarantined = "fail"
  BY <1>1 DEF Checks, computeHistoryExpiredCheck, computeQuarantineCheck, CountCheck, validCount
<1>3. "expired" \in DOMAIN Checks(s, "pass") /\ "quarantined" \in DOMAIN Checks(s, "pass")
  BY DEF Checks
<1>4. HEALTH_STATUS_BY_CHECK_STATUS["fail"] = "down"
  BY DEF HEALTH_STATUS_BY_CHECK_STATUS
<1>5. "down" \in Verdicts(s, "pass")
  BY <1>2, <1>3, <1>4 DEF Verdicts
<1> QED
  BY <1>5, WorstShows DEF reportProducerHealth, s

LEMMA QuietRunIsNotDown ==
    ASSUME TypeOK, stats.expired = 0, stats.quarantined = 0, stats.maxStalled = 0,
           stats.messageErrors = 0, stats.accountErrors = 0
    PROVE  reportProducerHealth(producerHealthStats, "pass") # "down"
<1> DEFINE s == producerHealthStats
           checks == Checks(s, "pass")
<1>1. /\ SplitIsCoherent(s) /\ s.messageErrors = 0 /\ s.accountErrors = 0
      /\ s.historyExpired = 0 /\ s.quarantined = 0 /\ s.maxStalledRuns = 0
      /\ s.sentSilentAccounts = 0
  BY CountsAreValid
<1> HIDE DEF s
<1>2. computeProducerStatus(s) = "ok"
  BY <1>1 DEF computeProducerStatus, SplitStatus
<1>3. ASSUME NEW c \in DOMAIN checks PROVE checks[c] \in {"pass", "warn"}
  <2>1. /\ computeHistoryExpiredCheck(0) = "pass" /\ computeQuarantineCheck(0) = "pass"
        /\ computeStallCheck(0) = "pass" /\ computeSentSilentCheck(0) = "pass"
        /\ computeTruncationCheck(s.truncated) \in {"pass", "warn"}
    BY StallFailAssumption DEF computeHistoryExpiredCheck, computeQuarantineCheck,
       computeStallCheck, computeSentSilentCheck, computeTruncationCheck, CountCheck, validCount
  <2> QED
    BY <1>1, <1>3, <2>1 DEF Checks
<1> HIDE DEF checks
<1>4. \A v \in {"pass", "warn"} : HEALTH_STATUS_BY_CHECK_STATUS[v] # "down"
  BY DEF HEALTH_STATUS_BY_CHECK_STATUS
<1>5. "down" \notin Verdicts(s, "pass")
  BY <1>2, <1>3, <1>4 DEF Verdicts, checks
<1>6. WorstOf(Verdicts(s, "pass")) # "down"
  <2> DEFINE V == Verdicts(s, "pass")
  <2>1. "down" \notin V
    BY <1>5
  <2>2. V \subseteq {"down", "degraded", "ok"}
    <3>1. \A c \in DOMAIN checks : HEALTH_STATUS_BY_CHECK_STATUS[checks[c]] \in {"ok", "degraded"}
      BY <1>3 DEF HEALTH_STATUS_BY_CHECK_STATUS
    <3> QED
      BY <1>2, <3>1 DEF Verdicts, checks
  <2> HIDE DEF V
  <2>3. WorstOf(V) # "down"
    BY <2>1, <2>2 DEF WorstOf
  <2> QED
    BY <2>3 DEF V
<1> QED
  BY <1>6 DEF reportProducerHealth, s

LEMMA TurnIsInRun == TurnStep => pc \notin {"idle", "finish"}
<1>1. MessageStep => pc = "message"
  BY DEF MessageStep, InLoop, FetchGone, HandlerGone, ScreenOut, SkipDuplicate, Handle,
     FetchThrows, HandlerThrows
<1> QED
  BY <1>1 DEF TurnStep, Unreachable, Seed, ListExpired, List, ResetExpired, QuietTurn,
     ArchiveBatch, Commit

(* Every step of a producer is a step of poll(). *)
LEMMA HealthStep ==
    ASSUME [HNext]_healthVars
    PROVE  /\ [Next]_vars
           /\ \/ Started \/ Reported \/ Unreported \/ Died
              \/ TurnStep /\ before' = before
              \/ (Deliver \/ Expire \/ UNCHANGED vars) /\ before' = before
  BY DEF HNext, Started, Reported, Unreported, Died, Within, healthVars, Next, RunStep

(* A report is made by the step that returns the counters. *)
LEMMA ReportingStep ==
    ASSUME [HNext]_healthVars, RunReports
    PROVE  Reported
<1>1. pc = "finish" /\ pc' = "idle" /\ health' # "none"
  BY DEF RunReports
<1>2. ~Started /\ ~Unreported /\ ~Died /\ ~TurnStep
  BY <1>1, TurnIsInRun DEF Started, StartRun, Unreported, Died
<1>3. ~Deliver /\ ~Expire /\ ~UNCHANGED vars
  BY <1>1 DEF Deliver, Expire, vars
<1> QED
  BY <1>2, <1>3, HealthStep

(* GreenMeansNothingMissed.  What was missed since the run began is on its    *)
(* counters while the run lasts; what the last write may still add to it was  *)
(* missing before, and MissingCounted has counted that.                       *)
GreenInv ==
    pc # "idle" =>
        /\ \A m \in Lost : \/ m \in before.missed
                           \/ stats.messageErrors > 0 \/ stats.expired > 0
        /\ \A m \in Messages : fate[m] = "quarantined" =>
                           m \in before.missed \/ stats.quarantined > 0

LEMMA InitGreen == HInit => GreenInv
  BY DEF HInit, Init, GreenInv

(* Newly lost mail is on the counters already. *)
LEMMA LossShows ==
    ASSUME Calm, MailInv, MailInv', MailSound, MailSound', BatchEnds, LossInv, [Next]_vars,
           NEW m \in Lost' \ Lost
    PROVE  stats.messageErrors > 0 \/ stats.expired > 0
  BY LostWasMissing DEF LossInv, MissingCounted

LEMMA NextGreen ==
    ASSUME Calm, MailInv, MailInv', MailSound, MailSound', BatchEnds, LossInv, GreenInv,
           [HNext]_healthVars
    PROVE  GreenInv'
<1>0. TypeOK /\ [Next]_vars
  BY HealthStep DEF MailInv
<1>1. CASE Started
  <2>1. /\ hist' = hist /\ disk' = disk /\ fate' = fate
        /\ before'.missed = Lost \cup {m \in Messages : fate[m] = "quarantined"}
    BY <1>1 DEF Started, StartRun, env, Missed
  <2>2. Lost' = Lost
    BY <2>1 DEF Lost, Passed, Unserved, HandledCopy
  <2> HIDE DEF Lost
  <2> QED
    BY <2>1, <2>2 DEF GreenInv
<1>2. CASE Reported \/ Unreported \/ Died
  BY <1>2 DEF Reported, Return, Unreported, Reject, Died, Crash, GreenInv
<1>3. ASSUME before' = before, pc # "idle",
             /\ stats'.messageErrors >= stats.messageErrors
             /\ stats'.expired >= stats.expired /\ stats'.quarantined >= stats.quarantined,
             \A m \in Messages :
                fate'[m] = "quarantined" => fate[m] = "quarantined" \/ stats'.quarantined > 0
      PROVE  GreenInv'
  <2>1. /\ stats.messageErrors \in Nat /\ stats.expired \in Nat /\ stats.quarantined \in Nat
        /\ stats'.messageErrors \in Nat /\ stats'.expired \in Nat /\ stats'.quarantined \in Nat
    BY DEF MailInv, TypeOK, Counters
  <2>2. ASSUME NEW m \in Lost'
        PROVE  m \in before.missed \/ stats'.messageErrors > 0 \/ stats'.expired > 0
    <3>1. m \in Lost => m \in before.missed \/ stats.messageErrors > 0 \/ stats.expired > 0
      BY <1>3 DEF GreenInv
    <3>2. m \notin Lost => stats.messageErrors > 0 \/ stats.expired > 0
      BY <1>0, <2>2, LossShows
    <3> QED
      BY <1>3, <2>1, <3>1, <3>2
  <2>3. ASSUME NEW m \in Messages, fate'[m] = "quarantined"
        PROVE  m \in before.missed \/ stats'.quarantined > 0
    BY <1>3, <2>1, <2>3 DEF GreenInv
  <2> HIDE DEF Lost
  <2> QED
    BY <1>3, <2>2, <2>3 DEF GreenInv
<1>4. CASE TurnStep /\ before' = before
  <2>1. pc # "idle"
    BY <1>4, TurnIsInRun
  <2> QED
    BY <1>0, <1>3, <1>4, <2>1, TurnCounts
<1>5. CASE (Deliver \/ Expire \/ UNCHANGED vars) /\ before' = before
  <2>1. stats' = stats /\ pc' = pc /\ fate' = fate
    BY <1>5 DEF Deliver, Expire, vars, ghosts
  <2>2. stats.messageErrors \in Nat /\ stats.expired \in Nat /\ stats.quarantined \in Nat
    BY <1>0 DEF TypeOK, Counters
  <2>3. CASE pc = "idle"
    BY <2>1, <2>3 DEF GreenInv
  <2> QED
    BY <1>3, <1>5, <2>1, <2>2, <2>3
<1> QED
  BY <1>1, <1>2, <1>4, <1>5, HealthStep

(* README and producer-health.js 178-217, for every number of accounts and    *)
(* messages, every cap, and every choice of failing calls, crashes and lost   *)
(* writes: a run that the cursor passed mail in, or dropped a message in, is  *)
(* never reported "ok", and never less than "down" when it dropped one.  The  *)
(* hypotheses are the cases poll.js itself does not count (Calm).             *)
THEOREM GreenReportsAreTrue == Calm => (HSpec => GreenMeansNothingMissed)
<1> SUFFICES ASSUME Calm PROVE HSpec => GreenMeansNothingMissed
  OBVIOUS
<1>1. ASSUME MailInv, MailInv', MailSound, MailSound', BatchEnds, LossInv, GreenInv,
             [HNext]_healthVars, RunReports
      PROVE  /\ health' = "ok" => Missed' \subseteq before.missed
             /\ health' # "down" =>
                   \A m \in Messages : fate'[m] = "quarantined" => m \in before.missed
  <2>1. pc = "finish" /\ pc' = "idle" /\ health' # "none"
    BY <1>1 DEF RunReports
  <2>2. Reported
    BY <1>1, ReportingStep
  <2>3. /\ fate' = fate /\ health' = reportProducerHealth(producerHealthStats, "pass")
    BY <2>2 DEF Reported, Return, ghosts
  <2>4. ASSUME NEW m \in Messages, fate[m] = "quarantined", m \notin before.missed
        PROVE  health' = "down"
    <3>1. stats.quarantined > 0
      BY <1>1, <2>1, <2>4 DEF GreenInv
    <3> QED
      BY <1>1, <2>3, <3>1, ExpiryOrDropIsDown DEF MailInv
  <2>5. ASSUME NEW m \in Lost', m \notin before.missed
        PROVE  health' # "ok"
    <3>1. stats.messageErrors > 0 \/ stats.expired > 0
      <4>1. CASE m \in Lost
        BY <1>1, <2>1, <2>5, <4>1 DEF GreenInv
      <4>2. CASE m \notin Lost
        BY <1>1, <2>5, <4>2, LossShows, HealthStep
      <4> QED
        BY <4>1, <4>2
    <3> QED
      BY <1>1, <2>3, <3>1, ExpiryOrDropIsDown, MessageErrorShows DEF MailInv
  <2>6. Missed' = Lost' \cup {m \in Messages : fate[m] = "quarantined"}
    BY <2>3 DEF Missed
  <2> HIDE DEF Lost
  <2> QED
    BY <2>3, <2>4, <2>5, <2>6
<1>2. HandlerSound
  BY DEF Calm
<1>3. MailInv => TypeOK /\ Resting
  BY DEF MailInv
<1>4. /\ MailInv /\ MailInv' /\ MailSound /\ MailSound' /\ BatchEnds /\ LossInv /\ GreenInv
      /\ [HNext]_healthVars
      => [ RunReports =>
             /\ health' = "ok" => Missed' \subseteq before.missed
             /\ health' # "down" =>
                   \A m \in Messages : fate'[m] = "quarantined" => m \in before.missed ]_healthVars
  BY <1>1
<1>5. MailInv /\ BatchEnds /\ LossInv /\ [Next]_vars => LossInv'
  BY NextLoss
<1>6. /\ MailInv /\ MailInv' /\ MailSound /\ MailSound' /\ BatchEnds /\ LossInv /\ GreenInv
      /\ [HNext]_healthVars
      => GreenInv'
  BY NextGreen
<1>7. HInit => Init
  BY DEF HInit
<1>8. [HNext]_healthVars => [Next]_vars
  BY HealthStep
<1> QED
  BY <1>2, <1>3, <1>4, <1>5, <1>6, <1>7, <1>8, InitGreen, InitMailInv, NextMailInv, InitMail,
     NextMail, InitBatchEnds, NextBatchEnds, InitLoss, PTL DEF HSpec, GreenMeansNothingMissed

-----------------------------------------------------------------------------
(* DownIsEarned.  A run in which no call failed and no expired window was met *)
(* has counted nothing red: the interesting case is the stall count, for such *)
(* a turn must be seen to have progressed.  A batch none of whose messages    *)
(* failed has ringed at least its first message, which the ring did not hold; *)
(* a quiet turn has every message it listed ringed already, so on a truncated *)
(* window the watermark moves.                                                *)
Sturdy == Broken = {} /\ Poison = {} /\ MaxPerRun > 0

Unfailed == budget = before.budget /\ stats.expired = 0
NothingRed ==
    /\ stats.messageErrors = 0 /\ stats.accountErrors = 0
    /\ stats.quarantined = 0 /\ stats.maxStalled = 0
Progresses ==
    Durable =>
        /\ pc = "message" => work.progressed \/ id \notin Range(work.ring)
        /\ pc \in {"archive", "commit"} => work.progressed
EarnedInv ==
    pc # "idle" =>
        /\ before.budget \in Nat /\ budget <= before.budget
        /\ ExpiryCounted
        /\ pc = "quiet" => work.listed \subseteq Range(work.ring)
        /\ Unfailed => NothingRed /\ Progresses

LEMMA InitEarned == HInit => EarnedInv
  BY DEF HInit, Init, EarnedInv

(* A quiet turn that listed part of its window moves the cursor. *)
LEMMA QuietTurnMoves ==
    ASSUME TypeOK, CursorInv, StallSound, pc = "quiet", work.truncated, work.listed # {},
           work.listed \subseteq Range(work.ring), NEW c \in NextCursors
    PROVE  c # mem[acct].cursor
<1>1. c \in Watermarks(work.listed, work.ring, mem[acct].cursor)
  BY DEF NextCursors
<1>2. PICK k \in work.listed : c = hist[k]
  BY <1>1, WatermarkMeaning
<1>3. hist[k] > mem[acct].cursor
  BY <1>2 DEF CursorInv, WindowBeyond
<1>4. hist[k] \in Nat /\ mem[acct].cursor \in Nat
  BY <1>2, AcctType DEF TypeOK, Works, AccountStates
<1> QED
  BY <1>2, <1>3, <1>4

(* A step of a turn in which nothing failed counts nothing red. *)
LEMMA UnfailedStep ==
    ASSUME Sturdy, TypeOK, CursorInv, StallSound, TurnStep, budget' = budget,
           NothingRed, Progresses, pc # "expired", stats'.expired = 0,
           pc = "quiet" => work.listed \subseteq Range(work.ring)
    PROVE  NothingRed'
<1>1. stats \in Counters /\ mem[acct] \in AccountStates /\ budget \in Nat
      /\ ~ \E f : Fault(f)
  BY AcctType DEF TypeOK, Fault
<1>2. CASE MessageStep
  BY <1>2, LoopCounts DEF Sturdy, NothingRed
<1>3. CASE List
  <2>1. /\ stats'.messageErrors = stats.messageErrors
        /\ stats'.accountErrors = stats.accountErrors
        /\ stats'.quarantined = stats.quarantined /\ stats'.maxStalled = stats.maxStalled
    BY <1>1, <1>3 DEF List, Begin, Counters
  <2> QED
    BY <2>1 DEF NothingRed
<1>4. CASE ListExpired
  <2>1. stats'.expired = stats.expired + 1 /\ stats.expired \in Nat
    BY <1>1, <1>4 DEF ListExpired, Count, Counters
  <2> QED
    BY <2>1
<1>5. CASE ArchiveBatch
  BY <1>5 DEF ArchiveBatch, NothingRed
<1>6. CASE Unreachable
  BY <1>1, <1>6 DEF Unreachable, Sturdy
<1>7. CASE Seed
  <2>1. stats' = stats
    BY <1>1, <1>7 DEF Seed, EndTurn
  <2> QED
    BY <2>1 DEF NothingRed
<1>8. CASE ResetExpired
  BY <1>8 DEF ResetExpired
<1>9. ASSUME NEW r \in AccountStates, NEW c \in BOOLEAN, Conclude(r, c),
             ~(r.cursor = mem[acct].cursor /\ ~work.progressed /\ ~c /\ Durable)
      PROVE  NothingRed'
  BY <1>9, ConcludeCounts DEF NothingRed
<1>10. CASE QuietTurn
  <2>1. PICK cursor \in NextCursors :
           Conclude([mem[acct] EXCEPT !.cursor = cursor], work.listed = {} \/ ~work.truncated)
    BY <1>1, <1>10 DEF QuietTurn
  <2> DEFINE r == [mem[acct] EXCEPT !.cursor = cursor]
             c == work.listed = {} \/ ~work.truncated
  <2>2. r \in AccountStates /\ r.cursor = cursor
    BY <1>1, NextCursorsNat DEF AccountStates
  <2>3. c \in BOOLEAN /\ Conclude(r, c)
    BY <2>1
  <2>4. c \/ cursor # mem[acct].cursor
    BY <1>10, QuietTurnMoves DEF QuietTurn
  <2> HIDE DEF r, c
  <2> QED
    BY <1>9, <2>2, <2>3, <2>4
<1>11. CASE Commit
  <2>1. PICK cursor \in IF work.truncated \/ ~work.capped THEN NextCursors
                        ELSE {mem[acct].cursor} :
           Conclude([mem[acct] EXCEPT !.cursor = cursor, !.kept = TRUE,
                        !.ring = LastN(work.ring, RingMax),
                        !.strikes = LastN(work.strikes, MaxTracked)], FALSE)
    BY <1>1, <1>11 DEF Commit
  <2> DEFINE r == [mem[acct] EXCEPT !.cursor = cursor, !.kept = TRUE,
                      !.ring = LastN(work.ring, RingMax),
                      !.strikes = LastN(work.strikes, MaxTracked)]
  <2>2. r \in AccountStates
    <3>1. LastN(work.ring, RingMax) \in Seq(Messages)
          /\ LastN(work.strikes, MaxTracked) \in Seq(Strikes)
      BY LastNType, BoundsAssumption DEF TypeOK, Works
    <3>2. cursor \in Nat
      BY <1>1, NextCursorsNat DEF AccountStates
    <3> QED
      BY <1>1, <3>1, <3>2 DEF AccountStates
  <2>3. Conclude(r, FALSE)
    BY <2>1
  <2>4. work.progressed \/ ~Durable
    BY <1>11 DEF Commit, Progresses
  <2> HIDE DEF r
  <2> QED
    BY <1>9, <2>2, <2>3, <2>4
<1> QED
  BY <1>2, <1>3, <1>4, <1>5, <1>6, <1>7, <1>8, <1>10, <1>11 DEF TurnStep

(* And it leaves the turn progressing, for the first message the batch takes  *)
(* is one the ring did not hold.                                              *)
LEMMA UnfailedProgress ==
    ASSUME Sturdy, TypeOK, TurnStep, budget' = budget, Progresses
    PROVE  Progresses'
<1>1. CASE MessageStep
  <2>1. stats' = stats /\ stats.messageErrors \in Nat
    BY <1>1, LoopCounts DEF Sturdy, TypeOK, Counters
  <2>2. /\ pc = "message" /\ mode' = mode
        /\ Held \/ Retires \/ IsHandled \/ Drops
    BY <1>1, MessageShape DEF Consumed
  <2>3. Durable => Rings
    BY <2>1, <2>2 DEF Held, Retires, IsHandled, Drops
  <2>4. Durable => work'.progressed
    BY <2>2, <2>3 DEF Rings, Progresses
  <2> QED
    BY <2>2, <2>4 DEF Progresses, Durable
<1>2. CASE List
  <2>1. Listed
    BY <1>2, ListShape
  <2>2. pc' = "message" => Head(work'.todo) \notin Range(work'.ring)
    BY <2>1 DEF Listed
  <2> QED
    BY <2>1, <2>2 DEF Listed, Progresses, id
<1>3. CASE ListExpired
  BY <1>3 DEF ListExpired, Progresses
<1>4. CASE ArchiveBatch
  BY <1>4 DEF ArchiveBatch, Progresses, Durable
<1>5. CASE TurnEnds
  BY <1>5 DEF TurnEnds, Progresses
<1> QED
  BY <1>1, <1>2, <1>3, <1>4, <1>5, TurnShape

LEMMA NextEarned ==
    ASSUME Sturdy, MailInv, MailInv', EarnedInv, [HNext]_healthVars
    PROVE  EarnedInv'
<1>0. /\ TypeOK /\ [Next]_vars /\ CursorInv /\ StallSound /\ budget \in Nat /\ budget' \in Nat
      /\ stats.expired \in Nat /\ stats'.expired \in Nat
  BY HealthStep DEF MailInv, TypeOK, Counters
<1>1. budget' = budget \/ budget' = budget - 1
  BY <1>0, BudgetFalls
<1>2. CASE Started
  <2>1. /\ pc' = "account" /\ stats' = NoStats /\ before'.budget = budget
    BY <1>2 DEF Started, StartRun
  <2>2. NothingRed' /\ Progresses' /\ ExpiryCounted'
    BY <2>1 DEF NothingRed, NoStats, Progresses, ExpiryCounted
  <2> QED
    BY <1>0, <1>1, <2>1, <2>2 DEF EarnedInv
<1>3. CASE Reported \/ Unreported \/ Died
  BY <1>3 DEF Reported, Return, Unreported, Reject, Died, Crash, EarnedInv
<1>4. CASE TurnStep /\ before' = before
  <2>1. /\ pc # "idle" /\ before.budget \in Nat /\ budget <= before.budget /\ ExpiryCounted
        /\ pc = "quiet" => work.listed \subseteq Range(work.ring)
        /\ Unfailed => NothingRed /\ Progresses
    BY <1>4, TurnIsInRun DEF EarnedInv
  <2>2. stats'.expired >= stats.expired
    BY <1>0, <1>4, TurnCounts
  <2>3. ExpiryCounted'
    <3>1. pc' = "expired" => ListExpired
      BY <1>0, <1>4, TurnShape, MessageShape, ListShape
         DEF Consumed, Listed, ArchiveBatch, TurnEnds
    <3>2. ListExpired => stats'.expired > 0
      BY <1>0 DEF ListExpired, Count, TypeOK, Counters
    <3> QED
      BY <3>1, <3>2 DEF ExpiryCounted
  <2>4. pc' = "quiet" => work'.listed \subseteq Range(work'.ring)
    <3>1. pc' = "quiet" => List
      BY <1>0, <1>4, TurnShape, MessageShape
         DEF Consumed, ListExpired, ArchiveBatch, TurnEnds
    <3>2. List /\ pc' = "quiet" => Range(work'.todo) = {}
      BY <1>0, ListShape DEF Listed, Range
    <3>3. List /\ pc' = "quiet" => work'.listed \subseteq Range(work'.ring)
      BY <1>0, <3>2, ListShape DEF Listed, Sturdy
    <3> QED
      BY <3>1, <3>3
  <2>5. ASSUME Unfailed' PROVE NothingRed' /\ Progresses'
    <3>1. budget' = before.budget /\ stats'.expired = 0
      BY <1>4, <2>5 DEF Unfailed
    <3>2. budget' = budget /\ stats.expired = 0
      BY <1>0, <1>1, <2>1, <2>2, <3>1
    <3>3. NothingRed /\ Progresses /\ pc # "expired"
      BY <2>1, <3>1, <3>2 DEF Unfailed, ExpiryCounted
    <3> QED
      BY <1>0, <1>4, <2>1, <3>1, <3>2, <3>3, UnfailedStep, UnfailedProgress
  <2> QED
    BY <1>0, <1>1, <1>4, <2>1, <2>3, <2>4, <2>5 DEF EarnedInv
<1>5. CASE (Deliver \/ Expire \/ UNCHANGED vars) /\ before' = before
  <2>1. /\ stats' = stats /\ pc' = pc /\ work' = work /\ mode' = mode
    BY <1>5 DEF Deliver, Expire, vars
  <2>2. CASE pc = "idle"
    BY <2>1, <2>2 DEF EarnedInv
  <2>3. CASE pc # "idle"
    <3>1. /\ before.budget \in Nat /\ budget <= before.budget /\ ExpiryCounted
          /\ pc = "quiet" => work.listed \subseteq Range(work.ring)
          /\ Unfailed => NothingRed /\ Progresses
      BY <2>3 DEF EarnedInv
    <3>2. Unfailed' => Unfailed
      BY <1>0, <1>1, <1>5, <2>1, <3>1 DEF Unfailed
    <3>3. (NothingRed => NothingRed') /\ (Progresses => Progresses') /\ ExpiryCounted'
      BY <2>1, <3>1 DEF NothingRed, Progresses, ExpiryCounted, Durable, id
    <3> QED
      BY <1>0, <1>1, <1>5, <2>1, <3>1, <3>2, <3>3 DEF EarnedInv
  <2> QED
    BY <2>2, <2>3
<1> QED
  BY <1>2, <1>3, <1>4, <1>5, HealthStep

(* poll.js 176-186, for every mailbox, cap, page budget and choice of failing *)
(* calls: a report is only "down" when a call failed during the run or an     *)
(* expired window was met.  Mail may arrive mid-run, records may have no id,  *)
(* writes may be lost; what must not be there is what fails on every run (a   *)
(* dead token, a message the handler cannot take) and a cap of 0, under which *)
(* no batch ever holds a message.                                             *)
THEOREM RedReportsAreEarned == Sturdy => (HSpec => DownIsEarned)
<1> SUFFICES ASSUME Sturdy PROVE HSpec => DownIsEarned
  OBVIOUS
<1>1. ASSUME MailInv, EarnedInv, [HNext]_healthVars, RunReports, health' = "down"
      PROVE  budget < before.budget \/ stats.expired > 0
  <2>1. pc = "finish" /\ pc' = "idle" /\ health' # "none"
    BY <1>1 DEF RunReports
  <2>2. Reported
    BY <1>1, ReportingStep
  <2>3. health' = reportProducerHealth(producerHealthStats, "pass")
    BY <2>2 DEF Reported
  <2>4. TypeOK /\ budget \in Nat /\ before.budget \in Nat /\ budget <= before.budget
        /\ stats.expired \in Nat /\ (Unfailed => NothingRed)
    BY <1>1, <2>1 DEF MailInv, TypeOK, Counters, EarnedInv
  <2>5. ~Unfailed
    BY <1>1, <2>3, <2>4, QuietRunIsNotDown DEF NothingRed, Unfailed
  <2> QED
    BY <2>4, <2>5 DEF Unfailed
<1>2. MailInv /\ EarnedInv /\ [HNext]_healthVars
      => [ RunReports /\ health' = "down" =>
             budget < before.budget \/ stats.expired > 0 ]_healthVars
  BY <1>1
<1>3. MailInv /\ MailInv' /\ EarnedInv /\ [HNext]_healthVars => EarnedInv'
  BY NextEarned
<1>4. HInit => Init
  BY DEF HInit
<1>5. [HNext]_healthVars => [Next]_vars
  BY HealthStep
<1> QED
  BY <1>2, <1>3, <1>4, <1>5, InitEarned, InitMailInv, NextMailInv, PTL DEF HSpec, DownIsEarned

-----------------------------------------------------------------------------
(* No message is handled twice.  The ring remembers across runs, and `seen`   *)
(* within one, so the invariant follows a handled message through both: it is *)
(* ringed in the state object or in the turn's locals, and if the batch still *)
(* holds a second listing of it, its keys are in `seen`.                      *)
(*                                                                            *)
(* Three things can make the code forget, and are the hypotheses: a failure   *)
(* after which the state object of the run is dropped and the file is older   *)
(* (a crash, a lost write; or a profile call that fails at the end of an      *)
(* account's first batch, when the state has no ring yet to share), a page    *)
(* overlap that lists a message without a Message-ID a second time, and a     *)
(* ring that is cut before the cursor has passed what is cut off.  A file     *)
(* that cannot be read is none of them: the account starts over at the end of *)
(* its mailbox, and a dry run that starts over leaves the file as it was.     *)
Remembers ==
    /\ {"crash", "write", "profile"} \cap Faults = {}
    /\ "overlap" \in Faults => \A m \in Messages : MessageId[m] # NoId

(* While no more than half a ring of mail waits beyond a cursor, the cut only  *)
(* loses what the cursor has passed.  A whole ring would not do: a message     *)
(* ringed early may see both the rest of its own window follow it, as failing  *)
(* messages recover, and the mail that comes after it.                         *)
RingHasRoom ==
    \/ Cardinality(Messages) <= RingMax
    \/ \A a \in Accounts : mem[a].cursor # 0 => 2 * Cardinality(Window(a)) <= RingMax + 1

LEMMA InjectiveAppend ==
    ASSUME NEW S, NEW s \in Seq(S), NEW e \in S, e \notin Range(s), IsInjective(s)
    PROVE  IsInjective(Append(s, e))
<1>1. /\ Append(s, e) \in Seq(S) /\ Len(Append(s, e)) = Len(s) + 1
      /\ \A i \in 1..Len(s) : Append(s, e)[i] = s[i]
      /\ Append(s, e)[Len(s) + 1] = e
  BY AppendProperties
<1>2. Len(s) \in Nat /\ DOMAIN s = 1..Len(s) /\ DOMAIN Append(s, e) = 1..Len(s) + 1
  BY <1>1
<1>3. \A i \in 1..Len(s) : s[i] # e
  BY <1>2 DEF Range
<1> SUFFICES ASSUME NEW i \in 1..Len(s) + 1, NEW j \in 1..Len(s) + 1,
                    Append(s, e)[i] = Append(s, e)[j]
             PROVE  i = j
  BY <1>2 DEF IsInjective
<1>4. (i \in 1..Len(s) \/ i = Len(s) + 1) /\ (j \in 1..Len(s) \/ j = Len(s) + 1)
  BY <1>2
<1> QED
  BY <1>1, <1>2, <1>3, <1>4 DEF IsInjective

LEMMA InjectiveTail ==
    ASSUME NEW S, NEW s \in Seq(S), s # <<>>, IsInjective(s)
    PROVE  IsInjective(Tail(s)) /\ Head(s) \notin Range(Tail(s))
<1>1. /\ Tail(s) \in Seq(S) /\ Len(Tail(s)) = Len(s) - 1
      /\ \A k \in 1..Len(s) - 1 : Tail(s)[k] = s[k + 1]
  BY HeadTailProperties
<1>2. /\ Len(s) \in Nat \ {0} /\ DOMAIN s = 1..Len(s) /\ DOMAIN Tail(s) = 1..Len(s) - 1
      /\ Head(s) = s[1]
  BY <1>1, EmptySeq
<1>3. \A k \in 1..Len(s) - 1 : k + 1 \in 1..Len(s) /\ k + 1 # 1
  BY <1>2
<1>4. ASSUME NEW i \in 1..Len(s) - 1, NEW j \in 1..Len(s) - 1, Tail(s)[i] = Tail(s)[j]
      PROVE  i = j
  <2>1. i + 1 = j + 1
    BY <1>1, <1>2, <1>3, <1>4 DEF IsInjective
  <2> QED
    BY <2>1
<1>5. ASSUME NEW k \in 1..Len(s) - 1, Tail(s)[k] = s[1] PROVE FALSE
  <2>1. s[k + 1] = s[1] /\ 1 \in 1..Len(s)
    BY <1>1, <1>2, <1>5
  <2> QED
    BY <1>2, <1>3, <2>1 DEF IsInjective
<1> QED
  BY <1>2, <1>4, <1>5 DEF IsInjective, Range

LEMMA InjectiveTake ==
    ASSUME NEW S, NEW s \in Seq(S), NEW n \in Nat, IsInjective(s)
    PROVE  IsInjective(Take(s, n))
<1> DEFINE k == IF n < Len(s) THEN n ELSE Len(s)
<1>1. Len(s) \in Nat /\ DOMAIN s = 1..Len(s)
  OBVIOUS
<1>2. k \in 0..Len(s) /\ 1 \in 1..Len(s) + 1
  BY <1>1
<1>3. Take(s, n) = SubSeq(s, 1, k)
  BY DEF Take
<1> HIDE DEF k
<1>4. /\ SubSeq(s, 1, k) \in Seq(S)
      /\ Len(SubSeq(s, 1, k)) = IF 1 <= k THEN k - 1 + 1 ELSE 0
      /\ \A i \in 1..(k - 1 + 1) : SubSeq(s, 1, k)[i] = s[1 + i - 1]
  BY <1>1, <1>2, SubSeqProperties
<1>5. /\ DOMAIN SubSeq(s, 1, k) = 1..k
      /\ \A i \in 1..k : SubSeq(s, 1, k)[i] = s[i] /\ i \in 1..Len(s)
  BY <1>1, <1>2, <1>4
<1> QED
  BY <1>1, <1>3, <1>5 DEF IsInjective

(* The cut of a ring, as positions: how many entries it drops, and the rest. *)
Cut(s, n) == IF n < Len(s) THEN Len(s) - n ELSE 0

LEMMA LastNShape ==
    ASSUME NEW S, NEW s \in Seq(S), NEW n \in Nat
    PROVE  /\ Cut(s, n) \in 0..Len(s) /\ (Cut(s, n) = 0 \/ Cut(s, n) = Len(s) - n)
           /\ LastN(s, n) \in Seq(S) /\ Len(LastN(s, n)) = Len(s) - Cut(s, n)
           /\ \A k \in 1..Len(s) - Cut(s, n) : LastN(s, n)[k] = s[k + Cut(s, n)]
<1> DEFINE d == Cut(s, n)
<1>1. Len(s) \in Nat /\ d \in 0..Len(s) /\ (d = 0 \/ d = Len(s) - n)
  BY DEF Cut
<1>2. LastN(s, n) = SubSeq(s, d + 1, Len(s))
  BY <1>1 DEF LastN, Cut
<1> HIDE DEF d
<1>3. d + 1 \in 1..Len(s) + 1 /\ Len(s) \in d + 1 - 1..Len(s)
  BY <1>1
<1>4. /\ SubSeq(s, d + 1, Len(s)) \in Seq(S)
      /\ Len(SubSeq(s, d + 1, Len(s))) = IF d + 1 <= Len(s) THEN Len(s) - (d + 1) + 1 ELSE 0
      /\ \A i \in 1..(Len(s) - (d + 1) + 1) : SubSeq(s, d + 1, Len(s))[i] = s[d + 1 + i - 1]
  BY <1>1, <1>3, SubSeqProperties
<1>5. Len(SubSeq(s, d + 1, Len(s))) = Len(s) - d
  BY <1>1, <1>4
<1>6. ASSUME NEW k \in 1..Len(s) - d PROVE SubSeq(s, d + 1, Len(s))[k] = s[k + d]
  <2>1. k \in 1..(Len(s) - (d + 1) + 1) /\ d + 1 + k - 1 = k + d
    BY <1>1
  <2> QED
    BY <1>4, <2>1
<1> QED
  BY <1>1, <1>2, <1>4, <1>5, <1>6 DEF d

LEMMA InjectiveLastN ==
    ASSUME NEW S, NEW s \in Seq(S), NEW n \in Nat, IsInjective(s)
    PROVE  IsInjective(LastN(s, n))
<1> DEFINE d == Cut(s, n)
           t == LastN(s, n)
<1>1. /\ d \in 0..Len(s) /\ t \in Seq(S) /\ Len(t) = Len(s) - d
      /\ \A k \in 1..Len(s) - d : t[k] = s[k + d]
  BY ONLY LastNShape, s \in Seq(S), n \in Nat
<1> HIDE DEF d, t
<1>2. Len(s) \in Nat /\ DOMAIN s = 1..Len(s) /\ DOMAIN t = 1..Len(s) - d
  BY <1>1
<1>3. ASSUME NEW i \in 1..Len(s) - d, NEW k \in 1..Len(s) - d, t[i] = t[k]
      PROVE  i = k
  <2>1. i + d \in 1..Len(s) /\ k + d \in 1..Len(s) /\ s[i + d] = s[k + d]
    BY <1>1, <1>3
  <2>2. i + d = k + d
    BY <1>2, <2>1 DEF IsInjective
  <2> QED
    BY <1>1, <1>2, <2>2
<1>4. IsInjective(t)
  BY <1>2, <1>3 DEF IsInjective
<1> QED
  BY <1>4 DEF t

(* What comes after a message in the ring, while the cursor has not passed it: *)
(* each later entry lies beyond the cursor c of the turn that ringed it, and   *)
(* few messages lie between c and the message itself.                          *)
Between(f, a, c, m) == {x \in Messages : Owner[x] = a /\ c < f[x] /\ f[x] < f[m]}
FewBetween(f, a, c, m) ==
    Cardinality(Messages) <= RingMax \/ 2 * Cardinality(Between(f, a, c, m)) < RingMax
Follows(f, s, a, now) ==
    \A j \in 1..Len(s) :
        /\ Owner[s[j]] = a /\ f[s[j]] # 0
        /\ f[s[j]] > now => \E c \in 0..now :
              FewBetween(f, a, c, s[j]) /\ \A k \in j + 1..Len(s) : f[s[k]] > c

LEMMA FollowsLater ==
    ASSUME NEW f \in [Messages -> Nat], NEW s \in Seq(Messages), NEW a,
           NEW now \in Nat, NEW later \in Nat, now <= later, Follows(f, s, a, now)
    PROVE  Follows(f, s, a, later)
<1> SUFFICES ASSUME NEW j \in 1..Len(s), f[s[j]] > later
             PROVE  \E c \in 0..later :
                       FewBetween(f, a, c, s[j]) /\ \A k \in j + 1..Len(s) : f[s[k]] > c
  BY DEF Follows
<1>1. s[j] \in Messages /\ f[s[j]] \in Nat
  OBVIOUS
<1>2. f[s[j]] > now
  BY <1>1
<1>3. PICK c \in 0..now : FewBetween(f, a, c, s[j]) /\ \A k \in j + 1..Len(s) : f[s[k]] > c
  BY <1>2 DEF Follows
<1>4. c \in 0..later
  OBVIOUS
<1> QED
  BY <1>3, <1>4

(* Mail that arrives comes after everything in the mailbox. *)
LEMMA FollowsArrival ==
    ASSUME NEW f \in [Messages -> Nat], NEW g \in [Messages -> Nat],
           \A m \in Messages : \/ g[m] = f[m]
                              \/ /\ f[m] = 0
                                 /\ \A k \in Messages : Owner[k] = Owner[m] => g[m] > f[k],
           NEW s \in Seq(Messages), NEW a, NEW now \in Nat, Follows(f, s, a, now)
    PROVE  Follows(g, s, a, now)
<1>1. ASSUME NEW j \in 1..Len(s) PROVE s[j] \in Messages /\ g[s[j]] = f[s[j]] /\ Owner[s[j]] = a
  <2>1. s[j] \in Messages /\ Owner[s[j]] = a /\ f[s[j]] # 0
    BY DEF Follows
  <2> QED
    BY <2>1
<1>2. ASSUME NEW j \in 1..Len(s), NEW c \in Nat PROVE Between(g, a, c, s[j]) = Between(f, a, c, s[j])
  <2>1. s[j] \in Messages /\ g[s[j]] = f[s[j]] /\ Owner[s[j]] = a
    BY <1>1
  <2>2. ASSUME NEW x \in Messages, Owner[x] = a,
               (g[x] < g[s[j]] /\ c < g[x]) \/ (f[x] < f[s[j]] /\ c < f[x])
        PROVE  g[x] = f[x]
    <3>1. g[x] > f[s[j]] => ~(g[x] < g[s[j]])
      BY <2>1
    <3>2. f[x] = 0 => ~(c < f[x])
      OBVIOUS
    <3> QED
      BY <2>1, <2>2, <3>1, <3>2
  <2> QED
    BY <2>1, <2>2 DEF Between
<1> SUFFICES ASSUME NEW j \in 1..Len(s)
             PROVE  /\ Owner[s[j]] = a /\ g[s[j]] # 0
                    /\ g[s[j]] > now => \E c \in 0..now :
                          FewBetween(g, a, c, s[j]) /\ \A k \in j + 1..Len(s) : g[s[k]] > c
  BY DEF Follows
<1>3. Owner[s[j]] = a /\ g[s[j]] # 0 /\ g[s[j]] = f[s[j]]
  BY <1>1 DEF Follows
<1>4. ASSUME g[s[j]] > now
      PROVE  \E c \in 0..now :
                FewBetween(g, a, c, s[j]) /\ \A k \in j + 1..Len(s) : g[s[k]] > c
  <2>1. PICK c \in 0..now : FewBetween(f, a, c, s[j]) /\ \A k \in j + 1..Len(s) : f[s[k]] > c
    BY <1>3, <1>4 DEF Follows
  <2>2. FewBetween(g, a, c, s[j])
    BY <1>2, <2>1 DEF FewBetween
  <2>3. \A k \in j + 1..Len(s) : k \in 1..Len(s)
    OBVIOUS
  <2>4. \A k \in j + 1..Len(s) : g[s[k]] > c
    BY <1>1, <2>1, <2>3
  <2> QED
    BY <2>1, <2>2, <2>4
<1> QED
  BY <1>3, <1>4

LEMMA FollowsAppend ==
    ASSUME NEW f \in [Messages -> Nat], NEW s \in Seq(Messages), NEW a, NEW now \in Nat,
           NEW e \in Messages, Owner[e] = a, f[e] > now, Follows(f, s, a, now),
           \/ Cardinality(Messages) <= RingMax
           \/ 2 * Cardinality({x \in Messages : Owner[x] = a /\ f[x] > now}) <= RingMax + 1
    PROVE  Follows(f, Append(s, e), a, now)
<1> DEFINE t == Append(s, e)
<1>1. /\ t \in Seq(Messages) /\ Len(t) = Len(s) + 1 /\ Len(s) \in Nat
      /\ \A i \in 1..Len(s) : t[i] = s[i]
      /\ t[Len(s) + 1] = e
  BY AppendProperties
<1> HIDE DEF t
<1>2. FewBetween(f, a, now, e)
  <2> DEFINE W == {x \in Messages : Owner[x] = a /\ f[x] > now}
             B == Between(f, a, now, e)
  <2>1. IsFiniteSet(W) /\ IsFiniteSet(W \ {e}) /\ Cardinality(W \ {e}) = Cardinality(W) - 1
    <3>1. IsFiniteSet(W)
      BY MailAssumption, FS_Subset
    <3>2. e \in W
      OBVIOUS
    <3> QED
      BY <3>1, <3>2, FS_RemoveElement
  <2>2. B \subseteq W \ {e}
    BY DEF Between
  <2>3. /\ Cardinality(B) \in Nat /\ Cardinality(W) \in Nat /\ RingMax \in Nat
        /\ Cardinality(B) <= Cardinality(W) - 1
    BY <2>1, <2>2, FS_Subset, FS_CardinalityType, BoundsAssumption
  <2>4. Cardinality(Messages) <= RingMax \/ 2 * Cardinality(W) <= RingMax + 1
    OBVIOUS
  <2> HIDE DEF W, B
  <2>5. Cardinality(Messages) <= RingMax \/ 2 * Cardinality(B) < RingMax
    BY <2>3, <2>4
  <2> QED
    BY <2>5 DEF FewBetween, B
<1>3. ASSUME NEW j \in 1..Len(s), f[s[j]] > now
      PROVE  \E c \in 0..now :
                FewBetween(f, a, c, s[j]) /\ \A k \in j + 1..Len(t) : f[t[k]] > c
  <2>1. PICK c \in 0..now : FewBetween(f, a, c, s[j]) /\ \A k \in j + 1..Len(s) : f[s[k]] > c
    BY <1>3 DEF Follows
  <2>2. ASSUME NEW k \in j + 1..Len(t) PROVE f[t[k]] > c
    <3>1. k = Len(s) + 1 \/ (k \in j + 1..Len(s) /\ k \in 1..Len(s))
      <4>1. k \in Int /\ k >= j + 1 /\ k <= Len(s) + 1 /\ j \in Int /\ j >= 1 /\ Len(s) \in Nat
        BY <1>1
      <4> QED
        BY <4>1
    <3>2. f[e] \in Nat /\ c <= now
      OBVIOUS
    <3>3. CASE k = Len(s) + 1
      BY <1>1, <3>2, <3>3
    <3>4. CASE k \in j + 1..Len(s) /\ k \in 1..Len(s)
      BY <1>1, <2>1, <3>4
    <3> QED
      BY <3>1, <3>3, <3>4
  <2> QED
    BY <2>1, <2>2
<1>4. Len(s) + 1 + 1..Len(t) = {} /\ now \in 0..now
  BY <1>1
<1> SUFFICES ASSUME NEW j \in 1..Len(t)
             PROVE  /\ Owner[t[j]] = a /\ f[t[j]] # 0
                    /\ f[t[j]] > now => \E c \in 0..now :
                          FewBetween(f, a, c, t[j]) /\ \A k \in j + 1..Len(t) : f[t[k]] > c
  BY DEF Follows, t
<1>5. CASE j = Len(s) + 1
  <2>1. t[j] = e /\ f[e] # 0 /\ j + 1..Len(t) = {}
    BY <1>1, <1>4, <1>5
  <2> QED
    BY <1>2, <1>4, <2>1
<1>6. CASE j \in 1..Len(s)
  <2>1. t[j] = s[j] /\ Owner[s[j]] = a /\ f[s[j]] # 0
    BY <1>1, <1>6 DEF Follows
  <2> QED
    BY <1>3, <1>6, <2>1
<1> QED
  BY <1>1, <1>5, <1>6

LEMMA FollowsLastN ==
    ASSUME NEW f \in [Messages -> Nat], NEW s \in Seq(Messages), NEW a, NEW now \in Nat,
           NEW n \in Nat, Follows(f, s, a, now)
    PROVE  Follows(f, LastN(s, n), a, now)
<1> DEFINE t == LastN(s, n)
           d == Cut(s, n)
<1>1. /\ d \in 0..Len(s) /\ t \in Seq(Messages) /\ Len(t) = Len(s) - d
      /\ \A k \in 1..Len(s) - d : t[k] = s[k + d]
  BY LastNShape
<1> HIDE DEF t, d
<1>2. Len(s) \in Nat /\ d \in Nat /\ Len(t) = Len(s) - d
  BY <1>1
<1> SUFFICES ASSUME NEW j \in 1..Len(t)
             PROVE  /\ Owner[t[j]] = a /\ f[t[j]] # 0
                    /\ f[t[j]] > now => \E c \in 0..now :
                          FewBetween(f, a, c, t[j]) /\ \A k \in j + 1..Len(t) : f[t[k]] > c
  BY DEF Follows, t
<1>3. j + d \in 1..Len(s) /\ t[j] = s[j + d]
  BY <1>1, <1>2
<1>4. Owner[t[j]] = a /\ f[t[j]] # 0
  BY <1>3 DEF Follows
<1>5. ASSUME f[t[j]] > now
      PROVE  \E c \in 0..now :
                FewBetween(f, a, c, t[j]) /\ \A k \in j + 1..Len(t) : f[t[k]] > c
  <2>1. PICK c \in 0..now :
           FewBetween(f, a, c, s[j + d]) /\ \A k \in j + d + 1..Len(s) : f[s[k]] > c
    BY <1>3, <1>5 DEF Follows
  <2>2. ASSUME NEW k \in j + 1..Len(t) PROVE f[t[k]] > c
    <3>1. k + d \in j + d + 1..Len(s) /\ k \in 1..Len(s) - d
      BY <1>2
    <3> QED
      BY <1>1, <2>1, <3>1
  <2> QED
    BY <1>3, <2>1, <2>2
<1> QED
  BY <1>4, <1>5

(* The cut forgets no message that the cursor has yet to pass. *)
LEMMA NotForgotten ==
    ASSUME NEW f \in [Messages -> Nat], NEW s \in Seq(Messages), NEW a, NEW now \in Nat,
           IsInjective(s), Follows(f, s, a, now), NEW m \in Range(s), f[m] > now,
           \/ Cardinality(Messages) <= RingMax
           \/ 2 * Cardinality({x \in Messages : Owner[x] = a /\ f[x] > now}) <= RingMax + 1
    PROVE  m \in Range(LastN(s, RingMax))
<1> DEFINE W == {x \in Messages : Owner[x] = a /\ f[x] > now}
           t == LastN(s, RingMax)
           n == Len(s)
           d == Cut(s, RingMax)
<1>1. /\ RingMax \in Nat /\ n \in Nat /\ DOMAIN s = 1..n /\ IsFiniteSet(Messages)
      /\ n = Len(s)
  BY BoundsAssumption, MailAssumption
<1>2. PICK j \in 1..n : s[j] = m
  BY DEF Range
<1>3. d \in Int /\ d >= 0 /\ (d = 0 \/ d = n - RingMax)
  BY <1>1 DEF Cut
<1>4. /\ t \in Seq(Messages) /\ Len(t) = n - d
      /\ \A k \in 1..n - d : t[k] = s[k + d]
  BY <1>1, LastNShape
<1> HIDE DEF t, n, d
<1>5. j \in Int /\ j >= 1 /\ j <= n /\ n \in Int
  BY <1>1
<1>6. CASE j > d
  <2>1. j - d \in 1..n - d /\ DOMAIN t = 1..n - d /\ j - d + d = j
    <3>1. j - d \in 1..n - d /\ j - d + d = j
      BY <1>3, <1>5, <1>6
    <3> QED
      BY <1>4, <3>1
  <2>2. t[j - d] = s[j - d + d]
    BY <1>4, <2>1
  <2>3. t[j - d] = m
    BY <1>2, <2>1, <2>2
  <2> QED
    BY <2>1, <2>3 DEF Range, t
<1>7. CASE j <= d
  <2> DEFINE After == {s[k] : k \in j + 1..n}
  <2>1. PICK c \in 0..now : FewBetween(f, a, c, m) /\ \A k \in j + 1..n : f[s[k]] > c
    BY <1>1, <1>2 DEF Follows
  <2> DEFINE B == Between(f, a, c, m)
  <2>2. /\ After \subseteq B \cup (W \ {m})
        /\ After \subseteq Messages \ {m}
    <3> SUFFICES ASSUME NEW k \in j + 1..n
                 PROVE  s[k] \in Messages \ {m} /\ s[k] \in B \cup (W \ {m})
      OBVIOUS
    <3>1. k \in 1..n /\ k # j
      BY <1>1
    <3>2. s[k] \in Messages /\ Owner[s[k]] = a /\ f[s[k]] > c
      BY <1>1, <2>1, <3>1 DEF Follows
    <3>3. s[k] # m
      BY <1>1, <1>2, <3>1 DEF IsInjective
    <3>4. f[s[k]] < f[m] \/ f[s[k]] > now
      <4>1. f[s[k]] \in Nat /\ f[m] \in Nat
        BY <1>1, <1>2, <3>2
      <4> QED
        BY <4>1
    <3> QED
      BY <3>2, <3>3, <3>4 DEF Between
  <2>3. IsFiniteSet(After) /\ Cardinality(After) \in Nat /\ Cardinality(After) >= n - j
    <3> DEFINE I == j + 1..n
               g == [k \in I |-> s[k]]
    <3>1. \A k \in I : k \in 1..n
      BY <1>1
    <3>2. IsFiniteSet(After)
      <4>1. After \subseteq Messages
        BY <2>2
      <4> QED
        BY <1>1, <4>1, FS_Subset
    <3>3. g \in [I -> After] /\ \A x, y \in I : g[x] = g[y] => x = y
      BY <1>1, <3>1 DEF IsInjective
    <3>4. g \in Injection(I, After)
      <4> HIDE DEF g, I, After
      <4> QED
        BY <3>3 DEF Injection, IsInjective
    <3>5. Cardinality(I) <= Cardinality(After)
      BY <3>2, <3>4, FS_Injection
    <3>6. Cardinality(I) = IF j + 1 > n THEN 0 ELSE n - (j + 1) + 1
      <4>1. j + 1 \in Int /\ n \in Int
        BY <1>1
      <4> QED
        BY <4>1, FS_Interval
    <3>7. Cardinality(After) \in Nat
      BY <3>2, FS_CardinalityType
    <3> HIDE DEF I, After
    <3>8. Cardinality(I) = n - j
      <4>1. j \in Int /\ n \in Int /\ j <= n
        BY <1>1
      <4> QED
        BY <3>6, <4>1
    <3> QED
      BY <3>2, <3>5, <3>7, <3>8
  <2>4. n - j >= RingMax
    <3>1. d = n - RingMax
      BY <1>3, <1>7, <1>5
    <3> QED
      BY <1>1, <1>7, <1>5, <3>1
  <2>5. Cardinality(After) >= RingMax
    <3>1. n - j \in Int
      BY <1>1
    <3> HIDE DEF After
    <3> QED
      BY <1>1, <2>3, <2>4, <3>1
  <2>6. CASE Cardinality(Messages) <= RingMax
    <3>1. /\ IsFiniteSet(Messages \ {m}) /\ Cardinality(Messages) \in Nat
          /\ Cardinality(Messages \ {m}) = Cardinality(Messages) - 1
      <4>1. m \in Messages
        BY <1>1, <1>2
      <4> QED
        BY <1>1, <4>1, FS_RemoveElement, FS_CardinalityType
    <3>2. Cardinality(After) <= Cardinality(Messages \ {m})
      BY <2>2, <3>1, FS_Subset
    <3> HIDE DEF After, n
    <3>3. FALSE
      BY <1>1, <2>3, <2>5, <2>6, <3>1, <3>2
    <3> QED
      BY <3>3
  <2>7. CASE ~(Cardinality(Messages) <= RingMax)
    <3>1. 2 * Cardinality(B) < RingMax /\ 2 * Cardinality(W) <= RingMax + 1
      BY <2>1, <2>7 DEF FewBetween
    <3>2. m \in W /\ IsFiniteSet(W) /\ IsFiniteSet(B)
      <4>1. B \subseteq Messages /\ W \subseteq Messages /\ m \in W
        BY <1>1, <1>2 DEF Between, Follows
      <4> QED
        BY <1>1, <4>1, FS_Subset
    <3> DEFINE V == W \ {m}
               U == B \cup V
    <3>3. IsFiniteSet(V) /\ Cardinality(V) = Cardinality(W) - 1 /\ Cardinality(W) \in Nat
      BY <3>2, FS_RemoveElement, FS_CardinalityType
    <3> HIDE DEF V
    <3>4. /\ IsFiniteSet(U) /\ Cardinality(B) \in Nat /\ Cardinality(V) \in Nat
          /\ Cardinality(U) = Cardinality(B) + Cardinality(V) - Cardinality(B \cap V)
          /\ Cardinality(B \cap V) \in Nat
      <4>1. IsFiniteSet(B \cap V)
        BY <3>2, FS_Subset
      <4> HIDE DEF B
      <4> QED
        BY <3>2, <3>3, <4>1, FS_Union, FS_CardinalityType
    <3>5. Cardinality(After) <= Cardinality(U)
      BY <2>2, <3>4, FS_Subset DEF V
    <3> HIDE DEF After, U, B, W, n
    <3>6. Cardinality(U) <= Cardinality(B) + Cardinality(W) - 1
      BY <3>3, <3>4
    <3>7. ASSUME NEW w \in Nat, NEW b \in Nat, NEW u \in Nat, NEW r \in Nat,
                 2 * b < r, 2 * w <= r + 1, u <= b + w - 1, u >= r
          PROVE  FALSE
      BY <3>7
    <3>8. Cardinality(U) \in Nat /\ Cardinality(U) >= RingMax
      BY <1>1, <2>3, <2>5, <3>4, <3>5, FS_CardinalityType
    <3> QED
      BY <1>1, <3>1, <3>3, <3>4, <3>6, <3>7, <3>8
  <2> QED
    BY <2>6, <2>7
<1>8. j > d \/ j <= d
  BY <1>3, <1>5
<1> QED
  BY <1>6, <1>7, <1>8

(* Without page overlaps a batch holds no message twice. *)
LEMMA BatchHasNoCopies ==
    ASSUME TypeOK, List, "overlap" \notin Faults
    PROVE  IsInjective(work'.todo)
<1>1. PICK record \in Overlaps(acct) : \E listed \in ListingsOf(acct, record) :
           \E batch \in Enumerations(listed \ Range(mem[acct].ring), record) :
              Begin(listed, batch)
  BY DEF List
<1>2. PICK listed \in ListingsOf(acct, record) :
           \E batch \in Enumerations(listed \ Range(mem[acct].ring), record) :
              Begin(listed, batch)
  BY <1>1
<1>3. PICK batch \in Enumerations(listed \ Range(mem[acct].ring), record) :
           Begin(listed, batch)
  BY <1>2
<1> DEFINE S == listed \ Range(mem[acct].ring)
<1>4. record = 0
  BY DEF Overlaps
<1>5. S \in SUBSET Messages /\ \A m \in S : hist[m] \in Nat /\ hist[m] > 0
  <2>1. listed \subseteq Window(acct)
    BY ListedInWindow
  <2>2. mem[acct].cursor \in Nat /\ hist \in [Messages -> Nat]
    BY AcctType DEF TypeOK, AccountStates
  <2> QED
    BY <2>1, <2>2 DEF Window
<1> DEFINE X == {m \in S : hist[m] <= 0}
           Y == {m \in S : hist[m] = 0}
           Z == {m \in S : hist[m] > 0}
<1>6. batch \in ListedInTurn(X, Y, Z)
  BY <1>3, <1>4 DEF Enumerations
<1>7. X = {} /\ Y = {} /\ Z = S
  BY <1>5
<1> HIDE DEF S, X, Y, Z
<1>8. PICK x \in InOrder(X), y \in InOrder(Y), z \in InOrder(Z) : batch = x \o y \o z
  BY <1>6 DEF ListedInTurn
<1>9. \A e \in InOrder({}) : e = <<>>
  <2>1. ASSUME NEW e \in InOrder({}) PROVE e = <<>>
    <3>1. e \in Seq({})
      BY <2>1, InOrderRange
    <3> QED
      BY <3>1, EmptySeq
  <2> QED
    BY <2>1
<1>10. z \in Seq(S) /\ IsInjective(z)
  BY <1>5, <1>7, <1>8, InOrderRange
<1>11. batch = z
  <2>1. x = <<>> /\ y = <<>>
    BY <1>7, <1>8, <1>9
  <2>2. batch = (<<>> \o <<>>) \o z
    BY <1>8, <2>1
  <2> QED
    BY <1>10, <2>2
<1>12. work'.todo = Take(batch, MaxPerRun)
  BY <1>3 DEF Begin, NoWork
<1> QED
  BY <1>10, <1>11, <1>12, InjectiveTake, BoundsAssumption

Remembered(m) ==
    \/ m \in Range(mem[Owner[m]].ring)
    \/ InTurn /\ Owner[m] = acct /\ m \in Range(work.ring)
Behind(m) == mem[Owner[m]].cursor = 0 \/ hist[m] <= mem[Owner[m]].cursor
SecondListings ==
    InTurn /\ Durable =>
        \A m \in Range(work.todo) : calls[m] # 0 => DedupeKeys(m) \cap seen # {}
NoCopies ==
    /\ "overlap" \notin Faults /\ InTurn => IsInjective(work.todo)
    /\ \A a \in Accounts : IsInjective(mem[a].ring)
    /\ InTurn => IsInjective(work.ring)
RingCarries ==
    InTurn => /\ Range(mem[acct].ring) \subseteq Range(work.ring)
              /\ ~Durable => Range(work.ring) = Range(mem[acct].ring)
Unseeded == \A a \in Accounts : mem[a].cursor = 0 => mem[a].ring = <<>>
RingOrder ==
    /\ \A a \in Accounts : Follows(hist, mem[a].ring, a, mem[a].cursor)
    /\ InTurn => Follows(hist, work.ring, acct, mem[acct].cursor)
(* What a run that is not live will leave on disk. *)
FileRemembers ==
    ~Durable =>
        /\ \A m \in Messages : calls[m] # 0 =>
              \/ m \in Range(disk[Owner[m]].ring)
              \/ disk[Owner[m]].cursor = 0 \/ hist[m] <= disk[Owner[m]].cursor
        /\ \A a \in Accounts :
              /\ IsInjective(disk[a].ring)
              /\ disk[a].cursor = 0 => disk[a].ring = <<>>
              /\ Follows(hist, disk[a].ring, a, disk[a].cursor)
OnceInv ==
    /\ HandledAtMostOnce /\ FileRemembers
    /\ \A m \in Messages : calls[m] # 0 => hist[m] # 0 /\ (Remembered(m) \/ Behind(m))
    /\ SecondListings /\ NoCopies /\ RingCarries /\ Unseeded /\ RingOrder

LEMMA InitOnce == Init => OnceInv
<1> SUFFICES ASSUME Init PROVE OnceInv
  OBVIOUS
<1>1. /\ ~InTurn /\ mem = disk /\ \A m \in Messages : calls[m] = 0
      /\ \A a \in Accounts : mem[a].ring = <<>> /\ disk[a].ring = <<>>
  BY DEF Init, InTurn, Fresh
<1>2. IsInjective(<<>>) /\ \A a, now : Follows(hist, <<>>, a, now)
  BY DEF IsInjective, Follows
<1> QED
  BY <1>1, <1>2 DEF OnceInv, HandledAtMostOnce, FileRemembers, SecondListings, NoCopies,
     RingCarries, Unseeded, RingOrder

(* The handler is called for a message whose keys no earlier one has left. *)
LEMMA LoopCalls ==
    ASSUME TypeOK, MessageStep
    PROVE  \/ calls' = calls
           \/ /\ Rings /\ DedupeKeys(id) \cap seen = {} /\ seen' = seen \cup DedupeKeys(id)
              /\ calls' = [calls EXCEPT ![id] = @ + 1]
<1>1. calls' # calls => Rings
  BY MessageShape DEF Held, Retires, IsHandled, Drops
<1>2. calls' # calls => Handle
  BY DEF MessageStep, FetchGone, HandlerGone, ScreenOut, SkipDuplicate, FetchThrows, HandlerThrows
<1>3. Handle => /\ DedupeKeys(id) \cap seen = {} /\ seen' = seen \cup DedupeKeys(id)
                /\ calls' # calls => calls' = [calls EXCEPT ![id] = @ + 1]
  BY DEF Handle, Arrives
<1> QED
  BY <1>1, <1>2, <1>3

LEMMA LoopKeepsRings ==
    ASSUME TypeOK, MessageStep
    PROVE  \A a \in Accounts : mem'[a].ring = mem[a].ring
<1>1. mem' = mem \/ mem' = [mem EXCEPT ![acct].dropped = LastN(Append(@, id), QuarantineMax)]
  BY MessageShape DEF Held, Retires, IsHandled, Drops
<1>2. mem \in AccountMap /\ acct \in Accounts
  BY AcctType DEF TypeOK, AccountMap
<1>3. CASE mem' = mem
  BY <1>3
<1>4. CASE mem' = [mem EXCEPT ![acct].dropped = LastN(Append(@, id), QuarantineMax)]
  <2> DEFINE dropped == LastN(Append(mem[acct].dropped, id), QuarantineMax)
  <2>1. mem' = [mem EXCEPT ![acct] = [mem[acct] EXCEPT !.dropped = dropped]]
    BY <1>4
  <2> HIDE DEF dropped
  <2>2. [mem[acct] EXCEPT !.dropped = dropped].ring = mem[acct].ring
    BY <1>2 DEF AccountMap, AccountStates
  <2> QED
    BY <1>2, <2>1, <2>2 DEF AccountMap
<1> QED
  BY <1>1, <1>3, <1>4

LEMMA LoopOnce ==
    ASSUME Remembers, TypeOK, CursorInv, BatchListed, OnceInv, RingHasRoom, MessageStep
    PROVE  OnceInv'
<1>0. /\ Consumed /\ (Held \/ Retires \/ IsHandled \/ Drops) /\ (seen' = seen \/ Attempted)
  BY MessageShape
<1>1. /\ pc = "message" /\ id \in Messages /\ InTurn /\ InTurn' /\ acct' = acct
      /\ acct \in Accounts /\ Durable' = Durable /\ work'.todo = Tail(work.todo) /\ disk' = disk
      /\ seen \subseteq seen' /\ work \in Works /\ calls \in [Messages -> Nat]
  BY <1>0, AcctType DEF Consumed, InTurn, acct, Durable, Attempted, TypeOK
<1>2. /\ work.todo \in Seq(Messages) /\ work.todo # <<>> /\ work.ring \in Seq(Messages)
      /\ id \in Range(work.todo) /\ Range(work'.todo) \subseteq Range(work.todo)
      /\ Range(work.todo) \subseteq Messages
  <2>1. work.todo \in Seq(Messages) /\ work.todo # <<>> /\ work.ring \in Seq(Messages)
    BY <1>1 DEF TypeOK, Works
  <2> QED
    BY <1>1, <2>1, SliceRange, RangeOfSeq, BoundsAssumption DEF id
<1>3. \A a \in Accounts : mem'[a].ring = mem[a].ring
  BY LoopKeepsRings
<1>4. /\ Durable => work'.ring = work.ring \/ Rings
      /\ ~Durable => work'.ring = work.ring /\ mem' = mem /\ calls' = calls
  BY <1>0 DEF Held, Retires, IsHandled, Drops, Rings
<1>5. Range(work.ring) \subseteq Range(work'.ring)
  BY <1>4 DEF Rings
<1>6. Unseeded' /\ RingCarries'
  BY <1>1, <1>3, <1>4, <1>5, LoopKeepsCursors DEF OnceInv, Unseeded, RingCarries
<1>7. NoCopies'
  <2>1. IsInjective(work'.ring)
    BY <1>1, <1>2, <1>4, InjectiveAppend DEF OnceInv, NoCopies, Rings
  <2>2. "overlap" \notin Faults => IsInjective(work'.todo)
    BY <1>1, <1>2, InjectiveTail DEF OnceInv, NoCopies
  <2> QED
    BY <1>3, <2>1, <2>2 DEF OnceInv, NoCopies
<1>8. hist' = hist /\ \A a \in Accounts : mem'[a].cursor = mem[a].cursor
  BY <1>0, LoopKeepsCursors DEF Consumed, env
<1>9. Owner[id] = acct /\ hist[id] > mem[acct].cursor /\ mem[acct].cursor \in Nat
      /\ mem[acct].cursor # 0 /\ hist \in [Messages -> Nat]
  BY <1>1, <1>2 DEF BatchListed, CursorInv, WindowBeyond, InTurn, TypeOK, AccountStates
<1>10. ASSUME NEW m \in Messages, Remembered(m) \/ Behind(m) PROVE (Remembered(m) \/ Behind(m))'
  <2>1. Owner[m] \in Accounts
    BY MailAssumption
  <2> QED
    BY <1>1, <1>3, <1>5, <1>8, <1>10, <2>1 DEF Remembered, Behind
<1>11. RingOrder'
  <2>1. Window(acct) = {x \in Messages : Owner[x] = acct /\ hist[x] > mem[acct].cursor}
    BY DEF Window
  <2>2. Follows(hist, Append(work.ring, id), acct, mem[acct].cursor)
    BY <1>1, <1>2, <1>9, <2>1, FollowsAppend DEF OnceInv, RingOrder, RingHasRoom
  <2>3. Follows(hist, work'.ring, acct, mem[acct].cursor)
    BY <1>1, <1>4, <2>2 DEF OnceInv, RingOrder, Rings
  <2> QED
    BY <1>1, <1>3, <1>8, <2>3 DEF OnceInv, RingOrder
<1>14. FileRemembers'
  BY <1>1, <1>4, <1>8 DEF OnceInv, FileRemembers
<1>12. CASE calls' = calls
  <2>1. SecondListings'
    BY <1>1, <1>2, <1>12 DEF OnceInv, SecondListings
  <2> QED
    BY <1>6, <1>7, <1>8, <1>10, <1>11, <1>12, <1>14, <2>1 DEF OnceInv, HandledAtMostOnce
<1>13. CASE /\ Rings /\ DedupeKeys(id) \cap seen = {} /\ seen' = seen \cup DedupeKeys(id)
            /\ calls' = [calls EXCEPT ![id] = @ + 1]
  <2>1. Durable /\ calls[id] = 0
    BY <1>1, <1>2, <1>13 DEF OnceInv, SecondListings, Rings
  <2>2. calls' = [calls EXCEPT ![id] = 1]
    BY <1>1, <1>13, <2>1
  <2>3. \A m \in Messages : calls'[m] = IF m = id THEN 1 ELSE calls[m]
    BY <1>1, <2>2
  <2>4. Owner[id] = acct
    BY <1>9
  <2>5. ASSUME NEW m \in Messages, m = id PROVE Remembered(m)'
    BY <1>1, <1>13, <2>4, <2>5 DEF Remembered, Rings
  <2>6. id \in Range(work'.todo) => DedupeKeys(id) \cap seen' # {}
    <3>1. CASE "overlap" \notin Faults
      BY <1>1, <1>2, <3>1, InjectiveTail DEF OnceInv, NoCopies, id
    <3>2. CASE "overlap" \in Faults
      BY <1>1, <1>13, <3>2 DEF Remembers, DedupeKeys
    <3> QED
      BY <3>1, <3>2
  <2>7. SecondListings'
    <3> SUFFICES ASSUME NEW m \in Range(work'.todo), calls'[m] # 0
                 PROVE  DedupeKeys(m) \cap seen' # {}
      BY DEF SecondListings, DedupeKeys, IsSent
    <3>1. m # id => DedupeKeys(m) \cap seen # {}
      BY <1>1, <1>2, <2>1, <2>3 DEF OnceInv, SecondListings
    <3> QED
      BY <1>13, <2>6, <3>1
  <2>8. HandledAtMostOnce'
    BY <2>3 DEF OnceInv, HandledAtMostOnce
  <2>9. \A m \in Messages : calls'[m] # 0 => hist'[m] # 0 /\ (Remembered(m) \/ Behind(m))'
    BY <1>8, <1>9, <1>10, <2>3, <2>5 DEF OnceInv
  <2> QED
    BY <1>6, <1>7, <1>11, <1>14, <2>7, <2>8, <2>9 DEF OnceInv
<1> QED
  BY <1>12, <1>13, LoopCalls

(* The end of a live batch keeps its ring, unless the profile call fails. *)
LEMMA CommitKeepsRing ==
    ASSUME TypeOK, Commit, Durable, "profile" \notin Faults
    PROVE  mem'[acct].ring = LastN(work.ring, RingMax)
<1>1. acct \in Accounts /\ mem \in AccountMap /\ mem[acct] \in AccountStates
  BY AcctType DEF TypeOK, AccountMap
<1>2. PICK cursor :
         Conclude([mem[acct] EXCEPT !.cursor = cursor, !.kept = TRUE,
                      !.ring = LastN(work.ring, RingMax),
                      !.strikes = LastN(work.strikes, MaxTracked)], FALSE)
  BY DEF Commit, Fault
<1> DEFINE r == [mem[acct] EXCEPT !.cursor = cursor, !.kept = TRUE,
                    !.ring = LastN(work.ring, RingMax),
                    !.strikes = LastN(work.strikes, MaxTracked)]
<1>3. \A n : [r EXCEPT !.stalled = n].ring = LastN(work.ring, RingMax)
  BY <1>1 DEF AccountStates
<1>4. Conclude(r, FALSE)
  BY <1>2
<1> HIDE DEF r
<1>5. \E n : mem' = [mem EXCEPT ![acct] = [r EXCEPT !.stalled = n]]
  BY <1>4 DEF Conclude, EndTurn
<1> QED
  BY <1>1, <1>3, <1>5 DEF AccountMap

(* The ring an account is left with at the end of its turn still holds what the *)
(* state object and the turn's locals held, unless the cursor has passed it.    *)
KeepsRing(ring, a, r) ==
    \A m \in Range(ring) : m \in Range(r.ring) \/ hist[m] <= r.cursor
GoodRing(a, r) ==
    /\ IsInjective(r.ring) /\ Follows(hist, r.ring, a, r.cursor)
    /\ r.cursor >= mem[a].cursor /\ (r.cursor = 0 => r.ring = <<>>)
    /\ mem[a].cursor = 0 => r.cursor \in {0, profile[a]}
    /\ KeepsRing(mem[a].ring, a, r)
LEMMA EndingRing ==
    ASSUME Remembers, RingHasRoom, MailInv, OnceInv, TurnStep, TurnEnds
    PROVE  /\ \A a \in Accounts : GoodRing(a, mem'[a])
           /\ InTurn => KeepsRing(work.ring, acct, mem'[acct])
<1>0. /\ TypeOK /\ CursorInv /\ StallSound /\ acct \in Accounts /\ mem \in AccountMap
      /\ mem[acct] \in AccountStates /\ mem[acct].cursor \in Nat /\ profile[acct] \in Nat
      /\ work.ring \in Seq(Messages) /\ mem[acct].ring \in Seq(Messages)
      /\ hist \in [Messages -> Nat] /\ "profile" \notin Faults /\ RingMax \in Nat
  BY AcctType, BoundsAssumption DEF MailInv, TypeOK, AccountMap, AccountStates, Works, Remembers
<1>1. /\ \A a \in Accounts : GoodRing(a, mem[a])
      /\ InTurn => /\ IsInjective(work.ring) /\ mem[acct].cursor # 0
                   /\ Follows(hist, work.ring, acct, mem[acct].cursor)
                   /\ Range(mem[acct].ring) \subseteq Range(work.ring)
                   /\ (~Durable => Range(work.ring) = Range(mem[acct].ring))
  <2>1. \A a \in Accounts : mem[a].cursor \in Nat
    BY <1>0 DEF AccountMap, AccountStates
  <2> QED
    BY <1>0, <2>1 DEF OnceInv, NoCopies, RingCarries, RingOrder, Unseeded, CursorInv,
       WindowBeyond, InTurn, GoodRing, KeepsRing
<1>2. pc = "quiet" => work.ring = mem[acct].ring
  BY <1>0 DEF StallSound
(* The cut: injective, in order, and forgetting only what the cursor has passed. *)
<1>3. ASSUME InTurn
      PROVE  /\ IsInjective(LastN(work.ring, RingMax))
             /\ Follows(hist, LastN(work.ring, RingMax), acct, mem[acct].cursor)
             /\ \A m \in Range(work.ring) : \/ m \in Range(LastN(work.ring, RingMax))
                                           \/ hist[m] <= mem[acct].cursor
  <2>1. Window(acct) = {x \in Messages : Owner[x] = acct /\ hist[x] > mem[acct].cursor}
    BY DEF Window
  <2>2. \/ Cardinality(Messages) <= RingMax
        \/ 2 * Cardinality({x \in Messages : Owner[x] = acct /\ hist[x] > mem[acct].cursor})
             <= RingMax + 1
    BY <1>0, <1>1, <1>3, <2>1 DEF RingHasRoom
  <2>3. IsInjective(LastN(work.ring, RingMax))
    BY <1>0, <1>1, <1>3, InjectiveLastN
  <2>4. Follows(hist, LastN(work.ring, RingMax), acct, mem[acct].cursor)
    BY <1>0, <1>1, <1>3, FollowsLastN
  <2>5. ASSUME NEW m \in Range(work.ring), hist[m] > mem[acct].cursor
        PROVE  m \in Range(LastN(work.ring, RingMax))
    BY <1>0, <1>1, <1>3, <2>2, <2>5, NotForgotten
  <2>6. \A m \in Range(work.ring) : hist[m] > mem[acct].cursor \/ hist[m] <= mem[acct].cursor
    BY <1>0 DEF Range
  <2> QED
    BY <2>3, <2>4, <2>5, <2>6
<1>4. CASE mem' = mem
  <2>1. InTurn => pc \in {"quiet", "commit"}
    BY DEF TurnEnds, InTurn
  <2>2. pc = "commit" => Commit
    BY DEF TurnStep, Unreachable, Seed, ListExpired, List, ResetExpired, QuietTurn,
       MessageStep, InLoop, FetchGone, HandlerGone, ScreenOut, SkipDuplicate, Handle,
       FetchThrows, HandlerThrows, ArchiveBatch
  <2>3. pc = "commit" /\ Durable => mem'[acct].ring = LastN(work.ring, RingMax)
    BY <1>0, <2>2, CommitKeepsRing
  <2>4. InTurn => KeepsRing(work.ring, acct, mem[acct])
    BY <1>1, <1>2, <1>3, <1>4, <2>1, <2>3 DEF KeepsRing
  <2> QED
    BY <1>1, <1>4, <2>4
<1>5. ASSUME NEW r \in AccountStates, mem' = [mem EXCEPT ![acct] = r], GoodRing(acct, r),
             InTurn => KeepsRing(work.ring, acct, r)
      PROVE  /\ \A a \in Accounts : GoodRing(a, mem'[a])
             /\ InTurn => KeepsRing(work.ring, acct, mem'[acct])
  <2>1. \A a \in Accounts : mem'[a] = IF a = acct THEN r ELSE mem[a]
    BY <1>0, <1>5 DEF AccountMap
  <2> QED
    BY <1>0, <1>1, <1>5, <2>1
<1>6. CASE mem' # mem
  <2>1. PICK r \in AccountStates :
           Keeps(r) /\ (SeedRecord(r) \/ Concluding(r) \/ CutRecord(r))
    BY <1>6 DEF TurnEnds, Seeded, Concluded, CutShort
  <2>2. CASE SeedRecord(r)
    <3>1. r.ring = <<>> /\ r.cursor = profile[acct] /\ ~InTurn /\ mem[acct].cursor = 0
      BY <2>2 DEF SeedRecord, Fresh, InTurn
    <3>2. mem[acct].ring = <<>> /\ Range(<<>>) = {} /\ IsInjective(<<>>)
          /\ \A now : Follows(hist, <<>>, acct, now)
      BY <1>0, <3>1 DEF OnceInv, Unseeded, Range, IsInjective, Follows
    <3>3. GoodRing(acct, r)
      BY <1>0, <3>1, <3>2 DEF GoodRing, KeepsRing
    <3> QED
      BY <1>5, <2>1, <3>1, <3>3 DEF Keeps
  <2>3. CASE ResetRecord(r)
    <3>1. r.ring = mem[acct].ring /\ r.cursor = profile[acct] /\ ~InTurn
      BY <2>3 DEF ResetRecord, InTurn
    <3>2. mem[acct].cursor <= profile[acct]
      BY <1>0 DEF CursorInv, ProfileAhead
    <3>3. r.cursor = 0 => mem[acct].cursor = 0
      BY <1>0, <3>1, <3>2
    <3>4. Follows(hist, r.ring, acct, r.cursor)
      BY <1>0, <1>1, <3>1, <3>2, FollowsLater DEF GoodRing
    <3>5. GoodRing(acct, r)
      BY <1>0, <1>1, <3>1, <3>2, <3>3, <3>4 DEF GoodRing, KeepsRing
    <3> QED
      BY <1>5, <2>1, <3>1, <3>5 DEF Keeps
  <2>4. ASSUME InTurn, r.cursor \in NextCursors \/ r.cursor = mem[acct].cursor,
               pc \in {"quiet", "commit"},
               r.ring \in {work.ring, LastN(work.ring, RingMax)}
        PROVE  GoodRing(acct, r) /\ KeepsRing(work.ring, acct, r)
    <3>1. r.cursor \in Nat /\ r.cursor >= mem[acct].cursor
      BY <1>0, <2>4, NextCursorsAhead
    <3>2. r.cursor # 0
      BY <1>0, <1>1, <2>4, <3>1
    <3>3. IsInjective(r.ring) /\ Follows(hist, r.ring, acct, mem[acct].cursor)
      BY <1>1, <1>3, <2>4
    <3>4. Follows(hist, r.ring, acct, r.cursor)
      <4>1. r.ring \in Seq(Messages)
        BY DEF AccountStates
      <4> QED
        BY <1>0, <3>1, <3>3, <4>1, FollowsLater
    <3>5. KeepsRing(work.ring, acct, r)
      <4> SUFFICES ASSUME NEW m \in Range(work.ring)
                   PROVE  m \in Range(r.ring) \/ hist[m] <= r.cursor
        BY DEF KeepsRing
      <4>1. hist[m] \in Nat
        BY <1>0 DEF Range
      <4>2. m \in Range(r.ring) \/ hist[m] <= mem[acct].cursor
        BY <1>3, <2>4
      <4> QED
        BY <1>0, <3>1, <4>1, <4>2
    <3> QED
      BY <1>1, <2>4, <3>1, <3>2, <3>3, <3>4, <3>5 DEF GoodRing, KeepsRing
  <2>5. CASE QuietRecord(r) \/ CommitRecord(r) \/ CutRecord(r)
    <3>1. /\ pc \in {"quiet", "commit"} /\ InTurn
          /\ r.cursor \in NextCursors \/ r.cursor = mem[acct].cursor
      BY <2>5 DEF QuietRecord, CommitRecord, CutRecord, InTurn
    <3>2. r.ring \in {work.ring, LastN(work.ring, RingMax)}
      BY <1>2, <2>5, <3>1 DEF QuietRecord, CommitRecord, CutRecord
    <3> QED
      BY <1>5, <2>1, <2>4, <3>1, <3>2 DEF Keeps
  <2> QED
    BY <2>1, <2>2, <2>3, <2>5 DEF Concluding
<1> QED
  BY <1>4, <1>6

LEMMA NextOnce ==
    ASSUME Remembers, RingHasRoom, MailInv, OnceInv, [Next]_vars
    PROVE  OnceInv'
<1>0. /\ TypeOK /\ CursorInv /\ Resting /\ BatchListed /\ acct \in Accounts /\ mem \in AccountMap
      /\ Owner \in [Messages -> Accounts]
  BY AcctType, MailAssumption DEF MailInv, TypeOK, AccountMap
<1>1. CASE MessageStep
  BY <1>0, <1>1, LoopOnce
<1>2. ASSUME calls' = calls, mem' = mem, hist' = hist, ~InTurn, ~InTurn', FileRemembers'
      PROVE  OnceInv'
  BY <1>2 DEF OnceInv, HandledAtMostOnce, Remembered, Behind, SecondListings, NoCopies,
     RingCarries, Unseeded, RingOrder
<1>3. ASSUME calls' = calls, mem' = mem, disk' = disk, pc' = pc \/ (InTurn /\ InTurn'),
             work' = work, mode' = mode, seen' = seen, at' = at, RingOrder', FileRemembers',
             \A m \in Messages : hist[m] # 0 => hist'[m] = hist[m]
      PROVE  OnceInv'
  BY <1>3 DEF OnceInv, HandledAtMostOnce, Remembered, Behind, SecondListings, NoCopies,
     RingCarries, Unseeded, InTurn, Durable, acct
<1>4. CASE List
  <2>1. Listed
    BY <1>0, <1>4, ListShape
  <2>2. /\ calls' = calls /\ mem' = mem /\ disk' = disk /\ ~InTurn /\ InTurn' /\ acct' = acct
        /\ Durable' = Durable /\ seen' = seen /\ work'.ring = mem[acct].ring /\ hist' = hist
    BY <2>1 DEF Listed, ghosts, env, InTurn, acct, Durable
  <2>3. ASSUME NEW m \in Range(work'.todo) PROVE calls[m] = 0
    <3>1. m \in Messages /\ Owner[m] = acct /\ m \notin Range(mem[acct].ring)
      BY <2>1, <2>3 DEF Listed, Window
    <3>2. ~Remembered(m) /\ ~Behind(m)
      <4>1. /\ hist[m] > mem[acct].cursor /\ hist[m] \in Nat
            /\ mem[acct].cursor \in Nat \ {0}
        BY <1>0, <2>1, <2>3, <3>1 DEF Listed, Window, TypeOK, AccountMap, AccountStates
      <4> QED
        BY <2>2, <3>1, <4>1 DEF Remembered, Behind
    <3> QED
      BY <3>1, <3>2 DEF OnceInv
  <2>4. SecondListings'
    BY <2>2, <2>3 DEF SecondListings
  <2>5. NoCopies'
    BY <1>0, <1>4, <2>2, BatchHasNoCopies DEF OnceInv, NoCopies
  <2>6. \A m \in Messages : calls'[m] # 0 => hist'[m] # 0 /\ (Remembered(m) \/ Behind(m))'
    BY <2>2 DEF OnceInv, Remembered, Behind
  <2>7. RingOrder' /\ FileRemembers'
    BY <1>0, <2>2 DEF OnceInv, RingOrder, FileRemembers
  <2> QED
    BY <2>2, <2>4, <2>5, <2>6, <2>7 DEF OnceInv, HandledAtMostOnce, RingCarries, Unseeded
<1>5. CASE ListExpired
  <2>1. /\ calls' = calls /\ mem' = mem /\ disk' = disk /\ mode' = mode /\ hist' = hist
        /\ ~InTurn /\ ~InTurn'
    BY <1>5 DEF ListExpired, ghosts, env, InTurn
  <2> QED
    BY <1>2, <2>1 DEF OnceInv, FileRemembers, Durable
<1>6. CASE ArchiveBatch
  <2>1. /\ calls' = calls /\ mem' = mem /\ disk' = disk /\ work' = work /\ mode' = mode
        /\ seen' = seen /\ at' = at /\ hist' = hist /\ InTurn /\ InTurn' /\ acct' = acct
    BY <1>6 DEF ArchiveBatch, ghosts, env, InTurn, acct
  <2>2. RingOrder' /\ FileRemembers'
    BY <2>1 DEF OnceInv, RingOrder, FileRemembers, Durable
  <2> QED
    BY <1>3, <2>1, <2>2
<1>7. CASE TurnEnds /\ TurnStep
  <2>1. calls' = calls /\ hist' = hist /\ ~InTurn' /\ Durable' = Durable
    BY <1>7 DEF TurnEnds, env, InTurn, Durable
  <2>2. ~Durable => disk' = disk
    BY <1>7 DEF TurnEnds, Seeded, Concluded, CutShort, Keeps
  <2>3. /\ \A a \in Accounts : GoodRing(a, mem'[a])
        /\ InTurn => KeepsRing(work.ring, acct, mem'[acct])
    BY <1>7, EndingRing
  <2>4. ASSUME NEW m \in Messages, Remembered(m) \/ Behind(m)
        PROVE  \/ m \in Range(mem'[Owner[m]].ring)
               \/ mem'[Owner[m]].cursor = 0 \/ hist[m] <= mem'[Owner[m]].cursor
    <3>1. /\ hist[m] \in Nat /\ mem[Owner[m]].cursor \in Nat /\ mem'[Owner[m]].cursor \in Nat
          /\ Owner[m] \in Accounts /\ hist[m] <= profile[Owner[m]]
      BY <1>0, <1>7, NextType DEF TypeOK, AccountMap, AccountStates, CursorInv, ProfileAhead
    <3>2. GoodRing(Owner[m], mem'[Owner[m]])
      BY <2>3, <3>1
    <3> QED
      BY <2>3, <2>4, <3>1, <3>2 DEF Remembered, Behind, GoodRing, KeepsRing
  <2>5. RingOrder' /\ NoCopies' /\ Unseeded'
    BY <2>1, <2>3 DEF RingOrder, NoCopies, Unseeded, GoodRing
  <2>6. FileRemembers'
    BY <2>1, <2>2 DEF OnceInv, FileRemembers
  <2> QED
    BY <2>1, <2>4, <2>5, <2>6 DEF OnceInv, HandledAtMostOnce, Remembered, Behind,
       SecondListings, RingCarries
<1>8. CASE StartRun
  <2>1. /\ pc = "idle" /\ disk' = disk /\ mem = disk /\ calls' = calls /\ hist' = hist
        /\ ~InTurn /\ ~InTurn'
    BY <1>0, <1>8 DEF StartRun, InTurn, ghosts, env, Resting
  <2>2. FileRemembers'
    BY <2>1 DEF OnceInv, FileRemembers, Remembered, Behind, NoCopies, Unseeded, RingOrder
  <2>3. CASE mem' = mem
    BY <1>2, <2>1, <2>2, <2>3
  <2>4. CASE mem' = [a \in Accounts |-> Fresh]
    <3>1. /\ \A a \in Accounts : mem'[a].cursor = 0 /\ mem'[a].ring = <<>>
          /\ \A m \in Messages : Owner[m] \in Accounts
          /\ IsInjective(<<>>) /\ \A a, now : Follows(hist, <<>>, a, now)
      BY <1>0, <2>4 DEF Fresh, IsInjective, Follows
    <3>2. RingOrder' /\ NoCopies' /\ Unseeded'
      BY <2>1, <3>1 DEF RingOrder, NoCopies, Unseeded
    <3> QED
      BY <2>1, <2>2, <3>1, <3>2 DEF OnceInv, HandledAtMostOnce, Behind, SecondListings,
         RingCarries
  <2> QED
    BY <1>8, <2>3, <2>4 DEF StartRun
<1>9. CASE Return
  <2>1. /\ disk' = IF Durable THEN mem ELSE disk
        /\ mem' = disk' /\ calls' = calls /\ hist' = hist /\ ~InTurn /\ ~InTurn'
        /\ Durable' = Durable
    BY <1>9 DEF Return, InTurn, ghosts, env, Durable
  <2>2. CASE Durable
    BY <1>2, <2>1, <2>2 DEF FileRemembers
  <2>3. CASE ~Durable
    <3>1. mem' = disk /\ disk' = disk
      BY <2>1, <2>3
    <3>2. RingOrder' /\ NoCopies' /\ Unseeded' /\ FileRemembers'
      BY <2>1, <2>3, <3>1 DEF OnceInv, FileRemembers, RingOrder, NoCopies, Unseeded
    <3>3. \A m \in Messages : calls'[m] # 0 => hist'[m] # 0 /\ (Remembered(m) \/ Behind(m))'
      BY <2>1, <2>3, <3>1 DEF OnceInv, FileRemembers, Remembered, Behind
    <3> QED
      BY <2>1, <3>2, <3>3 DEF OnceInv, HandledAtMostOnce, SecondListings, RingCarries
  <2> QED
    BY <2>2, <2>3
<1>10. CASE Reject \/ Crash
  BY <1>10 DEF Reject, Crash, Fault, Remembers
<1>11. CASE Deliver
  <2>1. /\ calls' = calls /\ mem' = mem /\ disk' = disk /\ work' = work /\ mode' = mode
        /\ seen' = seen /\ at' = at /\ pc' = pc
    BY <1>11 DEF Deliver, ghosts
  <2>2. hist \in [Messages -> Nat] /\ hist' \in [Messages -> Nat]
    BY <1>0, NextType DEF TypeOK
  <2>3. \A m \in Messages : \/ hist'[m] = hist[m]
                            \/ /\ hist[m] = 0
                               /\ \A k \in Messages : Owner[k] = Owner[m] => hist'[m] > hist[k]
    BY <1>0, <1>11, Arrival
  <2>4. \A s \in Seq(Messages), a \in Accounts, now \in Nat :
           Follows(hist, s, a, now) => Follows(hist', s, a, now)
    <3>1. ASSUME NEW f \in [Messages -> Nat], NEW g \in [Messages -> Nat],
                 \A m \in Messages : \/ g[m] = f[m]
                                    \/ /\ f[m] = 0
                                       /\ \A k \in Messages : Owner[k] = Owner[m] => g[m] > f[k]
          PROVE  \A s \in Seq(Messages), a \in Accounts, now \in Nat :
                    Follows(f, s, a, now) => Follows(g, s, a, now)
      BY <3>1, FollowsArrival
    <3> QED
      BY <2>2, <2>3, <3>1
  <2>5. /\ work.ring \in Seq(Messages)
        /\ \A a \in Accounts : /\ mem[a].ring \in Seq(Messages) /\ mem[a].cursor \in Nat
                               /\ disk[a].ring \in Seq(Messages) /\ disk[a].cursor \in Nat
    BY <1>0 DEF TypeOK, Works, AccountMap, AccountStates
  <2>6. RingOrder'
    BY <1>0, <2>1, <2>4, <2>5 DEF OnceInv, RingOrder, InTurn, acct
  <2>7. FileRemembers'
    <3>1. \A m \in Messages : calls[m] # 0 => hist'[m] = hist[m]
      BY <2>3 DEF OnceInv
    <3> QED
      BY <2>1, <2>4, <2>5, <3>1 DEF OnceInv, FileRemembers, Durable
  <2> QED
    BY <1>3, <2>1, <2>3, <2>6, <2>7
<1>12. CASE Expire \/ UNCHANGED vars
  <2>1. /\ calls' = calls /\ mem' = mem /\ disk' = disk /\ work' = work /\ mode' = mode
        /\ seen' = seen /\ at' = at /\ pc' = pc /\ hist' = hist
    BY <1>12 DEF Expire, vars, env, ghosts
  <2>2. RingOrder' /\ FileRemembers'
    BY <2>1 DEF OnceInv, RingOrder, FileRemembers, InTurn, acct, Durable
  <2> QED
    BY <1>3, <2>1, <2>2
<1> QED
  BY <1>0, <1>1, <1>4, <1>5, <1>6, <1>7, <1>8, <1>9, <1>10, <1>11, <1>12, TurnShape
     DEF Next, RunStep

(* poll.js 210-213, for every mailbox, however long it lives, and every cap:    *)
(* while no crash, lost write or failing profile call drops what a run knows,   *)
(* no more than half a ring of mail waits beyond a cursor and no page overlap   *)
(* lists a message without a Message-ID again, no message reaches the handler's *)
(* success twice, however often a parked cursor lists its window anew and       *)
(* whatever else fails.                                                         *)
THEOREM RingPreventsRepeats ==
    Remembers => (Spec /\ []RingHasRoom => []HandledAtMostOnce)
<1> SUFFICES ASSUME Remembers PROVE Spec /\ []RingHasRoom => []HandledAtMostOnce
  OBVIOUS
<1>1. OnceInv => HandledAtMostOnce
  BY DEF OnceInv
<1>2. RingHasRoom /\ MailInv /\ OnceInv /\ [Next]_vars => OnceInv'
  BY NextOnce
<1> QED
  BY <1>1, <1>2, InitMailInv, NextMailInv, InitOnce, PTL DEF Spec
=============================================================================
