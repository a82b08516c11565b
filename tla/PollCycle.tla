------------------------------ MODULE PollCycle ------------------------------
(***************************************************************************)
(* poll() of src/poll.js: one run visits every configured account in turn, *)
(* lists the messages Gmail added since the account's cursor, screens and  *)
(* dedupes them, hands the rest to the caller's handler, and then moves    *)
(* the cursor and rewrites the state file.                                 *)
(*                                                                         *)
(* Between any two steps of a run the mailbox may receive mail, a call may *)
(* fail, or the process may die: every `await` of the code is a step       *)
(* boundary here.  Gmail is abstracted to what the code can observe of it: *)
(* a profile history id per account, the history record each message was  *)
(* added in, and the listing of the records after a cursor (GmailClient's  *)
(* getHistory, whose pages are not resolved here).                         *)
(*                                                                         *)
(* Messages are numbers and a mailbox lists its messages in that order.    *)
(***************************************************************************)
EXTENDS Sequences, Functions, HistoryWindow

CONSTANTS
    Clients,         \* config.clients: the accounts, in the order of a run
    Messages,        \* every message that may ever be delivered
    Owner,           \* the account whose mailbox a message is delivered to
    Kind,            \* what fetchMetadata shows of a message (see Kinds)
    MessageId,       \* its Message-ID header, or NoId
    NoId,
    IngestSent,      \* accounts with ingestSent === true
    IngestSelfSent,  \* accounts with ingestSelfSent === true
    ReadOnly,        \* accounts whose client is readOnly
    Archiving,       \* accounts archived after processing (no noArchive)
    Unattributed,    \* messages whose history record Gmail returns without an id
    Poison,          \* messages the handler always throws on
    Broken,          \* accounts whose every Gmail call throws (a dead token)
    Modes,           \* how poll() is called: "live", "dry", "invoke"
    Faults,          \* the kinds of failing call the instance explores
    MaxFaults,       \* how many of them, a bound of the model
    ArriveMidRun,    \* may mail arrive while a run is in progress?
    MaxRecord,       \* messages of one history record, a bound of the model
    MaxPerRun,       \* config.maxPerRun
    MaxAttempts,     \* MAX_MESSAGE_ATTEMPTS
    RingMax,         \* RING_MAX
    MaxTracked,      \* MAX_TRACKED_FAILURES
    QuarantineMax,   \* the 200 of quarantinedIds
    IdCap,           \* MAX_HISTORY_IDS_PER_CALL
    StallCap         \* STALL_FAIL_RUNS: the model counts no further than that

Accounts == Range(Clients)
Kinds == {"mail", "excluded", "sent", "sentAuto", "sentSelf"}

ASSUME ClientsAssumption ==
    /\ Clients \in Seq(Accounts) /\ Clients # <<>>
    /\ \A i, j \in DOMAIN Clients : Clients[i] = Clients[j] => i = j
ASSUME MailAssumption ==
    /\ Messages \subseteq Nat /\ IsFiniteSet(Messages)
    /\ Owner \in [Messages -> Accounts]
    /\ Kind \in [Messages -> Kinds]
    /\ DOMAIN MessageId = Messages
    /\ Unattributed \subseteq Messages /\ Poison \subseteq Messages
ASSUME BoundsAssumption ==
    /\ Modes \subseteq {"live", "dry", "invoke"} /\ Modes # {}
    /\ MaxFaults \in Nat /\ MaxPerRun \in Nat /\ IdCap \in Nat
    /\ MaxRecord \in Nat \ {0} /\ StallCap \in Nat \ {0}
    /\ MaxAttempts \in Nat \ {0} /\ RingMax \in Nat \ {0}
    /\ MaxTracked \in Nat \ {0} /\ QuarantineMax \in Nat \ {0}
    /\ ArriveMidRun \in BOOLEAN

VARIABLES
    hist,      \* the history record a message was added in; 0: not delivered
    profile,   \* the mailbox's current history id
    retained,  \* Gmail answers 404 to a cursor below this record
    archived,  \* messages whose INBOX label a run removed
    disk,      \* the state file, per account
    mem,       \* the state object of the run in progress
    pc,        \* where the run stands ("idle": no run)
    at,        \* index in Clients of the account in turn
    mode,      \* dryRun / invokeHandlerInDryRun of the run
    work,      \* the local variables of the account's turn
    seen,      \* seenMessageIds of the run
    stats,     \* the counters poll() returns
    budget,    \* failures the instance may still inject
    enrolled,  \* history: accounts with a cursor on disk when some run began
    fate,      \* history: what became of each message
    calls      \* history: successful live handler calls

env    == <<hist, profile, retained>>
ghosts == <<enrolled, fate, calls>>
vars   == <<env, archived, disk, mem, pc, at, mode, work, seen, stats, budget, ghosts>>

-----------------------------------------------------------------------------
(* The persisted state of an account.  cursor 0 is an absent lastHistoryId;  *)
(* kept: processedIds and messageFailures are present, so the run's ring and *)
(* strikes ARE the state's objects and survive an exception of the turn.     *)
Fresh == [cursor |-> 0, kept |-> FALSE, ring |-> <<>>, strikes |-> <<>>,
          dropped |-> <<>>, stalled |-> 0]
NoWork == [listed |-> {}, truncated |-> FALSE, capped |-> FALSE, todo |-> <<>>,
           ring |-> <<>>, strikes |-> <<>>, toArchive |-> {}, progressed |-> FALSE]
NoStats == [fetched |-> 0, messageErrors |-> 0, accountErrors |-> 0, truncated |-> 0,
            expired |-> 0, quarantined |-> 0, maxStalled |-> 0]

acct == Clients[at]
Durable == mode = "live"
Fault(f) == f \in Faults /\ budget > 0 /\ budget' = budget - 1
NoFault == budget' = budget
Count(s, unit) == [s EXCEPT ![unit] = @ + 1]

Take(s, n) == SubSeq(s, 1, IF n < Len(s) THEN n ELSE Len(s))
LastN(s, n) == SubSeq(s, IF n < Len(s) THEN Len(s) - n + 1 ELSE 1, Len(s))

(* messageFailures, a JavaScript object: entries in order of first insertion. *)
Entry(strikes, m) == {i \in DOMAIN strikes : strikes[i].id = m}
StrikesOf(strikes, m) ==
    IF Entry(strikes, m) = {} THEN 0 ELSE strikes[CHOOSE i \in Entry(strikes, m) : TRUE].n
Strike(strikes, m) ==
    IF Entry(strikes, m) = {} THEN Append(strikes, [id |-> m, n |-> 1])
    ELSE [strikes EXCEPT ![CHOOSE i \in Entry(strikes, m) : TRUE].n = @ + 1]
Forgive(strikes, m) ==
    IF Entry(strikes, m) = {} THEN strikes
    ELSE LET i == CHOOSE i \in Entry(strikes, m) : TRUE
         IN  SubSeq(strikes, 1, i - 1) \o SubSeq(strikes, i + 1, Len(strikes))

(* ringAdd: every path that adds to the ring clears the message's strikes. *)
RingAdd(w, m) ==
    [w EXCEPT !.ring = IF m \in Range(@) THEN @ ELSE Append(@, m),
              !.strikes = Forgive(@, m),
              !.progressed = @ \/ m \notin Range(w.ring)]

-----------------------------------------------------------------------------
(* What Gmail lists.                                                          *)
Window(a) == {m \in Messages : Owner[m] = a /\ hist[m] > mem[a].cursor}

(* A paging overlap may list the messages of one record a second time.        *)
Overlaps(a) == {0} \cup {hist[m] : m \in IF "overlap" \in Faults THEN Window(a) ELSE {}}

(* What getHistory may return of it; GmailHistory has its pages and retries.  *)
ListingsOf(a, record) == Listings(Window(a), hist, Unattributed, IdCap, record)

InOrder(S) == {q \in [1..Cardinality(S) -> S] :
                  \A i, j \in 1..Cardinality(S) : i < j => q[i] < q[j]}
ListedInTurn(before, again, after) ==
    {x \o y \o z : x \in InOrder(before), y \in InOrder(again), z \in InOrder(after)}
Enumerations(S, record) ==
    ListedInTurn({m \in S : hist[m] <= record}, {m \in S : hist[m] = record},
                 {m \in S : hist[m] > record})

(* Mutated: the watermark of the first cut, at message granularity.           *)
WatermarksByMessage(listed, ring, cursor) ==
    LET holes == listed \ Range(ring)
        passable == {hist[m] : m \in {k \in listed : \A h \in holes : k < h}}
    IN  IF passable = {} THEN {cursor} ELSE {r \in passable : \A q \in passable : q <= r}
(* Mutated: parking forgets the cursor. *)
WatermarksFromNothing(listed, ring, cursor) ==
    LET holes == {hist[m] : m \in listed \ Range(ring)}
        passable == {r \in {hist[m] : m \in listed} : \A h \in holes : r < h}
    IN  IF passable = {} THEN {0} ELSE {r \in passable : \A q \in passable : q <= r}
(* nextCursor on a truncated window: the last record such that it and all the *)
(* listed records up to it are ringed.  (NextCursor.tla has the loop itself.) *)
Watermarks(listed, ring, cursor) ==
    LET holes == {hist[m] : m \in listed \ Range(ring)}
        passable == {r \in {hist[m] : m \in listed} : \A h \in holes : r < h}
    IN  IF passable = {} THEN {cursor} ELSE {r \in passable : \A q \in passable : q <= r}

(* Mutated: "now" on every window, the mail loss of 2026-08-23. *)
NowAlways == {profile[acct]}
(* The one cursor nextCursor answers with (the old one when it parks). *)
NextCursors ==
    IF work.truncated THEN Watermarks(work.listed, work.ring, mem[acct].cursor)
    ELSE {profile[acct]}

-----------------------------------------------------------------------------
(* Ways a turn ends.                                                          *)
NextAccount ==
    /\ work' = NoWork
    /\ IF at = Len(Clients) THEN pc' = "finish" /\ at' = at
                            ELSE pc' = "account" /\ at' = at + 1

(* writeState at the end of a turn: the file is replaced whole, or the write  *)
(* throws into the account's catch and only the object in memory has moved.   *)
EndTurn(m, s, unit) ==
    /\ NextAccount
    /\ \/ /\ NoFault
          /\ stats' = s
          /\ IF Durable THEN mem' = m /\ disk' = m ELSE UNCHANGED <<mem, disk>>
       \/ /\ Durable /\ Fault("write")
          /\ stats' = Count(s, unit)
          /\ mem' = m /\ UNCHANGED disk

(* Mutated: the exception leaves the loop over the accounts. *)
GiveUpEscaping(m, unit) ==
    /\ work' = NoWork /\ pc' = "finish" /\ at' = at
    /\ stats' = Count(stats, unit)
    /\ mem' = IF Durable THEN m ELSE mem
    /\ UNCHANGED disk
(* The account's catch block. *)
GiveUp(m, unit) ==
    /\ NextAccount
    /\ stats' = Count(stats, unit)
    /\ mem' = IF Durable THEN m ELSE mem
    /\ UNCHANGED disk

(* What the state object holds of the turn's ring and strikes if it is cut short. *)
Aliased ==
    IF mem[acct].kept
    THEN [mem EXCEPT ![acct].ring = work.ring, ![acct].strikes = work.strikes]
    ELSE mem

(* Mutated: a stalled run does not add to the last one. *)
ConcludeForgetful(record, caughtUp) ==
    LET progress == record.cursor # mem[acct].cursor \/ work.progressed \/ caughtUp
        stalled == IF progress THEN 0 ELSE 1
        worst == IF Durable /\ stalled > stats.maxStalled THEN stalled ELSE stats.maxStalled
    IN  EndTurn([mem EXCEPT ![acct] = [record EXCEPT !.stalled = stalled]],
                [stats EXCEPT !.maxStalled = worst], "messageErrors")
(* Mutated: progress is the cursor alone. *)
ConcludeByCursor(record, caughtUp) ==
    LET progress == record.cursor # mem[acct].cursor \/ caughtUp
        stalled == IF progress THEN 0
                   ELSE IF record.stalled < StallCap THEN record.stalled + 1 ELSE StallCap
        worst == IF Durable /\ stalled > stats.maxStalled THEN stalled ELSE stats.maxStalled
    IN  EndTurn([mem EXCEPT ![acct] = [record EXCEPT !.stalled = stalled]],
                [stats EXCEPT !.maxStalled = worst], "messageErrors")
(* noteRun, then the write. *)
Conclude(record, caughtUp) ==
    LET progress == record.cursor # mem[acct].cursor \/ work.progressed \/ caughtUp
        stalled == IF progress THEN 0
                   ELSE IF record.stalled < StallCap THEN record.stalled + 1 ELSE StallCap
        worst == IF Durable /\ stalled > stats.maxStalled THEN stalled ELSE stats.maxStalled
    IN  EndTurn([mem EXCEPT ![acct] = [record EXCEPT !.stalled = stalled]],
                [stats EXCEPT !.maxStalled = worst], "messageErrors")

-----------------------------------------------------------------------------
(* readState: an unreadable file is an empty state. *)
StartRun ==
    /\ pc = "idle"
    /\ mode' \in Modes
    /\ pc' = "account" /\ at' = 1 /\ stats' = NoStats
    /\ \/ NoFault /\ UNCHANGED mem
       \/ Fault("state") /\ mem' = [a \in Accounts |-> Fresh]
    /\ enrolled' = enrolled \cup {a \in Accounts : disk[a].cursor # 0}
    /\ UNCHANGED <<env, archived, disk, work, seen, fate, calls>>

(* The account's first Gmail call throws: nothing was listed. *)
Unreachable ==
    /\ pc = "account"
    /\ (acct \in Broken /\ NoFault) \/ Fault("list")
    /\ GiveUp(mem, "accountErrors")
    /\ UNCHANGED <<env, archived, mode, seen, ghosts>>

Seed ==
    /\ pc = "account" /\ acct \notin Broken
    /\ mem[acct].cursor = 0
    /\ EndTurn([mem EXCEPT ![acct] = [Fresh EXCEPT !.cursor = profile[acct]]],
               stats, "accountErrors")
    /\ fate' = [m \in Messages |->
                  IF /\ Durable /\ acct \notin enrolled
                     /\ Owner[m] = acct /\ hist[m] # 0 /\ fate[m] = "pending"
                  THEN "skipped" ELSE fate[m]]
    /\ UNCHANGED <<env, archived, mode, seen, enrolled, calls>>

ListExpired ==
    /\ pc = "account" /\ acct \notin Broken
    /\ mem[acct].cursor # 0 /\ mem[acct].cursor < retained[acct]
    /\ stats' = Count(stats, "expired")
    /\ pc' = "expired"
    /\ NoFault
    /\ UNCHANGED <<env, archived, disk, mem, at, mode, work, seen, ghosts>>

(* The first MaxPerRun of what the ring has not seen. *)
Begin(listed, batch) ==
    LET todo == Take(batch, MaxPerRun)
        truncated == listed # Window(acct)
    IN  /\ work' = [NoWork EXCEPT !.listed = listed, !.truncated = truncated,
                       !.capped = Len(batch) > MaxPerRun, !.todo = todo,
                       !.ring = mem[acct].ring, !.strikes = mem[acct].strikes]
        /\ stats' = [stats EXCEPT !.fetched = @ + Len(todo),
                       !.truncated = IF truncated THEN @ + 1 ELSE @]
        /\ pc' = IF todo = <<>> THEN "quiet" ELSE "message"

List ==
    /\ pc = "account" /\ acct \notin Broken
    /\ mem[acct].cursor # 0 /\ mem[acct].cursor >= retained[acct]
    /\ \E record \in Overlaps(acct) : \E listed \in ListingsOf(acct, record) :
       \E batch \in Enumerations(listed \ Range(mem[acct].ring), record) :
          Begin(listed, batch)
    /\ NoFault
    /\ UNCHANGED <<env, archived, disk, mem, at, mode, seen, ghosts>>

(* The 404 of getHistory: the cursor restarts from now. *)
ResetExpired ==
    /\ pc = "expired"
    /\ \/ Conclude([mem[acct] EXCEPT !.cursor = profile[acct]], FALSE)
       \/ Fault("profile") /\ GiveUp(mem, "messageErrors")
    /\ UNCHANGED <<env, archived, mode, seen, ghosts>>

(* Mutated: a quiet run counts as a stall. *)
QuietTurnStalling ==
    /\ pc = "quiet"
    /\ \/ \E cursor \in NextCursors : Conclude([mem[acct] EXCEPT !.cursor = cursor], FALSE)
       \/ ~work.truncated /\ Fault("profile") /\ GiveUp(Aliased, "messageErrors")
    /\ UNCHANGED <<env, archived, mode, seen, ghosts>>
(* Nothing listed, or nothing left after the ring filter and the cap. *)
QuietTurn ==
    /\ pc = "quiet"
    /\ \/ \E cursor \in NextCursors :
             Conclude([mem[acct] EXCEPT !.cursor = cursor],
                      work.listed = {} \/ ~work.truncated)
       \/ ~work.truncated /\ Fault("profile") /\ GiveUp(Aliased, "messageErrors")
    /\ UNCHANGED <<env, archived, mode, seen, ghosts>>

-----------------------------------------------------------------------------
(* The message loop. *)
id == Head(work.todo)
IsSent(m) == Kind[m] \in {"sent", "sentAuto", "sentSelf"}
Screened(m) ==
    \/ Kind[m] = "excluded"
    \/ IsSent(m) /\ acct \notin IngestSent
    \/ Kind[m] = "sentAuto"
    \/ Kind[m] = "sentSelf" /\ acct \notin IngestSelfSent
(* Sent copies and received copies dedupe in separate spaces. *)
DedupeKeys(m) == IF MessageId[m] = NoId THEN {} ELSE {<<IsSent(m), MessageId[m]>>}
(* Mutated: the flags alone decide, or the run's mode is not asked. *)
ArchiveReadOnly(m) == Durable /\ ~IsSent(m) /\ acct \in Archiving
ArchiveInDryRun(m) == acct \notin ReadOnly /\ ~IsSent(m) /\ acct \in Archiving
ShouldArchive(m) ==
    Durable /\ acct \notin ReadOnly /\ ~IsSent(m) /\ acct \in Archiving

(* Mutated: the loop tests the batch before it takes from it. *)
ConsumeLate(w) ==
    /\ work' = [w EXCEPT !.todo = Tail(@)]
    /\ pc' = IF Len(w.todo) > 0 THEN "message"
             ELSE IF w.toArchive # {} THEN "archive" ELSE "commit"
Consume(w) ==
    /\ work' = [w EXCEPT !.todo = Tail(@)]
    /\ pc' = IF Len(w.todo) > 1 THEN "message"
             ELSE IF w.toArchive # {} THEN "archive" ELSE "commit"
(* A drop that no write kept is superseded when the message is dealt with anew. *)
Becomes(m, f) ==
    fate' = IF fate[m] \in {"pending", "quarantined"} THEN [fate EXCEPT ![m] = f] ELSE fate

(* The message needs no handler: ringed for good, unless the run is dry. *)
Retire(m, f) ==
    IF Durable THEN Consume(RingAdd(work, m)) /\ Becomes(m, f)
               ELSE Consume(work) /\ UNCHANGED fate

InLoop == pc = "message" /\ UNCHANGED <<env, archived, disk, at, mode, enrolled>>
(* Mutated: no dedupe. *)
ArrivesAgain(m) == ~Screened(m) /\ seen' = seen \cup DedupeKeys(m)
Arrives(m) == ~Screened(m) /\ DedupeKeys(m) \cap seen = {} /\ seen' = seen \cup DedupeKeys(m)

(* "Requested entity was not found": of the fetch, the message was deleted;   *)
(* of any call the handler makes, the code cannot tell and retires it as well. *)
FetchGone ==
    /\ InLoop /\ Fault("gone")
    /\ Retire(id, "gone")
    /\ UNCHANGED <<mem, seen, stats, calls>>
HandlerGone ==
    /\ InLoop /\ Fault("mistaken") /\ mode # "dry"
    /\ Arrives(id)
    /\ Retire(id, "mistaken")
    /\ UNCHANGED <<mem, stats, calls>>

ScreenOut ==
    /\ InLoop /\ NoFault
    /\ Screened(id)
    /\ Retire(id, "screened")
    /\ UNCHANGED <<mem, seen, stats, calls>>

SkipDuplicate ==
    /\ InLoop /\ NoFault
    /\ ~Screened(id) /\ DedupeKeys(id) \cap seen # {}
    /\ Retire(id, "duplicate")
    /\ UNCHANGED <<mem, seen, stats, calls>>

Handle ==
    /\ InLoop /\ NoFault
    /\ mode = "dry" \/ id \notin Poison
    /\ Arrives(id)
    /\ LET w == IF Durable THEN RingAdd(work, id) ELSE work
       IN  Consume([w EXCEPT !.toArchive = @ \cup
                        (IF mode # "dry" /\ ShouldArchive(id) THEN {id} ELSE {})])
    /\ IF Durable THEN /\ fate' = [fate EXCEPT ![id] = "handled"]
                       /\ calls' = [calls EXCEPT ![id] = @ + 1]
                  ELSE UNCHANGED <<fate, calls>>
    /\ UNCHANGED <<mem, stats>>

(* Mutated: a retired message is not named in the state. *)
StruckUnnamed(m) ==
    LET w == [work EXCEPT !.strikes = Strike(@, m)]
        failed == Count(stats, "messageErrors")
    IN  IF ~Durable
        THEN Consume(work) /\ stats' = failed /\ UNCHANGED <<mem, fate>>
        ELSE IF StrikesOf(w.strikes, m) < MaxAttempts
        THEN Consume(w) /\ stats' = failed /\ UNCHANGED <<mem, fate>>
        ELSE /\ Consume(RingAdd(w, m))
             /\ stats' = Count(failed, "quarantined")
             /\ Becomes(m, "quarantined")
             /\ UNCHANGED mem
(* The per-message catch: a strike, and retirement at the last one. *)
Struck(m) ==
    LET w == [work EXCEPT !.strikes = Strike(@, m)]
        failed == Count(stats, "messageErrors")
    IN  IF ~Durable
        THEN Consume(work) /\ stats' = failed /\ UNCHANGED <<mem, fate>>
        ELSE IF StrikesOf(w.strikes, m) < MaxAttempts
        THEN Consume(w) /\ stats' = failed /\ UNCHANGED <<mem, fate>>
        ELSE /\ Consume(RingAdd(w, m))
             /\ mem' = [mem EXCEPT ![acct].dropped = LastN(Append(@, m), QuarantineMax)]
             /\ stats' = Count(failed, "quarantined")
             /\ Becomes(m, "quarantined")

FetchThrows ==
    /\ InLoop /\ Fault("fetch")
    /\ Struck(id)
    /\ UNCHANGED <<seen, calls>>
HandlerThrows ==
    /\ InLoop /\ mode # "dry"
    /\ (id \in Poison /\ NoFault) \/ Fault("handler")
    /\ Arrives(id)
    /\ Struck(id)
    /\ UNCHANGED calls

-----------------------------------------------------------------------------
(* One batchModify after the loop; its failure is only logged. *)
ArchiveBatch ==
    /\ pc = "archive"
    /\ \/ NoFault /\ archived' = archived \cup work.toArchive
       \/ Fault("archive") /\ UNCHANGED archived
    /\ pc' = "commit"
    /\ UNCHANGED <<env, disk, mem, at, mode, work, seen, stats, ghosts>>

(* Mutated: the cursor moves on an overflow too. *)
CommitOnOverflow ==
    /\ pc = "commit"
    /\ \/ \E cursor \in NextCursors :
             Conclude([mem[acct] EXCEPT
                          !.cursor = cursor, !.kept = TRUE,
                          !.ring = LastN(work.ring, RingMax),
                          !.strikes = LastN(work.strikes, MaxTracked)], FALSE)
       \/ /\ ~work.truncated /\ Fault("profile")
          /\ GiveUp(Aliased, "messageErrors")
    /\ UNCHANGED <<env, archived, mode, seen, ghosts>>
Commit ==
    /\ pc = "commit"
    /\ LET moves == work.truncated \/ ~work.capped
       IN  \/ \E cursor \in IF moves THEN NextCursors ELSE {mem[acct].cursor} :
                Conclude([mem[acct] EXCEPT
                             !.cursor = cursor,
                             !.kept = TRUE,
                             !.ring = LastN(work.ring, RingMax),
                             !.strikes = LastN(work.strikes, MaxTracked)], FALSE)
           \/ /\ moves /\ ~work.truncated /\ Fault("profile")
              /\ GiveUp(Aliased, "messageErrors")
    /\ UNCHANGED <<env, archived, mode, seen, ghosts>>

(* The last write is outside every try: if it throws, poll() rejects. *)
Return ==
    /\ pc = "finish" /\ NoFault
    /\ disk' = IF Durable THEN mem ELSE disk
    /\ mem' = disk'
    /\ pc' = "idle" /\ seen' = {} /\ at' = 1
    /\ UNCHANGED <<env, archived, mode, work, stats, ghosts>>
Reject ==
    /\ pc = "finish" /\ Durable /\ Fault("write")
    /\ mem' = disk
    /\ pc' = "idle" /\ seen' = {} /\ at' = 1 /\ stats' = NoStats
    /\ UNCHANGED <<env, archived, disk, mode, work, ghosts>>

-----------------------------------------------------------------------------
(* The environment: mail, Gmail's history retention, the process. *)
Deliver ==
    /\ pc = "idle" \/ ArriveMidRun
    /\ \E a \in Accounts : \E last \in {m \in Messages : Owner[m] = a /\ hist[m] = 0} :
          LET block == {m \in Messages : Owner[m] = a /\ hist[m] = 0 /\ m <= last}
          IN  /\ Cardinality(block) <= MaxRecord
              /\ profile' = [profile EXCEPT ![a] = @ + 1]
              /\ hist' = [m \in Messages |-> IF m \in block THEN profile[a] + 1 ELSE hist[m]]
    /\ NoFault
    /\ UNCHANGED <<retained, archived, disk, mem, pc, at, mode, work, seen, stats, ghosts>>

Expire ==
    /\ Fault("expire")
    /\ \E a \in Accounts : /\ retained[a] < profile[a]
                           /\ retained' = [retained EXCEPT ![a] = profile[a]]
    /\ UNCHANGED <<hist, profile, archived, disk, mem, pc, at, mode, work, seen, stats, ghosts>>

Crash ==
    /\ pc # "idle" /\ Fault("crash")
    /\ pc' = "idle" /\ mem' = disk /\ at' = 1
    /\ work' = NoWork /\ seen' = {} /\ stats' = NoStats
    /\ UNCHANGED <<env, archived, disk, mode, ghosts>>

-----------------------------------------------------------------------------
Init ==
    /\ hist = [m \in Messages |-> 0]
    /\ profile = [a \in Accounts |-> 1] /\ retained = [a \in Accounts |-> 0]
    /\ archived = {}
    /\ disk = [a \in Accounts |-> Fresh] /\ mem = disk
    /\ pc = "idle" /\ at = 1 /\ mode \in Modes
    /\ work = NoWork /\ seen = {} /\ stats = NoStats
    /\ budget = MaxFaults
    /\ enrolled = {}
    /\ fate = [m \in Messages |-> "pending"] /\ calls = [m \in Messages |-> 0]

MessageStep ==
    FetchGone \/ HandlerGone \/ ScreenOut \/ SkipDuplicate \/ Handle
    \/ FetchThrows \/ HandlerThrows
TurnStep ==
    Unreachable \/ Seed \/ ListExpired \/ List \/ ResetExpired \/ QuietTurn
    \/ MessageStep \/ ArchiveBatch \/ Commit
RunStep == StartRun \/ TurnStep \/ Return \/ Reject
Next == RunStep \/ Deliver \/ Expire \/ Crash

Spec == Init /\ [][Next]_vars

(* cron starts a run again and again, and a run in progress takes its next step. *)
FairSpec == Spec /\ WF_vars(RunStep)

-----------------------------------------------------------------------------
(* Properties. *)

Strikes == [id : Messages, n : Nat]
AccountStates ==
    [cursor : Nat, kept : BOOLEAN, ring : Seq(Messages), strikes : Seq(Strikes),
     dropped : Seq(Messages), stalled : 0..StallCap]
Works ==
    [listed : SUBSET Messages, truncated : BOOLEAN, capped : BOOLEAN,
     todo : Seq(Messages), ring : Seq(Messages), strikes : Seq(Strikes),
     toArchive : SUBSET Messages, progressed : BOOLEAN]
Counters ==
    [fetched : Nat, messageErrors : Nat, accountErrors : Nat, truncated : Nat,
     expired : Nat, quarantined : Nat, maxStalled : Nat]

(* The type invariant: the state object, the file, the turn's locals and the *)
(* counters of poll() hold what their initialisers say, and the message loop *)
(* is only entered with a message to take.                                   *)
TypeOK ==
    /\ hist \in [Messages -> Nat]
    /\ profile \in [Accounts -> Nat] /\ retained \in [Accounts -> Nat]
    /\ archived \subseteq Messages
    /\ disk \in [Accounts -> AccountStates] /\ mem \in [Accounts -> AccountStates]
    /\ pc \in {"idle", "account", "expired", "quiet", "message", "archive", "commit", "finish"}
    /\ at \in 1..Len(Clients)
    /\ mode \in Modes
    /\ work \in Works
    /\ pc = "message" => work.todo # <<>>
    /\ stats \in Counters
    /\ budget \in Nat
    /\ enrolled \subseteq Accounts
    /\ fate \in [Messages -> {"pending", "skipped", "screened", "handled", "duplicate",
                              "gone", "mistaken", "quarantined"}]
    /\ calls \in [Messages -> Nat]

(* A message nobody has dealt with: neither handled nor screened nor retired, *)
(* or ringed as the duplicate of a copy that was never handled either, or     *)
(* ringed as deleted when it was the handler that missed something.           *)
HandledCopy(m) ==
    \E k \in Messages : /\ k # m /\ fate[k] = "handled"
                        /\ DedupeKeys(k) \cap DedupeKeys(m) # {}
Unserved(m) ==
    fate[m] \in {"pending", "mistaken"} \/ (fate[m] = "duplicate" /\ ~HandledCopy(m))

(* A historyId cursor cannot look backwards: what lies at or below it is lost. *)
Passed(m) == hist[m] # 0 /\ disk[Owner[m]].cursor >= hist[m]
Lost == {m \in Messages : Passed(m) /\ Unserved(m)}

(* No silent loss (poll.js 113-121, 277-309): when the cursor on disk moves  *)
(* past mail nobody served, the counters of that run show it: the history    *)
(* window expired, or as many messages errored as were lost.                 *)
LossIsReported ==
    [][ \/ Lost' \subseteq Lost
        \/ stats'.expired > 0
        \/ Cardinality(Lost' \ Lost) <= stats'.messageErrors ]_vars

(* What a step adds to the lost mail, its run's state object had passed before. *)
NothingNewlyLost == \A m \in Lost' \ Lost : hist[m] <= mem[Owner[m]].cursor

(* nextCursor's argument (poll.js 281-305): on a truncated window the cursor *)
(* never steps over a message that was not dealt with, whatever failed in    *)
(* the run, whatever arrived meanwhile, and although the window shown is     *)
(* only a prefix.                                                            *)
TruncatedTurnLosesNothing ==
    [][ (pc \in {"quiet", "commit"} /\ pc' # pc /\ work.truncated) => NothingNewlyLost ]_vars

(* Overflow (poll.js 365-368): a turn that deferred messages to the next run  *)
(* does not let the cursor pass them, nor anything else unserved.             *)
OverflowIsKept ==
    [][ (pc \in {"quiet", "commit"} /\ pc' # pc /\ work.capped) => NothingNewlyLost ]_vars

(* poll.js 279-280: "UNtruncated: the whole window was enumerated, so now is  *)
(* correct": when nothing of such a turn failed, nothing is lost by it.       *)
NowIsCorrect ==
    [][ (/\ pc \in {"quiet", "commit"} /\ ~work.truncated /\ ~work.capped
         /\ stats.messageErrors = 0) => Lost' \subseteq Lost ]_vars

(* The durable processed-ring (poll.js 210-213): a parked cursor re-lists    *)
(* the same window run after run, and no message reaches the handler's       *)
(* success twice.                                                            *)
HandledAtMostOnce == \A m \in Messages : calls[m] <= 1

(* poll.js 351: an account's cursor never moves back, through crashes, lost  *)
(* writes, expiry and re-listing; the one exception is a state file that     *)
(* could not be read, after which the account starts over unseeded.          *)
CursorNeverRegresses ==
    [][ \A a \in Accounts : \/ disk'[a].cursor >= disk[a].cursor
                            \/ disk'[a].cursor = 0 /\ "state" \in Faults ]_vars

(* poll.js 457-461, 492-506: only received mail that was handled leaves the  *)
(* inbox, and never in a read-only or noArchive account.                     *)
ArchivedWasHandled ==
    \A m \in archived : /\ fate[m] = "handled"
                        /\ Owner[m] \in Archiving \ ReadOnly
                        /\ Kind[m] \notin {"sent", "sentAuto", "sentSelf", "excluded"}

(* dryRun (poll.js 159, 189-201, 440-447): a run that is not live leaves the *)
(* state file, the mailbox and the message's history untouched.              *)
DryRunLeavesNoTrace ==
    [][ (pc # "idle" /\ mode # "live") => UNCHANGED <<disk, archived, fate, calls>> ]_vars

(* quarantinedIds (poll.js 480-483): a dropped message that the ring on disk *)
(* retires is named in the state file, so the drop can be audited, as long   *)
(* as the list has not been filled by others.                                *)
Named(record, m) ==
    m \in Range(record.dropped) \/ Len(record.dropped) = QuarantineMax
DropsAreAuditable ==
    \A a \in Accounts : \A m \in Range(disk[a].ring) :
        fate[m] = "quarantined" => Named(disk[a], m)

(* noteRun (poll.js 176-208): a turn is only counted as stalled when mail    *)
(* beyond the cursor is still waiting: a quiet or draining account is never  *)
(* reported as stuck.                                                        *)
StallMeansBacklog ==
    [][ \A a \in Accounts :
          mem'[a].stalled > mem[a].stalled /\ pc # "idle" /\ pc' # "idle"
          => \E m \in Messages : /\ Owner[m] = a /\ hist[m] > mem'[a].cursor
                                 /\ m \notin Range(mem'[a].ring) ]_vars

(* Again and again every delivered message of an account whose token works   *)
(* is behind the cursor: no message, bad or good, holds the queue for ever,  *)
(* and no other account whose every call throws (poll.js 214-235, 538-546).  *)
HealthyAccountsDrain ==
    []<>(\A m \in Messages : hist[m] # 0 /\ Owner[m] \notin Broken => Passed(m))

(* cursor.stalled (poll.js 176-208, producer-health.js 266-273): a message   *)
(* passes the cursor, or the account's stall count reaches the threshold at  *)
(* which the health check fails. "Every wedge this module can suffer takes   *)
(* this shape."                                                              *)
WedgesAreReported ==
    \A m \in Messages :
        (hist[m] # 0) ~> (Passed(m) \/ disk[Owner[m]].stalled >= StallCap)
=============================================================================
