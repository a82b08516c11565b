------------------------------- MODULE SentMail -------------------------------
(***************************************************************************)
(* The mail an account itself sends, as poll() of src/poll.js sees it: the *)
(* copies that checkAndForward (src/forward.js) makes of received mail by  *)
(* forwardEmail (src/gmail.js), which come back in the next listings, and  *)
(* the 30-day silence check on an account whose sent mail is ingested.     *)
(*                                                                         *)
(* One account, past its first turns.  A message is its position in the    *)
(* mailbox, which lists them in that order; windows are never truncated    *)
(* (PollCycle has those, the seeding and the dedupe), so the cursor parks  *)
(* only when the batch is capped.                                          *)
(***************************************************************************)
EXTENDS Integers, Sequences, FiniteSets, FiniteSetsExt

CONSTANTS
    Received,     \* mail that may arrive
    Written,      \* mail the owner may write
    Ruled,        \* the messages a forward rule matches
    Modes,        \* how poll() is called: "live", "dry", "invoke"
    SilentDays,   \* SENT_SILENT_MS
    MaxPerRun,    \* config.maxPerRun
    MaxAttempts,  \* MAX_MESSAGE_ATTEMPTS
    LastDay, MaxBox, MaxFaults   \* bounds of the model

ASSUME SentAssumption ==
    /\ Received \cap Written = {} /\ Ruled \subseteq Received \cup Written
    /\ Modes \subseteq {"live", "dry", "invoke"}
    /\ SilentDays \in Nat /\ MaxPerRun \in Nat /\ MaxAttempts \in Nat \ {0}
    /\ LastDay \in Nat \ {0} /\ MaxBox \in Nat /\ MaxFaults \in Nat

VARIABLES
    day,       \* the date, from 1
    readOnly,  \* is the account's client read-only?
    box,       \* the mailbox: [of: the message, gen: how often it was forwarded]
    disk,      \* the account in the state file
    mem,       \* the account in the state object of the run
    pc,        \* where the run stands ("idle": no run)
    run,       \* mode, ingestSent and the local variables of the run
    verdict,   \* of the last run: what sentSilentAccounts returned, or "none"
    budget,    \* failures the instance may still inject
    least,     \* history: see SilenceIsEarned
    most       \* history: see SilenceIsReported

world == <<day, readOnly, box>>
vars == <<world, disk, mem, pc, run, verdict, budget, least, most>>

Never == 0
Positions == 1..MaxBox
NoRun == [mode |-> "live", on |-> FALSE, todo |-> {}, capped |-> FALSE, heard |-> Never]
Live == run.mode = "live"
Fault == budget > 0 /\ budget' = budget - 1
NoFault == budget' = budget

(* Labelled SENT; forwardEmail puts the marker on what it sends. *)
IsSent(p) == box[p].gen > 0 \/ box[p].of \in Written
(* Mutated: the marker is not among the headers looked at. *)
isAutomatedUnmarked(p) == FALSE
isAutomatedMessage(p) == box[p].gen > 0
Screened(p) == IsSent(p) /\ (~run.on \/ isAutomatedMessage(p))

-----------------------------------------------------------------------------
(* The baseline of the silence check, as a live run sets or forgets it. *)
(* Mutated: every run sets it anew. *)
BaselineMoved(a) ==
    IF run'.on THEN [a EXCEPT !.enabledAt = day]
    ELSE [a EXCEPT !.enabledAt = Never, !.lastSent = Never]
(* Mutated: switched off, only half of it is forgotten. *)
BaselineHalf(a) ==
    IF run'.on THEN [a EXCEPT !.enabledAt = IF @ = Never THEN day ELSE @]
    ELSE [a EXCEPT !.enabledAt = Never]
Baseline(a) ==
    IF run'.on THEN [a EXCEPT !.enabledAt = IF @ = Never THEN day ELSE @]
    ELSE [a EXCEPT !.enabledAt = Never, !.lastSent = Never]

Start ==
    /\ pc = "idle"
    /\ pc' = "list"
    /\ \E mode \in Modes, on \in BOOLEAN : run' = [NoRun EXCEPT !.mode = mode, !.on = on]
    /\ mem' = IF run'.mode = "live" THEN Baseline(disk) ELSE disk
    /\ verdict' = "none"
    /\ least' = IF run'.mode = "live" /\ run'.on /\ least = Never THEN day ELSE least
    /\ most' = IF run'.mode = "live" /\ ~run'.on THEN Never ELSE most
    /\ UNCHANGED <<world, disk, budget>>

(* The turn ends in the catch of the account: mem keeps what it aliases. *)
GiveUp == pc' = "finish" /\ Fault

List ==
    /\ pc = "list"
    /\ LET new == {p \in DOMAIN box : p > mem.cursor /\ p \notin mem.ring}
           first == {p \in new : Cardinality({q \in new : q < p}) < MaxPerRun}
       IN  run' = [run EXCEPT !.todo = first, !.capped = first # new]
    /\ pc' = "message" /\ NoFault
    /\ UNCHANGED <<world, disk, mem, verdict, least, most>>
ListFails ==
    /\ pc = "list" /\ GiveUp
    /\ UNCHANGED <<world, disk, mem, run, verdict, least, most>>

-----------------------------------------------------------------------------
id == Min(run.todo)
InTurn == pc = "message" /\ run.todo # {}
Next1 == run' = [run EXCEPT !.todo = @ \ {id}]
RingAdd(a) == [a EXCEPT !.ring = @ \cup {id}, !.strikes[id] = 0]

Screen ==
    /\ InTurn /\ Screened(id)
    /\ Next1 /\ mem' = IF Live THEN RingAdd(mem) ELSE mem
    /\ NoFault
    /\ UNCHANGED <<world, disk, pc, verdict, least, most>>

(* The handler returned, or was not called in a dry run. *)
Processed ==
    LET heard == Live /\ IsSent(id)
    IN  /\ run' = [run EXCEPT !.todo = @ \ {id}, !.heard = IF heard THEN day ELSE @]
        /\ mem' = IF ~Live THEN mem
                  ELSE RingAdd(IF heard THEN [mem EXCEPT !.lastSent = day] ELSE mem)
        /\ most' = IF heard /\ most # Never THEN day ELSE most
(* The handler threw: one more strike, and the last one retires the message. *)
Struck ==
    /\ Next1
    /\ mem' = IF ~Live THEN mem
              ELSE IF mem.strikes[id] + 1 >= MaxAttempts THEN RingAdd(mem)
              ELSE [mem EXCEPT !.strikes[id] = @ + 1]
    /\ UNCHANGED most

(* checkAndForward sends: a rule matches, and neither the run nor the client forbids it. *)
Forwards == Live /\ box[id].of \in Ruled /\ ~readOnly
Handle ==
    /\ InTurn /\ ~Screened(id) /\ ~Forwards
    /\ Processed /\ NoFault
    /\ UNCHANGED <<world, disk, pc, verdict, least>>
(* The handler throws before it sends anything: a read of forwardEmail failed. *)
HandlerThrows ==
    /\ InTurn /\ ~Screened(id) /\ run.mode # "dry"
    /\ Struck /\ Fault
    /\ UNCHANGED <<world, disk, pc, verdict, least>>
(* forwardEmail: Gmail takes the copy, and its answer may be lost. *)
Forward ==
    /\ InTurn /\ ~Screened(id) /\ Forwards
    /\ Len(box) < MaxBox
    /\ box' = Append(box, [box[id] EXCEPT !.gen = @ + 1])
    /\ \/ Processed /\ NoFault
       \/ Struck /\ Fault
    /\ UNCHANGED <<day, readOnly, disk, pc, verdict, least>>

-----------------------------------------------------------------------------
(* The cursor moves to now unless the batch was capped; then the turn's write. *)
EndTurn ==
    /\ pc = "message" /\ run.todo = {}
    /\ LET a == [mem EXCEPT !.cursor = IF run.capped THEN @ ELSE Len(box)]
       IN  \/ /\ mem' = IF Live THEN a ELSE mem
              /\ disk' = IF Live THEN a ELSE disk
              /\ pc' = "finish" /\ NoFault
           \/ Live /\ mem' = a /\ UNCHANGED disk /\ GiveUp              \* writeState throws
           \/ ~run.capped /\ UNCHANGED <<mem, disk>> /\ GiveUp          \* getProfile throws
    /\ UNCHANGED <<world, run, verdict, least, most>>

(* sentSilentAccounts, and the write of the whole file; if it throws, poll() rejects. *)
Silent == LET since == IF mem.lastSent # Never THEN mem.lastSent ELSE mem.enabledAt
          IN  run.on /\ since # Never /\ day - since > SilentDays
Finish ==
    /\ pc = "finish"
    /\ pc' = "idle"
    /\ verdict' = IF Silent THEN "silent" ELSE "fine"
    /\ disk' = IF Live THEN mem ELSE disk
    /\ least' = IF ~Live THEN least
                ELSE IF ~run.on THEN Never ELSE IF run.heard # Never THEN run.heard ELSE least
    /\ most' = IF Live /\ run.on /\ most = Never THEN day ELSE most
    /\ run' = NoRun /\ NoFault
    /\ UNCHANGED <<world, mem>>
FinishThrows ==
    /\ pc = "finish" /\ Live
    /\ pc' = "idle" /\ run' = NoRun /\ Fault
    /\ UNCHANGED <<world, disk, mem, verdict, least, most>>
Crash ==
    /\ pc # "idle"
    /\ pc' = "idle" /\ run' = NoRun /\ mem' = disk /\ Fault
    /\ UNCHANGED <<world, disk, verdict, least, most>>

NextDay == /\ day < LastDay /\ day' = day + 1
           /\ UNCHANGED <<readOnly, box, disk, mem, pc, run, verdict, budget, least, most>>
Deliver == /\ Len(box) < MaxBox
           /\ \E m \in Received \cup Written :
                 /\ \A p \in DOMAIN box : box[p].of # m
                 /\ box' = Append(box, [of |-> m, gen |-> 0])
           /\ UNCHANGED <<day, readOnly, disk, mem, pc, run, verdict, budget, least, most>>

Init ==
    /\ day = 1 /\ readOnly \in BOOLEAN /\ box = <<>>
    /\ disk = [cursor |-> 0, ring |-> {}, strikes |-> [p \in Positions |-> 0],
               enabledAt |-> Never, lastSent |-> Never]
    /\ mem = disk /\ pc = "idle" /\ run = NoRun /\ verdict = "none" /\ budget = MaxFaults
    /\ least = Never /\ most = Never
Next == \/ Start \/ List \/ ListFails \/ Screen \/ Handle \/ HandlerThrows \/ Forward
        \/ EndTurn \/ Finish \/ FinishThrows \/ Crash \/ NextDay \/ Deliver
Spec == Init /\ [][Next]_vars

-----------------------------------------------------------------------------
Days == Never..LastDay
Records == [cursor : 0..MaxBox, ring : SUBSET Positions,
            strikes : [Positions -> 0..MaxAttempts], enabledAt : Days, lastSent : Days]
TypeOK ==
    /\ day \in 1..LastDay /\ readOnly \in BOOLEAN
    /\ box \in Seq([of : Received \cup Written, gen : Nat]) /\ Len(box) <= MaxBox
    /\ disk \in Records /\ mem \in Records
    /\ pc \in {"idle", "list", "message", "finish"}
    /\ run \in [mode : {"live", "dry", "invoke"}, on : BOOLEAN, todo : SUBSET Positions,
                capped : BOOLEAN, heard : Days]
    /\ verdict \in {"none", "silent", "fine"}
    /\ budget \in 0..MaxFaults /\ least \in Days /\ most \in Days

(* poll.js 28-37 and gmail.js 33-44, "forward loops": a copy is never forwarded *)
(* again although it matches the rule of its original and is listed like any    *)
(* mail; a message is forwarded once, and once more only for a call, a write or *)
(* a process that failed; and a read-only account forwards nothing.             *)
Copies(m) == {p \in DOMAIN box : box[p].of = m /\ box[p].gen > 0}
ForwardsAreAccounted ==
    /\ \A p \in DOMAIN box : box[p].gen <= 1
    /\ \A m \in Ruled : Cardinality(Copies(m)) <= 1 + (MaxFaults - budget)
    /\ readOnly => \A p \in DOMAIN box : box[p].gen = 0

(* poll.js 565-568, 108-109, "no sent mail ingested for 30 days": an account is *)
(* only called silent when a live run saw the option on longer ago than that,   *)
(* no run that returned saw it off since, and none ingested sent mail since.    *)
SilenceIsEarned ==
    [][pc = "finish" /\ verdict' = "silent" => least' # Never /\ day - least' > SilentDays]_vars

(* poll.js 565-568: and then it is called so, by the first run with the option  *)
(* on that returns, whatever runs failed or died in the meantime.               *)
SilenceIsReported ==
    [][pc = "finish" /\ verdict' = "fine" /\ run.on
         => most' = Never \/ day - most' <= SilentDays]_vars
=============================================================================
