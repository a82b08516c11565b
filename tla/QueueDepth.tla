------------------------------ MODULE QueueDepth ------------------------------
(***************************************************************************)
(* computeQueueDepthCheck of src/queue-depth.js: one look through the      *)
(* inbox of envelopes, file by file, while another process consumes them   *)
(* and producers drop new ones.                                            *)
(***************************************************************************)
EXTENDS Integers, FiniteSets

CONSTANTS
    Envelopes,
    DepthWarn,      \* DEPTH_WARN_THRESHOLD
    AgeWarn,        \* AGE_WARN_MS, in hours
    AgeFail,        \* AGE_FAIL_MS, in hours
    NoAge           \* oldestAgeMs = null

ASSUME QueueAssumption ==
    /\ DepthWarn \in Nat /\ AgeWarn \in Nat /\ AgeFail \in Nat /\ AgeWarn <= AgeFail
    /\ NoAge \notin Int

VARIABLES
    reachable,   \* is there an inbox, configured and readable?
    inbox,       \* the envelopes in it
    age,         \* of every envelope when the check began; below 0: written later
    scan,        \* "start", "stat" while the entries are looked at, "done"
    entries,     \* what readdir listed
    unread,      \* entries whose mtime is still to be read
    oldest,      \* oldestAgeMs
    queue        \* the status of the check, "none" before

directory == <<reachable, age>>
scanVars == <<scan, entries, unread, oldest, queue>>
queueVars == <<directory, inbox, scanVars>>

QInit(open, files, ages) ==
    /\ reachable = open /\ inbox = files /\ age = ages
    /\ scan = "start" /\ entries = {} /\ unread = {} /\ oldest = NoAge /\ queue = "none"

NoInbox ==
    /\ scan = "start" /\ ~reachable
    /\ scan' = "done" /\ queue' = "fail"
    /\ UNCHANGED <<directory, inbox, entries, unread, oldest>>

ReadDir ==
    /\ scan = "start" /\ reachable
    /\ scan' = "stat"
    /\ entries' = inbox /\ unread' = inbox
    /\ UNCHANGED <<directory, inbox, oldest, queue>>

Older(e) == IF oldest = NoAge \/ age[e] > oldest THEN age[e] ELSE oldest
(* Mutated: an entry that is gone ends the scan. *)
StatGivesUp(e) ==
    /\ unread' = IF e \in inbox THEN unread \ {e} ELSE {}
    /\ oldest' = IF e \in inbox THEN Older(e) ELSE oldest
(* Mutated: a file that is gone has the mtime 0, and is older than any other. *)
StatEpoch(e) ==
    /\ unread' = unread \ {e}
    /\ oldest' = IF e \in inbox THEN Older(e) ELSE AgeFail + 1
(* An entry consumed since readdir is passed over. *)
StatOf(e) ==
    /\ unread' = unread \ {e}
    /\ oldest' = IF e \in inbox THEN Older(e) ELSE oldest

Stat ==
    /\ scan = "stat"
    /\ \E e \in unread : StatOf(e)
    /\ UNCHANGED <<directory, inbox, scan, entries, queue>>

OldestAbove(limit) == oldest # NoAge /\ oldest > limit

Judge ==
    /\ scan = "stat" /\ unread = {}
    /\ scan' = "done"
    /\ queue' = IF OldestAbove(AgeFail) THEN "fail"
                ELSE IF Cardinality(entries) > DepthWarn \/ OldestAbove(AgeWarn) THEN "warn"
                ELSE "pass"
    /\ UNCHANGED <<directory, inbox, entries, unread, oldest>>

(* The consumer takes an envelope; a producer drops a new one. *)
Consumed ==
    /\ \E e \in inbox : inbox' = inbox \ {e}
    /\ UNCHANGED <<directory, scanVars>>
Dropped ==
    /\ \E e \in {f \in Envelopes \ (inbox \cup entries) : age[f] < 0} : inbox' = inbox \cup {e}
    /\ UNCHANGED <<directory, scanVars>>

Scan == NoInbox \/ ReadDir \/ Stat \/ Judge
World == Consumed \/ Dropped
=============================================================================
