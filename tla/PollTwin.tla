------------------------------- MODULE PollTwin -------------------------------
(***************************************************************************)
(* Two runs of one producer that overlap (a cron that starts the next run  *)
(* before the last one ended): nothing in src/poll.js keeps them apart.    *)
(* Each reads the state file once, when it starts, and rewrites the whole  *)
(* of it after every account, so the later write wins with whatever that   *)
(* run knows.                                                              *)
(*                                                                         *)
(* Both runs are PollCycle's, step by step: they share the mailbox, the    *)
(* state file and the history variables, and each has a state object,      *)
(* locals and counters of its own.                                         *)
(***************************************************************************)
EXTENDS PollCycle

CONSTANT MaxTwins   \* how often a run is started beside another, a bound of the model

ASSUME TwinAssumption == MaxTwins \in Nat

VARIABLES
    twinMem, twinPc, twinAt, twinMode, twinWork, twinSeen, twinStats,
    twins,       \* overlapping starts the instance may still make
    behind,      \* history: runs since whose last read or write the other wrote
    overwrites,  \* history: writes of a run that was behind
    contested    \* history: messages handled while two runs overlapped

Twin == INSTANCE PollCycle
        WITH mem <- twinMem, pc <- twinPc, at <- twinAt, mode <- twinMode,
             work <- twinWork, seen <- twinSeen, stats <- twinStats

overlap == <<twins, behind, overwrites, contested>>
twinVars ==
    <<vars, twinMem, twinPc, twinAt, twinMode, twinWork, twinSeen, twinStats, overlap>>

TwinInit ==
    /\ Init /\ Twin!Init
    /\ twins = MaxTwins /\ behind = {} /\ overwrites = 0 /\ contested = {}

-----------------------------------------------------------------------------
(* What a run does not take part in leaves it alone.  A run that has not      *)
(* started will read the file as it is by then.                               *)
TwinRests ==
    /\ UNCHANGED <<twinPc, twinAt, twinMode, twinWork, twinSeen, twinStats>>
    /\ twinMem' = IF twinPc = "idle" THEN disk' ELSE twinMem
(* Mutated: the state object is kept from one run to the next. *)
FirstRestsCached == UNCHANGED <<pc, at, mode, work, seen, stats, mem>>
FirstRests ==
    /\ UNCHANGED <<pc, at, mode, work, seen, stats>>
    /\ mem' = IF pc = "idle" THEN disk' ELSE mem

(* The history of a step of `run` beside `other`. *)
UnderWay == {r \in {"first", "twin"} : IF r = "first" THEN pc # "idle" ELSE twinPc # "idle"}
Recorded(run, other) ==
    /\ overwrites' = IF disk' # disk /\ run \in behind THEN overwrites + 1 ELSE overwrites
    /\ behind' = UnderWay' \cap IF disk' # disk THEN (behind \ {run}) \cup {other} ELSE behind
    /\ contested' = contested \cup
           {m \in Messages : calls'[m] > calls[m] /\ (other \in UnderWay \/ run \in behind)}

FirstStep ==
    RunStep /\ TwinRests /\ UNCHANGED twins /\ Recorded("first", "twin")
World ==
    (Deliver \/ Expire \/ Crash) /\ TwinRests /\ UNCHANGED twins /\ Recorded("first", "twin")

(* The scheduler starts the next run while the last one is still under way. *)
TwinStarts ==
    /\ twins > 0 /\ twins' = twins - 1
    /\ pc # "idle"
    /\ Twin!StartRun /\ FirstRests /\ Recorded("twin", "first")
TwinStep ==
    /\ Twin!TurnStep \/ Twin!Return \/ Twin!Reject \/ Twin!Crash
    /\ FirstRests /\ UNCHANGED twins /\ Recorded("twin", "first")

TwinNext == FirstStep \/ World \/ TwinStarts \/ TwinStep

TwinSpec == TwinInit /\ [][TwinNext]_twinVars

(* cron keeps the first run going; the other may dawdle or die anywhere. *)
FairTwinSpec == TwinSpec /\ WF_twinVars(FirstStep)

-----------------------------------------------------------------------------
(* poll.js 210-213, 594-600: the ring is what keeps a message from being      *)
(* handled again, and each run writes a ring of its own over the other's.     *)
(* Even so every repeat has its cause: the two runs overlapped when they      *)
(* handled it, a run wrote over what the other had written since, or a call,  *)
(* a write or a process failed; and no cause makes for more than one.         *)
RepeatsAreAccounted ==
    \A m \in Messages :
        calls[m] <= 1 + (IF m \in contested THEN MaxTwins - twins ELSE 0)
                      + overwrites + (MaxFaults - budget)
=============================================================================
