---------------------------- MODULE HistoryListing ----------------------------
(***************************************************************************)
(* What poll() takes getHistory to be: one step in which the mailbox is    *)
(* looked at, as PollCycle has it.  Mail may arrive and the history may    *)
(* expire while the call is under way, but the answer describes the        *)
(* mailbox of one moment.                                                  *)
(***************************************************************************)
EXTENDS HistoryWindow

CONSTANTS
    Messages,        \* what the mailbox may ever receive
    Unattributed,    \* messages whose record comes without an id
    IdCap,           \* MAX_HISTORY_IDS_PER_CALL
    MaxRecord        \* messages of one record, a bound of the model

VARIABLES
    hist,      \* the record a message was added in; 0: not delivered
    top,       \* the mailbox's current history id
    retained,  \* Gmail answers 404 to a cursor below this record
    start,     \* startHistoryId of the last call
    busy,      \* is a call under way?
    answer     \* what the last call returned or threw

lvars == <<hist, top, retained, start, busy, answer>>

Window == {m \in Messages : hist[m] > start}
None == [outcome |-> "none"]
Expired == [outcome |-> "expired"]
Failed == [outcome |-> "failed"]
Enumerated(S, again, cut) ==
    [outcome |-> "listed", listed |-> S, again |-> again, truncated |-> cut]

LInit ==
    /\ hist = [m \in Messages |-> 0] /\ top = 1 /\ retained = 0
    /\ start = 1 /\ busy = FALSE /\ answer = None

Ask ==
    /\ ~busy /\ busy' = TRUE
    /\ start' \in 1..top
    /\ answer' = None
    /\ UNCHANGED <<hist, top, retained>>

Answer ==
    /\ busy /\ busy' = FALSE
    /\ \/ start < retained /\ answer' = Expired
       \/ answer' = Failed
       \/ /\ start >= retained
          /\ \E again \in 0..top : \E S \in Listings(Window, hist, Unattributed, IdCap, again) :
                answer' = Enumerated(S, again, S # Window)
    /\ UNCHANGED <<hist, top, retained, start>>

Deliver ==
    /\ \E last \in {m \in Messages : hist[m] = 0} :
          LET block == {m \in Messages : hist[m] = 0 /\ m <= last}
          IN  /\ Cardinality(block) <= MaxRecord
              /\ top' = top + 1
              /\ hist' = [m \in Messages |-> IF m \in block THEN top + 1 ELSE hist[m]]
    /\ UNCHANGED <<retained, start, busy, answer>>

Expire ==
    /\ retained < top /\ retained' = top
    /\ UNCHANGED <<hist, top, start, busy, answer>>

LNext == Ask \/ Answer \/ Deliver \/ Expire
LSpec == LInit /\ [][LNext]_lvars
=============================================================================
