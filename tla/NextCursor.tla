------------------------------ MODULE NextCursor ------------------------------
(***************************************************************************)
(* nextCursor() of src/poll.js on a truncated history window, loop by      *)
(* loop: where the cursor may safely move to, given the ids enumerated     *)
(* (in the order Gmail listed them, perhaps one of them twice), the        *)
(* history record of each, and the ring of messages already dealt with.    *)
(*                                                                         *)
(* A record is a number, or Garbled (a historyId BigInt cannot parse), or  *)
(* NoRecord (an id getHistory attributed to no record).  `unlisted` is the *)
(* rest of the window, the records past the cap that the code never sees.  *)
(***************************************************************************)
EXTENDS Integers, Sequences, FiniteSets, FiniteSetsExt

CONSTANTS
    Ids,             \* message ids
    Listings,        \* the sequences of ids getHistory may return
    Numbers,         \* numeric history ids
    Garbled, NoRecord, Null

ASSUME IdsAssumption == Listings \subseteq Seq(Ids)
ASSUME NumbersAssumption == Numbers \subseteq Nat
ASSUME TokensAssumption ==
    /\ Garbled \notin Nat /\ NoRecord \notin Nat /\ Null \notin Nat
    /\ Garbled # NoRecord /\ Garbled # Null /\ NoRecord # Null

VARIABLES
    enumerated, historyIdById, ring, historyId,  \* what the closure reads
    unlisted,                                    \* what it cannot read
    order,                                       \* records, in first-seen order
    i,                                           \* position in the loop
    watermark, lowestUnhandled,
    pc, result

inputs == <<enumerated, historyIdById, ring, historyId, unlisted>>
vars == <<inputs, order, i, watermark, lowestUnhandled, pc, result>>

Listed == Range(enumerated)
RecordsOf(S) == {historyIdById[m] : m \in S}
(* byRecord.get(rec).every((id) => ring.has(id)), once every id is grouped. *)
FullyHandled(rec) == \A m \in Listed : historyIdById[m] = rec => m \in ring
Numeric(rec) == rec \in Nat

Init ==
    /\ enumerated \in Listings
    /\ historyIdById \in [Ids -> Numbers \cup {Garbled, NoRecord}]
    /\ ring \in SUBSET Ids
    /\ historyId \in Numbers
    /\ unlisted \in SUBSET Numbers
    /\ order = <<>> /\ i = 1
    /\ watermark = Null /\ lowestUnhandled = Null
    /\ pc = "group" /\ result = Null

Finish(r) == pc' = "done" /\ result' = r

(* An id without a record: refuse to advance. *)
Unattributable ==
    /\ pc = "group" /\ i <= Len(enumerated)
    /\ historyIdById[enumerated[i]] = NoRecord
    /\ Finish(Null)
    /\ UNCHANGED <<inputs, order, i, watermark, lowestUnhandled>>

Group ==
    /\ pc = "group" /\ i <= Len(enumerated)
    /\ historyIdById[enumerated[i]] # NoRecord
    /\ LET rec == historyIdById[enumerated[i]]
       IN  order' = IF rec \in Range(order) THEN order ELSE Append(order, rec)
    /\ i' = i + 1
    /\ UNCHANGED <<inputs, watermark, lowestUnhandled, pc, result>>

EndGroup ==
    /\ pc = "group" /\ i > Len(enumerated)
    /\ pc' = "walk" /\ i' = 1
    /\ UNCHANGED <<inputs, order, watermark, lowestUnhandled, result>>

Walking == pc = "walk" /\ i <= Len(order) /\ UNCHANGED <<inputs, order>>

(* Mutated: the first handled record stays the watermark. *)
PassHandledOnce ==
    /\ Walking
    /\ FullyHandled(order[i])
    /\ watermark' = IF lowestUnhandled = Null /\ watermark = Null THEN order[i] ELSE watermark
    /\ i' = i + 1
    /\ UNCHANGED <<lowestUnhandled, pc, result>>
PassHandled ==
    /\ Walking
    /\ FullyHandled(order[i])
    /\ watermark' = IF lowestUnhandled = Null THEN order[i] ELSE watermark
    /\ i' = i + 1
    /\ UNCHANGED <<lowestUnhandled, pc, result>>

NoteFirstUnhandled ==
    /\ Walking
    /\ ~FullyHandled(order[i])
    /\ lowestUnhandled = Null
    /\ lowestUnhandled' = order[i]
    /\ i' = i + 1
    /\ UNCHANGED <<watermark, pc, result>>

NoteLowerUnhandled ==
    /\ Walking
    /\ ~FullyHandled(order[i])
    /\ Numeric(order[i]) /\ Numeric(lowestUnhandled)
    /\ lowestUnhandled' = IF order[i] < lowestUnhandled THEN order[i] ELSE lowestUnhandled
    /\ i' = i + 1
    /\ UNCHANGED <<watermark, pc, result>>

(* BigInt throws: the whole computation parks. *)
CannotCompare ==
    /\ Walking
    /\ ~FullyHandled(order[i])
    /\ lowestUnhandled # Null
    /\ ~(Numeric(order[i]) /\ Numeric(lowestUnhandled))
    /\ Finish(Null)
    /\ UNCHANGED <<i, watermark, lowestUnhandled>>

(* Mutated: no clamp below the lowest unhandled record. *)
SafeUnclamped(w) == Numeric(w) /\ w > historyId
(* The clamps after the loop; a BigInt that throws returns null as well. *)
Safe(w) ==
    /\ Numeric(w)
    /\ lowestUnhandled # Null => Numeric(lowestUnhandled) /\ w < lowestUnhandled
    /\ w > historyId
(* Mutated: a window that is handled throughout moves the cursor to now. *)
DecideNow ==
    /\ pc = "walk" /\ i > Len(order)
    /\ Finish(IF lowestUnhandled = Null THEN Max(Numbers)
              ELSE IF Safe(watermark) THEN watermark ELSE Null)
    /\ UNCHANGED <<inputs, order, i, watermark, lowestUnhandled>>
Decide ==
    /\ pc = "walk" /\ i > Len(order)
    /\ Finish(IF Safe(watermark) THEN watermark ELSE Null)
    /\ UNCHANGED <<inputs, order, i, watermark, lowestUnhandled>>

Next ==
    \/ Unattributable \/ Group \/ EndGroup
    \/ PassHandled \/ NoteFirstUnhandled \/ NoteLowerUnhandled \/ CannotCompare
    \/ Decide

Spec == Init /\ [][Next]_vars

-----------------------------------------------------------------------------
(* The cursor never steps over an enumerated message that is not in the ring, *)
(* at RECORD granularity and in whatever order the records arrived (poll.js   *)
(* 293-305, 341-346), and it only moves forward (poll.js 307-310).            *)
NeverPassesUnhandled ==
    result # Null =>
        /\ result > historyId
        /\ \A m \in Listed : /\ Numeric(historyIdById[m])
                             /\ historyIdById[m] <= result
                             => m \in ring

(* The history records as Gmail lists them: ascending, the unlisted ones last. *)
InAscendingOrder ==
    /\ \A j, k \in DOMAIN enumerated :
          j < k => LET q == historyIdById[enumerated[j]]
                       r == historyIdById[enumerated[k]]
                   IN  Numeric(q) /\ Numeric(r) => q <= r
    /\ \A q \in RecordsOf(Listed), r \in unlisted : Numeric(q) => q < r

(* Nor over a record past the cap, which was never listed (poll.js 282-285):  *)
(* this rests on Gmail listing records in ascending order, because the clamp  *)
(* of poll.js 341-345 only knows the listed ones.                             *)
NeverPassesUnlisted ==
    InAscendingOrder /\ result # Null => \A r \in unlisted : r > result

(* It parks no more than it must: of a window in ascending order and without  *)
(* garbled or unattributable ids it takes the last record up to which all     *)
(* records are fully handled; this is what PollCycle's Watermark assumes.     *)
Contiguous ==
    {r \in RecordsOf(Listed) : \A m \in Listed : historyIdById[m] <= r => m \in ring}
TakesAllItMay ==
    pc = "done" /\ InAscendingOrder /\ (\A r \in RecordsOf(Listed) : r \in Nat /\ r > historyId)
    => result = IF Contiguous = {} THEN Null ELSE Max(Contiguous)
=============================================================================
