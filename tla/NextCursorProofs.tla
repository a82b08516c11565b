--------------------------- MODULE NextCursorProofs ---------------------------
(***************************************************************************)
(* For every listing, every attribution of records, every ring and every   *)
(* cursor: nextCursor never answers with a cursor that steps over an       *)
(* enumerated message outside the ring, in any order of the records; and   *)
(* in the order Gmail lists them, nor over a record past the cap, and it   *)
(* answers with the last record it may.                                    *)
(***************************************************************************)
EXTENDS NextCursor, TLAPS, SequenceTheorems

Records == Numbers \cup {Garbled}

(* What the two loops have established by position i. *)
TypeInv ==
    /\ enumerated \in Seq(Ids)
    /\ historyIdById \in [Ids -> Numbers \cup {Garbled, NoRecord}]
    /\ historyId \in Nat
    /\ order \in Seq(Records)
    /\ i \in Nat \ {0}
    /\ pc \in {"group", "walk", "done"}
    /\ watermark \in Records \cup {Null}
    /\ lowestUnhandled \in Records \cup {Null}

(* Grouping loses no record of the ids it has passed. *)
Grouped ==
    /\ pc = "group" =>
         \A j \in 1..Len(enumerated) :
            j < i => historyIdById[enumerated[j]] \in Range(order)
    /\ pc = "walk" =>
         \A j \in 1..Len(enumerated) : historyIdById[enumerated[j]] \in Range(order)

(* lowestUnhandled bounds every unhandled record the walk has met. *)
Bounded ==
    pc = "walk" =>
        \A j \in 1..Len(order) :
            j < i /\ ~FullyHandled(order[j]) =>
                /\ lowestUnhandled # Null
                /\ Numeric(lowestUnhandled) =>
                      Numeric(order[j]) /\ lowestUnhandled <= order[j]

IInv == TypeInv /\ Grouped /\ Bounded /\ (pc # "done" => result = Null) /\ NeverPassesUnhandled

LEMMA InitIInv == Init => IInv
<1> SUFFICES ASSUME Init PROVE IInv
  OBVIOUS
<1>1. TypeInv
  BY IdsAssumption, NumbersAssumption DEF Init, TypeInv, Records
<1>2. Grouped /\ Bounded
  BY DEF Init, Grouped, Bounded
<1>3. (pc # "done" => result = Null) /\ NeverPassesUnhandled
  BY DEF Init, NeverPassesUnhandled
<1> QED
  BY <1>1, <1>2, <1>3 DEF IInv

LEMMA NextIInv == IInv /\ [Next]_vars => IInv'
<1> SUFFICES ASSUME IInv, [Next]_vars PROVE IInv'
  OBVIOUS
<1> USE DEF IInv
<1>1. CASE Unattributable
  <2>1. TypeInv' /\ Grouped' /\ Bounded'
    BY <1>1 DEF Unattributable, Finish, inputs, TypeInv, Grouped, Bounded
  <2>2. pc' = "done" /\ result' = Null
    BY <1>1 DEF Unattributable, Finish
  <2> QED
    BY <2>1, <2>2 DEF NeverPassesUnhandled
<1>2. CASE Group
  <2> DEFINE rec == historyIdById[enumerated[i]]
  <2>1. i \in 1..Len(enumerated) /\ rec \in Records
    BY <1>2 DEF Group, TypeInv, Records
  <2>2. order' \in Seq(Records) /\ Range(order') = Range(order) \cup {rec}
    <3>1. CASE rec \in Range(order)
      BY <1>2, <3>1 DEF Group, TypeInv
    <3>2. CASE rec \notin Range(order)
      <4>1. order' = Append(order, rec)
        BY <1>2, <3>2 DEF Group
      <4> QED
        BY <2>1, <4>1, AppendProperties DEF TypeInv, Range
    <3> QED
      BY <3>1, <3>2
  <2>3. TypeInv'
    BY <1>2, <2>1, <2>2 DEF Group, TypeInv, inputs
  <2>4. Grouped'
    <3> SUFFICES ASSUME NEW j \in 1..Len(enumerated), j < i + 1
                 PROVE  historyIdById[enumerated[j]] \in Range(order')
      BY <1>2 DEF Group, Grouped, inputs
    <3> QED
      BY <1>2, <2>2 DEF Group, Grouped, TypeInv
  <2>5. Bounded' /\ NeverPassesUnhandled' /\ (pc' # "done" => result' = Null)
    BY <1>2 DEF Group, Bounded, NeverPassesUnhandled
  <2> QED
    BY <2>3, <2>4, <2>5
<1>3. CASE EndGroup
  <2>1. TypeInv'
    BY <1>3 DEF EndGroup, TypeInv, inputs
  <2>2. Grouped'
    BY <1>3 DEF EndGroup, TypeInv, Grouped, inputs
  <2>3. Bounded' /\ NeverPassesUnhandled' /\ (pc' # "done" => result' = Null)
    BY <1>3 DEF EndGroup, Bounded, NeverPassesUnhandled, TypeInv
  <2> QED
    BY <2>1, <2>2, <2>3
<1>4. CASE PassHandled
  <2>1. TypeInv' /\ i \in 1..Len(order)
    BY <1>4 DEF PassHandled, Walking, TypeInv, inputs
  <2>2. Grouped'
    BY <1>4 DEF PassHandled, Walking, Grouped, inputs
  <2>3. Bounded'
    BY <1>4, <2>1 DEF PassHandled, Walking, Bounded, FullyHandled, Listed, inputs, TypeInv, Numeric
  <2>4. NeverPassesUnhandled' /\ (pc' # "done" => result' = Null)
    BY <1>4 DEF PassHandled, Walking, NeverPassesUnhandled
  <2> QED
    BY <2>1, <2>2, <2>3, <2>4
<1>5. CASE NoteFirstUnhandled
  <2>1. TypeInv' /\ i \in 1..Len(order) /\ order[i] \in Records
    BY <1>5 DEF NoteFirstUnhandled, Walking, TypeInv, inputs
  <2>2. Grouped'
    BY <1>5 DEF NoteFirstUnhandled, Walking, Grouped, inputs
  <2>3. Bounded'
    BY <1>5, <2>1, NumbersAssumption, TokensAssumption
    DEF NoteFirstUnhandled, Walking, Bounded, FullyHandled, Listed, inputs, TypeInv, Numeric, Records
  <2>4. NeverPassesUnhandled' /\ (pc' # "done" => result' = Null)
    BY <1>5 DEF NoteFirstUnhandled, Walking, NeverPassesUnhandled
  <2> QED
    BY <2>1, <2>2, <2>3, <2>4
<1>6. CASE NoteLowerUnhandled
  <2>1. TypeInv' /\ i \in 1..Len(order) /\ order[i] \in Records
    BY <1>6 DEF NoteLowerUnhandled, Walking, TypeInv, inputs
  <2>2. Grouped'
    BY <1>6 DEF NoteLowerUnhandled, Walking, Grouped, inputs
  <2>3. Bounded'
    BY <1>6, <2>1, NumbersAssumption, TokensAssumption
    DEF NoteLowerUnhandled, Walking, Bounded, FullyHandled, Listed, inputs, TypeInv, Numeric, Records
  <2>4. NeverPassesUnhandled' /\ (pc' # "done" => result' = Null)
    BY <1>6 DEF NoteLowerUnhandled, Walking, NeverPassesUnhandled
  <2> QED
    BY <2>1, <2>2, <2>3, <2>4
<1>7. CASE CannotCompare
  <2>1. TypeInv' /\ Grouped' /\ Bounded'
    BY <1>7 DEF CannotCompare, Walking, Finish, inputs, TypeInv, Grouped, Bounded
  <2>2. pc' = "done" /\ result' = Null
    BY <1>7 DEF CannotCompare, Finish
  <2> QED
    BY <2>1, <2>2 DEF NeverPassesUnhandled
<1>8. CASE Decide
  <2>1. TypeInv' /\ Grouped' /\ Bounded' /\ pc' = "done"
    BY <1>8 DEF Decide, Finish, inputs, TypeInv, Grouped, Bounded
  <2>2. NeverPassesUnhandled'
    <3> SUFFICES ASSUME Safe(watermark)
                 PROVE  /\ watermark > historyId
                        /\ \A m \in Listed : /\ Numeric(historyIdById[m])
                                             /\ historyIdById[m] <= watermark
                                             => m \in ring
      BY <1>8 DEF Decide, Finish, inputs, NeverPassesUnhandled, Listed
    <3>1. watermark > historyId
      BY DEF Safe
    <3>2. ASSUME NEW m \in Listed, Numeric(historyIdById[m]), historyIdById[m] <= watermark
          PROVE  m \in ring
      <4>1. PICK k \in 1..Len(enumerated) : m = enumerated[k]
        BY <3>2 DEF Listed, Range, TypeInv
      <4>2. PICK j \in 1..Len(order) : order[j] = historyIdById[m]
        BY <1>8, <4>1 DEF Decide, Grouped, Range, TypeInv
      <4>3. FullyHandled(order[j])
        BY <1>8, <3>2, <4>2 DEF Decide, Bounded, Safe, Numeric, TypeInv
      <4> QED
        BY <3>2, <4>2, <4>3 DEF FullyHandled
    <3> QED
      BY <3>1, <3>2
  <2> QED
    BY <2>1, <2>2
<1>9. CASE UNCHANGED vars
  BY <1>9 DEF vars, inputs, TypeInv, Grouped, Bounded, NeverPassesUnhandled, FullyHandled, Listed
<1> QED
  BY <1>1, <1>2, <1>3, <1>4, <1>5, <1>6, <1>7, <1>8, <1>9 DEF Next

(* nextCursor's safety argument (poll.js 287-310, 341-346) for every input:   *)
(* the answer is beyond the old cursor and no enumerated message at or below  *)
(* it is outside the ring.                                                    *)
THEOREM CursorIsSafe == Spec => []NeverPassesUnhandled
<1>1. Init => IInv
  BY InitIInv
<1>2. IInv /\ [Next]_vars => IInv'
  BY NextIInv
<1>3. IInv => NeverPassesUnhandled
  BY DEF IInv
<1> QED
  BY <1>1, <1>2, <1>3, PTL DEF Spec

-----------------------------------------------------------------------------
(* What the loops know of the records: grouping names only records of listed   *)
(* ids, and the watermark is one of them.                                      *)
FromListing ==
    /\ \A j \in 1..Len(order) : order[j] \in RecordsOf(Listed)
    /\ watermark # Null => watermark \in RecordsOf(Listed)
    /\ result # Null => result \in RecordsOf(Listed) /\ Numeric(result)

LEMMA GroupShape ==
    ASSUME TypeInv, Group
    PROVE  /\ i \in 1..Len(enumerated) /\ historyIdById[enumerated[i]] \in Records
           /\ \/ /\ order' = order
                 /\ \E j \in 1..Len(order) : order[j] = historyIdById[enumerated[i]]
              \/ /\ Len(order') = Len(order) + 1
                 /\ order'[Len(order) + 1] = historyIdById[enumerated[i]]
                 /\ \A j \in 1..Len(order) :
                       order'[j] = order[j] /\ order[j] # historyIdById[enumerated[i]]
<1> DEFINE rec == historyIdById[enumerated[i]]
<1>1. i \in 1..Len(enumerated) /\ rec \in Records
  BY DEF Group, TypeInv, Records
<1>2. CASE rec \in Range(order)
  BY <1>1, <1>2 DEF Group, TypeInv, Range
<1>3. CASE rec \notin Range(order)
  <2>1. order' = Append(order, rec) /\ order \in Seq(Records)
    BY <1>3 DEF Group, TypeInv
  <2> QED
    BY <1>1, <1>3, <2>1, AppendProperties DEF Range
<1> QED
  BY <1>1, <1>2, <1>3

LEMMA NextFromListing == TypeInv /\ FromListing /\ [Next]_vars => FromListing'
<1> SUFFICES ASSUME TypeInv, FromListing, [Next]_vars PROVE FromListing'
  OBVIOUS
<1> USE DEF FromListing
<1>0. UNCHANGED inputs => RecordsOf(Listed)' = RecordsOf(Listed)
  BY DEF inputs, RecordsOf, Listed, Range
<1>1. CASE Group
  <2>1. historyIdById[enumerated[i]] \in RecordsOf(Listed)
    BY <1>1, GroupShape DEF RecordsOf, Listed, Range, TypeInv
  <2>2. \A j \in 1..Len(order') : order'[j] \in RecordsOf(Listed)
    BY <1>1, <2>1, GroupShape, LenProperties DEF TypeInv
  <2> QED
    BY <1>0, <1>1, <2>2 DEF Group
<1>2. CASE Unattributable \/ EndGroup
  BY <1>0, <1>2 DEF Unattributable, EndGroup, Finish
<1>3. CASE PassHandled
  BY <1>0, <1>3 DEF PassHandled, Walking, TypeInv
<1>4. CASE NoteFirstUnhandled \/ NoteLowerUnhandled \/ CannotCompare
  BY <1>0, <1>4 DEF NoteFirstUnhandled, NoteLowerUnhandled, CannotCompare, Walking, Finish
<1>5. CASE Decide
  <2>1. Safe(watermark) => watermark # Null /\ Numeric(watermark)
    BY TokensAssumption DEF Safe, Numeric
  <2> QED
    BY <1>0, <1>5, <2>1 DEF Decide, Finish
<1>6. CASE UNCHANGED vars
  BY <1>0, <1>6 DEF vars
<1> QED
  BY <1>1, <1>2, <1>3, <1>4, <1>5, <1>6 DEF Next

(* NeverPassesUnlisted for every listing and every rest of the window: the      *)
(* answer is a listed record, and what was not listed comes after those.        *)
THEOREM CursorStaysInListing == Spec => []NeverPassesUnlisted
<1>1. Init => FromListing
  BY DEF Init, FromListing
<1>2. FromListing => NeverPassesUnlisted
  <2> SUFFICES ASSUME FromListing, InAscendingOrder, result # Null, NEW r \in unlisted
               PROVE  r > result
    BY DEF NeverPassesUnlisted
  <2> QED
    BY DEF FromListing, InAscendingOrder
<1>3. IInv => TypeInv
  BY DEF IInv
<1> QED
  BY <1>1, <1>2, <1>3, InitIInv, NextIInv, NextFromListing, PTL DEF Spec

-----------------------------------------------------------------------------
(* A window as Gmail lists it, with a number beyond the cursor on every record: *)
(* first-seen order is then ascending, and the walk stops raising the watermark *)
(* at the first record that is not fully handled.                               *)
Plain == InAscendingOrder /\ \A r \in RecordsOf(Listed) : r \in Nat /\ r > historyId

Ascending == \A j, k \in 1..Len(order) : j < k => order[j] < order[k]
SeenSoFar ==
    pc = "group" =>
        /\ watermark = Null /\ lowestUnhandled = Null
        /\ \A j \in 1..Len(order) : \E k \in 1..Len(enumerated) :
              k < i /\ order[j] = historyIdById[enumerated[k]]
(* The records before position j are fully handled, the last is the watermark. *)
HandledUpTo(j) ==
    /\ \A k \in 1..Len(order) : k < j => FullyHandled(order[k])
    /\ watermark = IF j = 1 THEN Null ELSE order[j - 1]
Walked ==
    pc = "walk" =>
        \/ lowestUnhandled = Null /\ i <= Len(order) + 1 /\ HandledUpTo(i)
        \/ \E j \in 1..Len(order) : /\ lowestUnhandled = order[j] /\ ~FullyHandled(order[j])
                                    /\ HandledUpTo(j)
PlainInv == Plain => Ascending /\ SeenSoFar /\ Walked /\ TakesAllItMay

LEMMA MaxIs ==
    ASSUME NEW S \in SUBSET Nat, NEW x \in S, \A y \in S : y <= x
    PROVE  S # {} /\ Max(S) = x
<1>1. \A z \in S : (\A y \in S : z >= y) => z = x
  OBVIOUS
<1>2. \A y \in S : x >= y
  OBVIOUS
<1> QED
  BY <1>1, <1>2 DEF Max

LEMMA AllGrouped ==
    ASSUME TypeInv, Grouped, pc = "walk", NEW r \in RecordsOf(Listed)
    PROVE  \E k \in 1..Len(order) : order[k] = r
<1>1. PICK j \in 1..Len(enumerated) : r = historyIdById[enumerated[j]]
  BY DEF RecordsOf, Listed, Range, TypeInv
<1> QED
  BY <1>1 DEF Grouped, Range, TypeInv

(* What the clamps let through is the last record they may. *)
LEMMA DecidesWell ==
    ASSUME TypeInv, Grouped, FromListing, Plain, Ascending, Walked, pc = "walk", i > Len(order)
    PROVE  (IF Safe(watermark) THEN watermark ELSE Null)
             = IF Contiguous = {} THEN Null ELSE Max(Contiguous)
<1>0. /\ \A j \in 1..Len(order) : /\ order[j] \in RecordsOf(Listed) /\ order[j] \in Nat
                                  /\ order[j] > historyId /\ order[j] # Null
      /\ historyId \in Nat /\ Len(order) \in Nat /\ ~Safe(Null) /\ i \in Nat
  BY TokensAssumption DEF FromListing, Plain, TypeInv, Safe, Numeric
<1>1. \A r \in RecordsOf(Listed) : \E k \in 1..Len(order) : order[k] = r
  BY AllGrouped
<1>2. Contiguous \subseteq RecordsOf(Listed) /\ Contiguous \in SUBSET Nat
  BY DEF Contiguous, Plain
<1>3. \A j, k \in 1..Len(order) : k <= j => order[k] <= order[j]
  BY <1>0 DEF Ascending
<1>4. ASSUME NEW j \in 1..Len(order), NEW r \in Contiguous, ~FullyHandled(order[j])
      PROVE  r < order[j]
  <2>1. PICK m \in Listed : historyIdById[m] = order[j] /\ m \notin ring
    BY <1>4 DEF FullyHandled
  <2>2. ~(order[j] <= r)
    BY <1>4, <2>1 DEF Contiguous
  <2> QED
    BY <1>0, <1>2, <1>4, <2>2
<1>5. ASSUME NEW j \in 1..Len(order), \A k \in 1..Len(order) : k <= j => FullyHandled(order[k])
      PROVE  order[j] \in Contiguous
  <2> SUFFICES ASSUME NEW m \in Listed, historyIdById[m] <= order[j]
               PROVE  m \in ring
    BY <1>0, <1>5 DEF Contiguous
  <2>1. PICK k \in 1..Len(order) : order[k] = historyIdById[m]
    BY <1>1 DEF RecordsOf
  <2>2. k <= j
    BY <1>0, <1>5, <2>1 DEF Ascending
  <2> QED
    BY <1>5, <2>1, <2>2 DEF FullyHandled
<1>6. CASE lowestUnhandled = Null /\ i <= Len(order) + 1 /\ HandledUpTo(i)
  <2>1. i = Len(order) + 1 /\ \A k \in 1..Len(order) : FullyHandled(order[k])
    BY <1>0, <1>6 DEF HandledUpTo
  <2>2. CASE Len(order) = 0
    <3>1. RecordsOf(Listed) = {}
      BY <1>1, <2>2
    <3>2. watermark = Null
      BY <1>6, <2>1, <2>2 DEF HandledUpTo
    <3> QED
      BY <1>0, <1>2, <3>1, <3>2
  <2>3. CASE Len(order) # 0
    <3> DEFINE n == Len(order)
    <3>1. n \in 1..Len(order) /\ watermark = order[n]
      BY <1>0, <1>6, <2>1, <2>3 DEF HandledUpTo
    <3>2. order[n] \in Contiguous
      BY <1>5, <2>1, <3>1
    <3>3. \A y \in Contiguous : y <= order[n]
      BY <1>1, <1>2, <1>3, <3>1
    <3>4. Contiguous # {} /\ Max(Contiguous) = order[n]
      BY <1>2, <3>2, <3>3, MaxIs
    <3>5. Safe(watermark)
      BY <1>0, <1>6, <3>1 DEF Safe, Numeric
    <3> QED
      BY <3>1, <3>4, <3>5
  <2> QED
    BY <2>2, <2>3
<1>7. ASSUME NEW j \in 1..Len(order), lowestUnhandled = order[j], ~FullyHandled(order[j]),
             HandledUpTo(j)
      PROVE  (IF Safe(watermark) THEN watermark ELSE Null)
               = IF Contiguous = {} THEN Null ELSE Max(Contiguous)
  <2>1. CASE j = 1
    <3>1. watermark = Null
      BY <1>7, <2>1 DEF HandledUpTo
    <3>2. ASSUME NEW r \in Contiguous PROVE FALSE
      <4>1. PICK k \in 1..Len(order) : order[k] = r
        BY <1>1, <1>2
      <4>2. order[1] <= r
        BY <1>0, <1>3, <2>1, <4>1
      <4>3. r < order[1] /\ r \in Nat /\ order[1] \in Nat
        BY <1>0, <1>2, <1>4, <1>7, <2>1
      <4> QED
        BY <4>2, <4>3
    <3> QED
      BY <1>0, <3>1, <3>2
  <2>2. CASE j # 1
    <3>0. j - 1 \in 1..Len(order) /\ j - 1 < j
      BY <1>0, <1>7, <2>2
    <3>1. watermark = order[j - 1] /\ order[j - 1] < order[j]
      BY <1>7, <2>2, <3>0 DEF HandledUpTo, Ascending
    <3>2. order[j - 1] \in Contiguous
      BY <1>0, <1>5, <1>7, <3>0 DEF HandledUpTo
    <3>3. ASSUME NEW y \in Contiguous PROVE y <= order[j - 1]
      <4>1. PICK k \in 1..Len(order) : order[k] = y
        BY <1>1, <1>2
      <4>2. y < order[j]
        BY <1>4, <1>7
      <4>3. ~(j <= k)
        BY <1>0, <1>3, <1>7, <4>1, <4>2
      <4>4. k <= j - 1
        BY <1>7, <4>3
      <4> QED
        BY <1>3, <3>0, <4>1, <4>4
    <3>4. Contiguous # {} /\ Max(Contiguous) = order[j - 1]
      BY <1>2, <3>2, <3>3, MaxIs
    <3>5. Safe(watermark)
      BY <1>0, <1>7, <3>0, <3>1 DEF Safe, Numeric
    <3> QED
      BY <3>1, <3>4, <3>5
  <2> QED
    BY <2>1, <2>2
<1> QED
  BY <1>6, <1>7 DEF Walked

LEMMA GroupKeepsOrder ==
    ASSUME TypeInv, FromListing, Plain, Ascending, SeenSoFar, Group
    PROVE  Ascending' /\ SeenSoFar'
<1> DEFINE rec == historyIdById[enumerated[i]]
<1>1. /\ i \in 1..Len(enumerated) /\ pc = "group" /\ pc' = "group" /\ i' = i + 1 /\ i \in Nat
      /\ UNCHANGED <<enumerated, historyIdById, watermark, lowestUnhandled>>
      /\ Len(order) \in Nat /\ Len(enumerated) \in Nat
  BY GroupShape DEF Group, inputs, TypeInv
<1>2. rec \in RecordsOf(Listed) /\ rec \in Nat
  <2>1. enumerated[i] \in Listed
    BY <1>1 DEF Listed, Range, TypeInv
  <2> QED
    BY <2>1 DEF RecordsOf, Plain
<1>3. CASE order' = order
  <2>1. Ascending'
    BY <1>3 DEF Ascending
  <2>2. \A k \in Nat : k < i => k < i + 1
    BY <1>1
  <2> QED
    BY <1>1, <1>3, <2>1, <2>2 DEF SeenSoFar
<1>4. CASE order' # order
  <2>1. /\ Len(order') = Len(order) + 1 /\ order'[Len(order) + 1] = rec
        /\ \A j \in 1..Len(order) : order'[j] = order[j] /\ order[j] # rec
    BY <1>4, GroupShape
  <2>2. \A j \in 1..Len(order) : /\ order[j] \in Nat /\ order[j] < rec
                                 /\ \E k \in 1..Len(enumerated) :
                                       k < i /\ order[j] = historyIdById[enumerated[k]]
    <3> SUFFICES ASSUME NEW j \in 1..Len(order)
                 PROVE  /\ order[j] \in Nat /\ order[j] < rec
                        /\ \E k \in 1..Len(enumerated) :
                              k < i /\ order[j] = historyIdById[enumerated[k]]
      OBVIOUS
    <3>1. PICK k \in 1..Len(enumerated) : k < i /\ order[j] = historyIdById[enumerated[k]]
      BY <1>1 DEF SeenSoFar
    <3>2. order[j] \in Nat
      BY DEF FromListing, Plain
    <3>3. order[j] <= rec
      <4>1. k \in DOMAIN enumerated /\ i \in DOMAIN enumerated
        BY <1>1 DEF TypeInv
      <4> QED
        BY <1>2, <3>1, <3>2, <4>1 DEF Plain, InAscendingOrder, Numeric
    <3> QED
      BY <1>2, <2>1, <3>1, <3>2, <3>3
  <2>3. Ascending'
    <3> SUFFICES ASSUME NEW j \in 1..Len(order'), NEW k \in 1..Len(order'), j < k
                 PROVE  order'[j] < order'[k]
      BY DEF Ascending
    <3>1. CASE k = Len(order) + 1
      BY <1>1, <2>1, <2>2, <3>1
    <3>2. CASE k # Len(order) + 1
      <4>1. j \in 1..Len(order) /\ k \in 1..Len(order)
        BY <1>1, <2>1, <3>2
      <4> QED
        BY <2>1, <4>1 DEF Ascending
    <3> QED
      BY <3>1, <3>2
  <2>4. SeenSoFar'
    <3> SUFFICES ASSUME NEW j \in 1..Len(order')
                 PROVE  \E k \in 1..Len(enumerated) :
                           k < i + 1 /\ order'[j] = historyIdById[enumerated[k]]
      BY <1>1 DEF SeenSoFar
    <3>1. CASE j = Len(order) + 1
      BY <1>1, <2>1, <3>1
    <3>2. CASE j # Len(order) + 1
      <4>1. j \in 1..Len(order)
        BY <1>1, <2>1, <3>2
      <4>2. PICK k \in 1..Len(enumerated) : k < i /\ order[j] = historyIdById[enumerated[k]]
        BY <2>2, <4>1
      <4> QED
        BY <1>1, <2>1, <4>1, <4>2
    <3> QED
      BY <3>1, <3>2
  <2> QED
    BY <2>3, <2>4
<1> QED
  BY <1>3, <1>4

LEMMA NextPlain ==
    ASSUME TypeInv, Grouped, FromListing, PlainInv, [Next]_vars
    PROVE  PlainInv'
<1>0. UNCHANGED inputs => /\ Plain' = Plain /\ Contiguous' = Contiguous
                          /\ \A r : FullyHandled(r)' = FullyHandled(r)
  BY DEF inputs, Plain, InAscendingOrder, RecordsOf, Listed, Contiguous, FullyHandled
<1>1. UNCHANGED inputs
  BY DEF Next, vars, Unattributable, Group, EndGroup, PassHandled, NoteFirstUnhandled,
         NoteLowerUnhandled, CannotCompare, Walking, Decide
<1> SUFFICES ASSUME Plain PROVE Ascending' /\ SeenSoFar' /\ Walked' /\ TakesAllItMay'
  BY <1>0, <1>1 DEF PlainInv
<1>2. Ascending /\ SeenSoFar /\ Walked /\ TakesAllItMay
  BY DEF PlainInv
<1>3. /\ Len(order) \in Nat /\ i \in Nat \ {0}
      /\ \A j \in 1..Len(order) : order[j] \in Nat /\ order[j] # Null
  BY TokensAssumption DEF TypeInv, FromListing, Plain
<1>4. CASE Unattributable
  <2>1. i \in 1..Len(enumerated) /\ historyIdById[enumerated[i]] = NoRecord
    BY <1>3, <1>4 DEF Unattributable, TypeInv
  <2>2. enumerated[i] \in Listed
    BY <2>1 DEF Listed, Range, TypeInv
  <2>3. NoRecord \in Nat
    BY <2>1, <2>2 DEF Plain, RecordsOf
  <2> QED
    BY <2>3, TokensAssumption
<1>5. CASE Group
  <2>1. pc' = "group"
    BY <1>5 DEF Group
  <2> QED
    BY <1>2, <1>5, <2>1, GroupKeepsOrder DEF Walked, TakesAllItMay
<1>6. CASE EndGroup
  <2>1. pc = "group" /\ pc' = "walk" /\ i' = 1 /\ UNCHANGED <<order, watermark, lowestUnhandled>>
    BY <1>6 DEF EndGroup
  <2>2. watermark = Null /\ lowestUnhandled = Null
    BY <1>2, <2>1 DEF SeenSoFar
  <2> QED
    BY <1>2, <1>3, <2>1, <2>2 DEF Ascending, SeenSoFar, Walked, HandledUpTo, TakesAllItMay
<1>7. CASE PassHandled \/ NoteFirstUnhandled \/ NoteLowerUnhandled
  <2>1. pc = "walk" /\ pc' = "walk" /\ i \in 1..Len(order) /\ order' = order
    BY <1>3, <1>7 DEF PassHandled, NoteFirstUnhandled, NoteLowerUnhandled, Walking
  <2>2. Ascending' /\ SeenSoFar' /\ TakesAllItMay'
    BY <1>2, <2>1 DEF Ascending, SeenSoFar, TakesAllItMay
  <2>3. CASE PassHandled
    <3>1. /\ i' = i + 1 /\ lowestUnhandled' = lowestUnhandled /\ FullyHandled(order[i])
          /\ watermark' = IF lowestUnhandled = Null THEN order[i] ELSE watermark
      BY <2>3 DEF PassHandled
    <3>2. CASE lowestUnhandled = Null
      <4>1. \A k \in 1..Len(order) : k < i => FullyHandled(order[k])
        <5>1. HandledUpTo(i)
          BY <1>2, <1>3, <2>1, <3>2 DEF Walked
        <5> QED
          BY <5>1 DEF HandledUpTo
      <4>2. \A k \in 1..Len(order) : k < i + 1 => FullyHandled(order[k])
        BY <2>1, <3>1, <4>1
      <4>3. i + 1 # 1 /\ (i + 1) - 1 = i /\ i + 1 <= Len(order) + 1
        BY <1>3, <2>1
      <4> QED
        BY <1>0, <1>1, <2>1, <2>2, <3>1, <3>2, <4>2, <4>3 DEF Walked, HandledUpTo
    <3>3. CASE lowestUnhandled # Null
      BY <1>0, <1>1, <1>2, <2>1, <2>2, <3>1, <3>3 DEF Walked, HandledUpTo
    <3> QED
      BY <3>2, <3>3
  <2>4. CASE NoteFirstUnhandled
    <3>1. /\ lowestUnhandled = Null /\ lowestUnhandled' = order[i] /\ ~FullyHandled(order[i])
          /\ watermark' = watermark
      BY <2>4 DEF NoteFirstUnhandled
    <3>2. HandledUpTo(i)
      BY <1>2, <1>3, <2>1, <3>1 DEF Walked
    <3> QED
      BY <1>0, <1>1, <2>1, <2>2, <3>1, <3>2 DEF Walked, HandledUpTo
  <2>5. CASE NoteLowerUnhandled
    <3>1. /\ ~FullyHandled(order[i]) /\ Numeric(lowestUnhandled) /\ watermark' = watermark
          /\ lowestUnhandled' = IF order[i] < lowestUnhandled THEN order[i] ELSE lowestUnhandled
      BY <2>5 DEF NoteLowerUnhandled
    <3>2. lowestUnhandled # Null
      BY <3>1, TokensAssumption DEF Numeric
    <3>3. PICK j \in 1..Len(order) : /\ lowestUnhandled = order[j] /\ ~FullyHandled(order[j])
                                     /\ HandledUpTo(j)
      BY <1>2, <2>1, <3>2 DEF Walked
    <3>4. ~(i < j)
      BY <2>1, <3>1, <3>3 DEF HandledUpTo
    <3>5. ~(order[i] < order[j])
      BY <1>2, <1>3, <2>1, <3>3, <3>4 DEF Ascending
    <3>6. lowestUnhandled' = lowestUnhandled
      BY <3>1, <3>3, <3>5
    <3> QED
      BY <1>0, <1>1, <2>1, <2>2, <3>1, <3>3, <3>6 DEF Walked, HandledUpTo
  <2> QED
    BY <1>7, <2>3, <2>4, <2>5
<1>8. CASE CannotCompare
  <2>1. /\ pc = "walk" /\ i \in 1..Len(order) /\ lowestUnhandled # Null
        /\ ~(Numeric(order[i]) /\ Numeric(lowestUnhandled))
    BY <1>3, <1>8 DEF CannotCompare, Walking
  <2>2. Numeric(order[i]) /\ Numeric(lowestUnhandled)
    BY <1>2, <1>3, <2>1 DEF Walked, Numeric
  <2> QED
    BY <2>1, <2>2
<1>9. CASE Decide
  <2>1. /\ pc = "walk" /\ pc' = "done" /\ i > Len(order) /\ order' = order
        /\ result' = IF Safe(watermark) THEN watermark ELSE Null
    BY <1>9 DEF Decide, Finish
  <2>2. result' = IF Contiguous = {} THEN Null ELSE Max(Contiguous)
    BY <1>2, <2>1, DecidesWell
  <2> QED
    BY <1>0, <1>1, <1>2, <2>1, <2>2 DEF Ascending, SeenSoFar, Walked, TakesAllItMay
<1>10. CASE UNCHANGED vars
  <2>1. UNCHANGED <<enumerated, historyIdById, ring, order, i, watermark, lowestUnhandled, pc, result>>
    BY <1>10 DEF vars, inputs
  <2>2. Ascending' /\ SeenSoFar'
    BY <1>2, <2>1 DEF Ascending, SeenSoFar
  <2>3. Walked'
    BY <1>0, <1>1, <1>2, <2>1 DEF Walked, HandledUpTo
  <2>4. TakesAllItMay'
    BY <1>0, <1>1, <1>2, <2>1 DEF TakesAllItMay, Plain
  <2> QED
    BY <2>2, <2>3, <2>4
<1> QED
  BY <1>4, <1>5, <1>6, <1>7, <1>8, <1>9, <1>10 DEF Next

(* TakesAllItMay for every listing in Gmail's order: nextCursor parks no more    *)
(* than it must, and answers with the last record up to which everything was     *)
(* handled (poll.js 311-350).                                                    *)
THEOREM CursorTakesAllItMay == Spec => []TakesAllItMay
<1>1. Init => FromListing /\ PlainInv
  <2> SUFFICES ASSUME Init PROVE FromListing /\ PlainInv
    OBVIOUS
  <2>1. FromListing
    BY DEF Init, FromListing
  <2>2. Ascending /\ SeenSoFar /\ Walked /\ TakesAllItMay
    BY DEF Init, Ascending, SeenSoFar, Walked, TakesAllItMay
  <2> QED
    BY <2>1, <2>2 DEF PlainInv
<1>2. IInv /\ FromListing /\ PlainInv /\ [Next]_vars => FromListing' /\ PlainInv'
  BY NextFromListing, NextPlain DEF IInv
<1>3. PlainInv => TakesAllItMay
  BY DEF PlainInv, Plain, TakesAllItMay
<1> QED
  BY <1>1, <1>2, <1>3, InitIInv, NextIInv, PTL DEF Spec
=============================================================================
