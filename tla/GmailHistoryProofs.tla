-------------------------- MODULE GmailHistoryProofs --------------------------
(***************************************************************************)
(* For every mailbox, page size, cap and number of tries, and wherever     *)
(* mail arrives between the pages: getHistory enumerates whole records     *)
(* without holes, and answers as if it had looked at the mailbox once.     *)
(***************************************************************************)
EXTENDS GmailHistory, TLAPS, FiniteSetTheorems

Typed ==
    /\ hist \in [Messages -> Nat] /\ top \in Nat \ {0} /\ retained \in Nat
    /\ start \in Nat \ {0} /\ start <= top
    /\ pc \in {"idle", "calling"}
    /\ ids \in SUBSET Messages /\ length \in Nat
    /\ again \in Nat /\ last \in Nat /\ pageToken \in Nat

(* The mailbox only grows at its end. *)
Ahead == /\ \A m \in Messages : hist[m] <= top
         /\ last <= top /\ pageToken <= top

(* Every record holds a message. *)
Dense == \A r \in 2..top : \E m \in Messages : hist[m] = r

(* Between two pages the loop stands behind a record it has read: everything  *)
(* up to there is placed, and there is more.                                  *)
Between ==
    pc = "calling" =>
        /\ pageToken = 0 => ids = {} /\ again = 0 /\ last = 0
        /\ pageToken # 0 => /\ start < pageToken /\ pageToken < top /\ pageToken = last
                            /\ \A k \in Unattributed : ~(start < hist[k] /\ hist[k] <= pageToken)
        /\ again <= pageToken

(* ids.length counts a message twice if its record was listed again. *)
Counted ==
    pc = "calling" => length = Cardinality(ids) + Cardinality(Of(ids, hist, again))

IInv == Typed /\ Ahead /\ Dense /\ Between /\ Counted /\ NoHoles

-----------------------------------------------------------------------------
LEMMA FiniteParts ==
    ASSUME NEW S \in SUBSET Messages
    PROVE  IsFiniteSet(S) /\ Cardinality(S) \in Nat
  BY MailboxAssumption, FS_Subset, FS_CardinalityType

LEMMA CardinalityOfUnion ==
    ASSUME NEW S \in SUBSET Messages, NEW T \in SUBSET Messages, S \cap T = {}
    PROVE  Cardinality(S \cup T) = Cardinality(S) + Cardinality(T)
<1>1. Cardinality(S \cup T) = Cardinality(S) + Cardinality(T) - Cardinality(S \cap T)
  BY FiniteParts, FS_Union
<1>2. Cardinality(S \cap T) = 0
  BY FS_EmptySet
<1> QED
  BY <1>1, <1>2, FiniteParts

-----------------------------------------------------------------------------
(* What a page leaves, whatever end, cut and repeated record Gmail chose. *)
LEMMA PageFacts ==
    ASSUME IInv, pc = "calling", NEW end \in PageEnds, NEW cut \in Cuts(end),
           NEW record \in Repeats, PageRead(cut, record)
    PROVE  /\ end \in Nat /\ cut \in Nat /\ start <= cut /\ cut <= end /\ end <= top
           /\ end < top => start < end
           /\ record \in Nat /\ record <= cut
           /\ ids' = {m \in Messages : start < hist[m] /\ hist[m] <= cut}
           /\ ids' = {m \in Messages : start < hist[m] /\ hist[m] <= last'}
           /\ last' \in Nat /\ last' <= top
           /\ cut = end /\ end < top => last' = end
           /\ \A k \in Unattributed : ~(start < hist[k] /\ hist[k] <= cut)
           /\ length' = Cardinality(ids') + Cardinality(Of(ids', hist, record))
<1> USE DEF IInv
<1>1. From \in Nat /\ start <= From /\ From <= top
  BY DEF From, Typed, Ahead, Between
<1>2. end \in Nat /\ From <= end /\ end <= top /\ (end < top => From < end)
  <2>1. CASE From = top
    BY <1>1, <2>1 DEF PageEnds, Typed
  <2>2. CASE From # top
    BY <1>1, <2>2, PagesAssumption DEF PageEnds, Typed
  <2> QED
    BY <2>1, <2>2
<1>3. cut \in Nat /\ From <= cut /\ cut <= end
  BY <1>1, <1>2 DEF Cuts
<1>4. record \in Nat /\ record <= From
  <2>1. again <= From /\ pageToken <= From
    BY DEF From, Between, Typed
  <2> QED
    BY <2>1 DEF Repeats, Typed
<1>5. /\ ids = {m \in Messages : start < hist[m] /\ hist[m] <= From}
      /\ \A k \in Unattributed : ~(start < hist[k] /\ hist[k] <= From)
  <2>1. CASE pageToken = 0
    <3>1. From = start /\ ids = {}
      BY <2>1 DEF From, Between
    <3>2. \A m \in Messages : ~(start < hist[m] /\ hist[m] <= From)
      BY <3>1 DEF Typed
    <3> QED
      BY <3>1, <3>2, MailboxAssumption
  <2>2. CASE pageToken # 0
    BY <2>2, MailboxAssumption DEF From, Between, Typed, NoHoles
  <2> QED
    BY <2>1, <2>2
<1>6. ids' = {m \in Messages : start < hist[m] /\ hist[m] <= cut}
  BY <1>1, <1>3, <1>5 DEF PageRead, Read, Typed
<1>7. \A k \in Unattributed : ~(start < hist[k] /\ hist[k] <= cut)
  BY <1>1, <1>3, <1>5, MailboxAssumption DEF Cuts, Typed
<1>8. /\ ids' = {m \in Messages : start < hist[m] /\ hist[m] <= last'}
      /\ last' \in Nat /\ last' <= top
      /\ cut = end /\ end < top => last' = end
  <2>1. CASE cut = From
    <3>1. ids' = ids /\ last' = last
      BY <2>1, <1>5, <1>6 DEF PageRead
    <3> QED
      BY <2>1, <3>1, <1>2 DEF Typed, Ahead, NoHoles
  <2>2. CASE cut # From
    BY <2>2, <1>2, <1>3, <1>6 DEF PageRead, Typed
  <2> QED
    BY <2>1, <2>2
<1>9. length' = Cardinality(ids') + Cardinality(Of(ids', hist, record))
  <2>1. Read(cut) \in SUBSET Messages /\ ids \in SUBSET Messages
    BY DEF Read, Typed
  <2>2. ids \cap Read(cut) = {}
    BY <1>1, <1>5 DEF Read, Typed
  <2>3. Cardinality(ids') = Cardinality(ids) + Cardinality(Read(cut))
    BY <2>1, <2>2, CardinalityOfUnion DEF PageRead
  <2>4. Of(ids', hist, record) = Of(ids, hist, record)
    BY <1>1, <1>4, <2>1 DEF PageRead, Read, Of, Typed
  <2>5. CASE record = again
    <3>1. Cardinality(IF record = again THEN {} ELSE Of(ids, hist, record)) = 0
      BY <2>5, FS_EmptySet
    <3>2. Cardinality(ids) \in Nat /\ Cardinality(Read(cut)) \in Nat
          /\ Cardinality(Of(ids, hist, record)) \in Nat
      BY <2>1, FiniteParts DEF Of
    <3>3. length' = length + 0 + Cardinality(Read(cut))
      BY <3>1 DEF PageRead
    <3>4. length = Cardinality(ids) + Cardinality(Of(ids, hist, record))
      BY <2>5 DEF Counted
    <3> QED
      BY <2>3, <2>4, <3>2, <3>3, <3>4
  <2>6. CASE record # again
    <3>1. again = 0
      BY <2>6 DEF Repeats
    <3>2. Of(ids, hist, again) = {}
      BY <3>1 DEF Of, NoHoles, Typed
    <3>3. length = Cardinality(ids) + 0
      BY <3>2, FS_EmptySet DEF Counted
    <3>4. length' = length + Cardinality(Of(ids, hist, record)) + Cardinality(Read(cut))
      BY <2>6 DEF PageRead
    <3>5. Cardinality(ids) \in Nat /\ Cardinality(Read(cut)) \in Nat
          /\ Cardinality(Of(ids, hist, record)) \in Nat
      BY <2>1, FiniteParts DEF Of
    <3> QED
      BY <2>3, <2>4, <3>3, <3>4, <3>5
  <2> QED
    BY <2>5, <2>6
<1>10. start <= cut /\ (end < top => start < end) /\ record <= cut
  BY <1>1, <1>2, <1>3, <1>4 DEF Typed
<1> HIDE DEF IInv
<1> QED
  BY <1>2, <1>3, <1>4, <1>6, <1>7, <1>8, <1>9, <1>10

-----------------------------------------------------------------------------
LEMMA InitIInv == Init => IInv
<1> SUFFICES ASSUME Init PROVE IInv
  OBVIOUS
<1>1. Typed /\ Ahead /\ Between
  BY DEF Init, Typed, Ahead, Between
<1>2. Dense
  BY DEF Init, Dense
<1>3. Counted
  BY DEF Init, Counted
<1>4. NoHoles
  BY DEF Init, NoHoles
<1> QED
  BY <1>1, <1>2, <1>3, <1>4 DEF IInv

LEMMA CallIInv == IInv /\ Call => IInv'
<1> SUFFICES ASSUME IInv, Call PROVE IInv'
  OBVIOUS
<1> USE DEF IInv, Call, mailbox
<1>1. Typed'
  BY DEF Typed
<1>2. Ahead' /\ Dense' /\ Between'
  BY <1>1 DEF Ahead, Dense, Between, Typed
<1>3. Counted'
  <2>1. ids' = {} /\ length' = 0 /\ Of(ids', hist', again') = {}
    BY DEF Of
  <2> QED
    BY <2>1, FS_EmptySet DEF Counted
<1>4. NoHoles'
  <2>1. \A m \in Messages : ~(start' < hist'[m] /\ hist'[m] <= 0)
    BY <1>1 DEF Typed
  <2> QED
    BY <2>1 DEF NoHoles
<1> QED
  BY <1>1, <1>2, <1>3, <1>4

LEMMA PageIInv == IInv /\ PageArrives => IInv'
<1> SUFFICES ASSUME IInv, PageArrives PROVE IInv'
  OBVIOUS
<1>1. PICK end \in PageEnds : \E cut \in Cuts(end) : \E record \in Repeats :
             PageRead(cut, record) /\ PageEnded(cut, end)
  BY DEF PageArrives
<1>2. PICK cut \in Cuts(end) : \E record \in Repeats :
             PageRead(cut, record) /\ PageEnded(cut, end)
  BY <1>1
<1>3. PICK record \in Repeats : PageRead(cut, record) /\ PageEnded(cut, end)
  BY <1>2
<1>4. pc = "calling"
  BY DEF PageArrives
<1>5. /\ end \in Nat /\ cut \in Nat /\ start <= cut /\ cut <= end /\ end <= top
      /\ end < top => start < end
      /\ record \in Nat /\ record <= cut
      /\ ids' = {m \in Messages : start < hist[m] /\ hist[m] <= last'}
      /\ last' \in Nat /\ last' <= top
      /\ cut = end /\ end < top => last' = end
      /\ \A k \in Unattributed : ~(start < hist[k] /\ hist[k] <= cut)
      /\ length' = Cardinality(ids') + Cardinality(Of(ids', hist, record))
  BY <1>3, <1>4, PageFacts
<1>6. UNCHANGED <<hist, top, retained, start>> /\ again' = record
  BY <1>3 DEF PageRead, PageArrives, mailbox
<1>7. ids' \in SUBSET Messages /\ length' \in Nat
  <2>1. ids' \in SUBSET Messages
    BY <1>5
  <2> QED
    BY <2>1, <1>5, FiniteParts DEF Of
<1>8. Typed' /\ Ahead' /\ Dense'
  BY <1>3, <1>5, <1>6, <1>7 DEF PageEnded, Return, IInv, Typed, Ahead, Dense
<1>9. Between'
  <2>1. SUFFICES ASSUME pc' = "calling" PROVE Between'
    BY DEF Between
  <2>2. ~(cut < end) /\ end # top /\ pageToken' = end
    BY <1>3, <2>1 DEF PageEnded, Return
  <2>3. cut = end /\ end < top /\ last' = end /\ start < end /\ end # 0
    BY <1>5, <2>2 DEF IInv, Typed
  <2> QED
    BY <1>5, <1>6, <2>2, <2>3 DEF Between
<1>10. Counted' /\ NoHoles'
  <2>1. pc' = "calling" /\ pageToken' # 0 => pageToken' = last'
    BY <1>3, <1>5 DEF PageEnded, Return, IInv, Typed
  <2> QED
    BY <1>5, <1>6, <2>1 DEF Counted, NoHoles
<1> QED
  BY <1>8, <1>9, <1>10 DEF IInv

LEMMA DeliverIInv == IInv /\ Deliver => IInv'
<1> SUFFICES ASSUME IInv, Deliver PROVE IInv'
  OBVIOUS
<1>1. UNCHANGED <<retained, start, answer, pc, ids, length, again, last, pageToken>>
  BY DEF Deliver, locals
<1>2. PICK final \in {m \in Messages : hist[m] = 0} :
          LET block == {m \in Messages : hist[m] = 0 /\ m <= final}
          IN  /\ top' = top + 1
              /\ hist' = [m \in Messages |-> IF m \in block THEN top + 1 ELSE hist[m]]
  BY DEF Deliver
<1>3. /\ top' = top + 1
      /\ hist' \in [Messages -> Nat]
      /\ hist'[final] = top + 1
      /\ \A m \in Messages : \/ hist'[m] = hist[m]
                             \/ hist[m] = 0 /\ hist'[m] = top + 1
  BY <1>2, MailboxAssumption DEF IInv, Typed
<1>4. Typed' /\ Ahead'
  BY <1>1, <1>3 DEF IInv, Typed, Ahead
<1>5. Dense'
  BY <1>3 DEF IInv, Typed, Dense
<1>6. NoHoles'
  <2>1. \A m \in Messages : start < hist'[m] /\ hist'[m] <= last
                            <=> start < hist[m] /\ hist[m] <= last
    BY <1>3 DEF IInv, Typed, Ahead
  <2> QED
    BY <1>1, <2>1 DEF IInv, NoHoles
<1>7. Between'
  BY <1>1, <1>3, MailboxAssumption DEF IInv, Typed, Between
<1>8. Counted'
  <2>1. SUFFICES ASSUME pc = "calling" PROVE Of(ids, hist', again) = Of(ids, hist, again)
    BY <1>1, <2>1 DEF IInv, Counted
  <2>2. \A m \in ids : hist'[m] = hist[m]
    BY <1>3 DEF IInv, NoHoles, Typed
  <2> QED
    BY <2>2 DEF Of
<1> QED
  BY <1>4, <1>5, <1>6, <1>7, <1>8 DEF IInv

LEMMA NextIInv == IInv /\ [Next]_vars => IInv'
<1> SUFFICES ASSUME IInv, [Next]_vars PROVE IInv'
  OBVIOUS
<1>1. CASE Call
  BY <1>1, CallIInv
<1>2. CASE PageArrives
  BY <1>2, PageIInv
<1>3. CASE TryAgain
  BY <1>3 DEF TryAgain, mailbox, locals, IInv, Typed, Ahead, Dense, Between, Counted, NoHoles
<1>4. CASE Throw
  BY <1>4 DEF Throw, Return, mailbox, locals, IInv, Typed, Ahead, Dense, Between, Counted, NoHoles
<1>5. CASE NotFound
  BY <1>5 DEF NotFound, Return, mailbox, locals, IInv, Typed, Ahead, Dense, Between, Counted, NoHoles
<1>6. CASE Deliver
  BY <1>6, DeliverIInv
<1>7. CASE Expire
  BY <1>7 DEF Expire, locals, IInv, Typed, Ahead, Dense, Between, Counted, NoHoles
<1>8. CASE UNCHANGED vars
  BY <1>8 DEF vars, mailbox, locals, IInv, Typed, Ahead, Dense, Between, Counted, NoHoles
<1> QED
  BY <1>1, <1>2, <1>3, <1>4, <1>5, <1>6, <1>7, <1>8 DEF Next, Step

(* The ids getHistory has enumerated are always whole records without a hole, *)
(* and the next page goes on right behind them (gmail.js 437-452).            *)
THEOREM EnumerationHasNoHoles == Spec => []NoHoles
<1>1. IInv => NoHoles
  BY DEF IInv
<1> QED
  BY <1>1, InitIInv, NextIInv, PTL DEF Spec

(* The abstract specification counts with the same Cardinality. *)
LEMMA SameCardinality == \A S : Listing!Cardinality(S) = Cardinality(S)
  BY DEF Listing!Cardinality, Cardinality, Listing!IsFiniteSet, IsFiniteSet

-----------------------------------------------------------------------------
(* A page that ends the call answers what HistoryListing allows.             *)
LEMMA PageAnswers ==
    ASSUME IInv, pc = "calling", NEW end \in PageEnds, NEW cut \in Cuts(end),
           NEW record \in Repeats, PageRead(cut, record), UNCHANGED <<mailbox, start>>,
           cut < end \/ Capped(length', end) \/ end = top
    PROVE  /\ ids' \in Listing!Listings(Listing!Window, hist, Unattributed, IdCap, record)
           /\ record \in 0..top
           /\ (ids' # Listing!Window) <=> (cut < end \/ Capped(length', end))
<1> DEFINE W == Listing!Window
           whole == Listing!Attributable(W, hist, Unattributed)
<1>1. /\ end \in Nat /\ cut \in Nat /\ start <= cut /\ cut <= end /\ end <= top
      /\ end < top => start < end
      /\ record \in Nat /\ record <= cut
      /\ ids' = {m \in Messages : start < hist[m] /\ hist[m] <= cut}
      /\ \A k \in Unattributed : ~(start < hist[k] /\ hist[k] <= cut)
      /\ length' = Cardinality(ids') + Cardinality(Of(ids', hist, record))
  BY PageFacts
<1>2. /\ top \in Nat /\ start \in Nat /\ \A m \in Messages : hist[m] \in Nat /\ hist[m] <= top
      /\ Unattributed \subseteq Messages
      /\ record \in 0..top
  BY <1>1, MailboxAssumption DEF IInv, Typed, Ahead
<1>3. W = {m \in Messages : hist[m] > start}
  BY DEF Listing!Window
<1>4. whole = {m \in W : \A k \in W \cap Unattributed : hist[m] < hist[k]}
  BY DEF Listing!Attributable
<1>5. whole \in Listing!Listings(W, hist, Unattributed, IdCap, record)
  BY DEF Listing!Listings
<1> HIDE DEF W, whole
<1>6. ids' \subseteq whole
  BY <1>1, <1>2, <1>3, <1>4
<1>7. CASE cut < end
  <2>1. PICK k \in Unattributed : hist[k] = cut + 1
    BY <1>1, <1>7 DEF Cuts
  <2>2. k \in W /\ k \notin ids'
    BY <1>1, <1>2, <1>3, <2>1
  <2>3. whole \subseteq ids'
    BY <1>1, <1>2, <1>3, <1>4, <2>1, <2>2
  <2>4. ids' = whole
    BY <1>6, <2>3
  <2> QED
    BY <1>2, <1>5, <1>7, <2>2, <2>4 DEF W
<1>8. CASE cut = end /\ end = top
  <2>1. ids' = W
    BY <1>1, <1>2, <1>3, <1>8
  <2>2. whole \subseteq W
    BY <1>4
  <2>3. ids' = whole
    BY <1>6, <2>1, <2>2
  <2>4. ~(cut < end \/ Capped(length', end))
    BY <1>1, <1>2, <1>8 DEF Capped
  <2> QED
    BY <1>2, <1>5, <2>1, <2>3, <2>4 DEF W
<1>9. CASE cut = end /\ end # top
  <2>1. end < top /\ Capped(length', end) /\ length' >= IdCap
    BY <1>1, <1>2, <1>9 DEF Capped
  <2>2. PICK k \in Messages : hist[k] = end
    BY <1>1, <1>2, <2>1 DEF IInv, Dense, Typed
  <2>3. k \in ids' /\ k \in whole
    BY <1>1, <1>2, <1>6, <1>9, <2>1, <2>2
  <2>4. ids' = Listing!UpTo(whole, hist, hist[k])
    BY <1>1, <1>2, <1>3, <1>4, <1>6, <1>9, <2>2 DEF Listing!UpTo
  <2>5. Cardinality(ids') + Cardinality(Listing!Of(ids', hist, record)) >= IdCap
    BY <1>1, <2>1 DEF Of, Listing!Of
  <2>6. Listing!Cardinality(ids') + Listing!Cardinality(Listing!Of(ids', hist, record)) >= IdCap
    BY <2>5, SameCardinality
  <2>7. PICK j \in Messages : hist[j] = end + 1
    BY <1>1, <1>2, <2>1 DEF IInv, Dense, Typed
  <2>8. j \in W /\ j \notin ids'
    BY <1>1, <1>2, <1>3, <1>9, <2>1, <2>7
  <2>9. ids' \in Listing!Listings(W, hist, Unattributed, IdCap, record)
    BY <2>3, <2>4, <2>6 DEF Listing!Listings, whole
  <2> QED
    BY <1>2, <2>1, <2>8, <2>9 DEF W
<1> QED
  BY <1>1, <1>7, <1>8, <1>9

LEMMA PageImplements == IInv /\ PageArrives => [Listing!LNext]_(Listing!lvars)
<1> SUFFICES ASSUME IInv, PageArrives PROVE [Listing!LNext]_(Listing!lvars)
  OBVIOUS
<1>1. PICK end \in PageEnds : \E cut \in Cuts(end) : \E record \in Repeats :
             PageRead(cut, record) /\ PageEnded(cut, end)
  BY DEF PageArrives
<1>2. PICK cut \in Cuts(end) : \E record \in Repeats :
             PageRead(cut, record) /\ PageEnded(cut, end)
  BY <1>1
<1>3. PICK record \in Repeats : PageRead(cut, record) /\ PageEnded(cut, end)
  BY <1>2
<1>4. pc = "calling" /\ start >= retained /\ UNCHANGED <<mailbox, start>>
  BY DEF PageArrives
<1>5. again' = record
  BY <1>3 DEF PageRead
<1> DEFINE S == ids'
<1>6. CASE cut < end \/ Capped(length', end)
  <2>1. /\ S \in Listing!Listings(Listing!Window, hist, Unattributed, IdCap, record)
        /\ record \in 0..top /\ S # Listing!Window
    BY <1>3, <1>4, <1>6, PageAnswers
  <2>2. pc' = "idle" /\ answer' = Listing!Enumerated(S, record, TRUE)
    BY <1>3, <1>5, <1>6 DEF PageEnded, Return
  <2>3. answer' = Listing!Enumerated(S, record, S # Listing!Window)
    BY <2>1, <2>2
  <2> QED
    BY <1>4, <2>1, <2>2, <2>3 DEF Listing!LNext, Listing!Answer, mailbox
<1>7. CASE ~(cut < end) /\ ~Capped(length', end) /\ end = top
  <2>1. /\ S \in Listing!Listings(Listing!Window, hist, Unattributed, IdCap, record)
        /\ record \in 0..top /\ S = Listing!Window
    BY <1>3, <1>4, <1>7, PageAnswers
  <2>2. pc' = "idle" /\ answer' = Listing!Enumerated(S, record, FALSE)
    BY <1>3, <1>5, <1>7 DEF PageEnded, Return
  <2>3. answer' = Listing!Enumerated(S, record, S # Listing!Window)
    BY <2>1, <2>2
  <2> QED
    BY <1>4, <2>1, <2>2, <2>3 DEF Listing!LNext, Listing!Answer, mailbox
<1>8. CASE ~(cut < end) /\ ~Capped(length', end) /\ end # top
  BY <1>3, <1>4, <1>8 DEF PageEnded, Listing!lvars, mailbox
<1> QED
  BY <1>6, <1>7, <1>8

LEMMA StepImplements == IInv /\ [Next]_vars => [Listing!LNext]_(Listing!lvars)
<1> SUFFICES ASSUME IInv, [Next]_vars PROVE [Listing!LNext]_(Listing!lvars)
  OBVIOUS
<1>1. CASE Call
  BY <1>1 DEF Call, mailbox, Listing!LNext, Listing!Ask
<1>2. CASE PageArrives
  BY <1>2, PageImplements
<1>3. CASE TryAgain
  BY <1>3 DEF TryAgain, mailbox, Listing!lvars
<1>4. CASE Throw
  BY <1>4 DEF Throw, Return, mailbox, Listing!LNext, Listing!Answer
<1>5. CASE NotFound
  BY <1>5 DEF NotFound, Return, mailbox, Listing!LNext, Listing!Answer
<1>6. CASE Deliver
  <2>1. PICK final \in {m \in Messages : hist[m] = 0} :
          LET block == {m \in Messages : hist[m] = 0 /\ m <= final}
          IN  /\ Cardinality(block) <= MaxRecord
              /\ top' = top + 1
              /\ hist' = [m \in Messages |-> IF m \in block THEN top + 1 ELSE hist[m]]
    BY <1>6 DEF Deliver
  <2> DEFINE block == {m \in Messages : hist[m] = 0 /\ m <= final}
  <2>2. Listing!Cardinality(block) <= MaxRecord
    BY <2>1, SameCardinality
  <2>3. UNCHANGED <<retained, start, answer, pc>>
    BY <1>6 DEF Deliver
  <2>4. Listing!Deliver
    BY <2>1, <2>2, <2>3 DEF Listing!Deliver
  <2> QED
    BY <2>4 DEF Listing!LNext
<1>7. CASE Expire
  BY <1>7 DEF Expire, Listing!LNext, Listing!Expire
<1>8. CASE UNCHANGED vars
  BY <1>8 DEF vars, mailbox, Listing!lvars
<1> QED
  BY <1>1, <1>2, <1>3, <1>4, <1>5, <1>6, <1>7, <1>8 DEF Next, Step

(* getHistory, page by page, implements the one look at the mailbox that the  *)
(* poll loop takes it for (gmail.js 403-492).                                 *)
THEOREM PagingIsOneListing == Spec => AnswersAsOneListing
<1>1. Init => Listing!LInit
  BY DEF Init, Listing!LInit
<1> QED
  BY <1>1, InitIInv, NextIInv, StepImplements, PTL DEF Spec, AnswersAsOneListing, Listing!LSpec
=============================================================================
