----------------------------- MODULE GmailHistory -----------------------------
(***************************************************************************)
(* GmailClient.getHistory of src/gmail.js page by page, with the retries   *)
(* of withRetry: while the pages are read mail arrives, calls fail, the    *)
(* history may expire, and a page may begin with the record the page       *)
(* before it ended with.                                                   *)
(*                                                                         *)
(* HistoryListing is what PollCycle takes this to be.                      *)
(***************************************************************************)
EXTENDS HistoryWindow

CONSTANTS
    Messages, Unattributed, IdCap, MaxRecord,   \* as in HistoryListing
    PageMax,         \* maxResults: records of one page
    MaxTries         \* MAX_ATTEMPTS of withRetry

ASSUME PagesAssumption == PageMax \in Nat \ {0} /\ MaxTries \in Nat \ {0}

VARIABLES
    hist, top, retained, start, answer,         \* as in HistoryListing
    pc,              \* "calling" while a call is under way, else "idle"
    ids, length,     \* the ids enumerated, and ids.length
    again,           \* a record that was listed twice, or 0
    last,            \* lastEnumeratedHistoryId, or 0
    pageToken,       \* the record the next page goes on after, or 0
    attempt          \* of withRetry, for the page being asked for

mailbox == <<hist, top, retained>>
locals == <<ids, length, again, last, pageToken>>
vars == <<mailbox, start, answer, pc, locals, attempt>>

Listing == INSTANCE HistoryListing WITH busy <- pc = "calling"

ASSUME MailboxAssumption ==
    /\ Messages \subseteq Nat /\ IsFiniteSet(Messages) /\ Unattributed \subseteq Messages
    /\ IdCap \in Nat \ {0} /\ MaxRecord \in Nat \ {0}

Init ==
    /\ hist = [m \in Messages |-> 0] /\ top = 1 /\ retained = 0
    /\ start = 1 /\ answer = Listing!None /\ pc = "idle"
    /\ ids = {} /\ length = 0 /\ again = 0 /\ last = 0 /\ pageToken = 0 /\ attempt = 0

Call ==
    /\ pc = "idle" /\ pc' = "calling"
    /\ start' \in 1..top /\ answer' = Listing!None
    /\ ids' = {} /\ length' = 0 /\ again' = 0 /\ last' = 0 /\ pageToken' = 0 /\ attempt' = 0
    /\ UNCHANGED mailbox

Return(result) == pc' = "idle" /\ answer' = result

-----------------------------------------------------------------------------
(* A page: some records after where the last one ended, perhaps with that     *)
(* last record once more in front.                                            *)
From == IF pageToken = 0 THEN start ELSE pageToken
PageEnds == IF From = top THEN {top}
            ELSE From + 1 .. IF From + PageMax < top THEN From + PageMax ELSE top
Repeats == IF pageToken = 0 \/ again # 0 THEN {again} ELSE {again, pageToken}

(* The last record read: that of the page's end, or the one before the first  *)
(* record without an id.                                                      *)
Cuts(end) ==
    {cut \in From..end :
        /\ \A k \in Unattributed : ~(From < hist[k] /\ hist[k] <= cut)
        /\ cut = end \/ \E k \in Unattributed : hist[k] = cut + 1}

(* Mutated: the ids are cut at the cap, in the middle of a record. *)
ReadSliced(cut) ==
    LET page == {m \in Messages : From < hist[m] /\ hist[m] <= cut}
    IN  {m \in page : Cardinality(ids \cup {k \in page : k <= m}) <= IdCap}
Read(cut) == {m \in Messages : From < hist[m] /\ hist[m] <= cut}

(* Mutated: 500 of 500 is taken for 500 of more. *)
CappedAnyway(n, end) == n >= IdCap
(* The cap counts only if there is a next page. *)
Capped(n, end) == n >= IdCap /\ end < top

(* The records of a page, the one listed again included, are enumerated. *)
PageRead(cut, record) ==
    LET twice == IF record = again THEN {} ELSE Of(ids, hist, record)
    IN  /\ ids' = ids \cup Read(cut)
        /\ length' = length + Cardinality(twice) + Cardinality(Read(cut))
        /\ again' = record
        /\ last' = IF cut = From THEN last ELSE cut

(* The window ends early, or it is complete, or the next page is asked for. *)
PageEnded(cut, end) ==
    \/ /\ cut < end \/ Capped(length', end)
       /\ Return(Listing!Enumerated(ids', again', TRUE)) /\ UNCHANGED pageToken
    \/ /\ ~(cut < end) /\ ~Capped(length', end) /\ end = top
       /\ Return(Listing!Enumerated(ids', again', FALSE)) /\ UNCHANGED pageToken
    \/ /\ ~(cut < end) /\ ~Capped(length', end) /\ end # top
       /\ pageToken' = end /\ UNCHANGED <<pc, answer>>

PageArrives ==
    /\ pc = "calling" /\ start >= retained
    /\ \E end \in PageEnds : \E cut \in Cuts(end) : \E record \in Repeats :
          PageRead(cut, record) /\ PageEnded(cut, end)
    /\ attempt' = 0
    /\ UNCHANGED <<mailbox, start>>

(* Mutated: the count starts over instead of reaching the last try. *)
TryForever ==
    /\ pc = "calling"
    /\ attempt' = IF attempt + 1 < MaxTries THEN attempt + 1 ELSE 0
    /\ UNCHANGED <<mailbox, start, answer, pc, locals>>
(* 429, 5xx or a network error: withRetry asks again, up to MaxTries times. *)
TryAgain ==
    /\ pc = "calling" /\ attempt + 1 < MaxTries
    /\ attempt' = attempt + 1
    /\ UNCHANGED <<mailbox, start, answer, pc, locals>>

(* The last try, or an error that is not retried: the pages read are dropped. *)
Throw ==
    /\ pc = "calling"
    /\ Return(Listing!Failed)
    /\ UNCHANGED <<mailbox, start, locals, attempt>>

(* Each page asks for the records since start, so each may find it expired. *)
NotFound ==
    /\ pc = "calling" /\ start < retained
    /\ Return(Listing!Expired)
    /\ UNCHANGED <<mailbox, start, locals, attempt>>

Deliver ==
    /\ \E final \in {m \in Messages : hist[m] = 0} :
          LET block == {m \in Messages : hist[m] = 0 /\ m <= final}
          IN  /\ Cardinality(block) <= MaxRecord
              /\ top' = top + 1
              /\ hist' = [m \in Messages |-> IF m \in block THEN top + 1 ELSE hist[m]]
    /\ UNCHANGED <<retained, start, answer, pc, locals, attempt>>

Expire ==
    /\ retained < top /\ retained' = top
    /\ UNCHANGED <<hist, top, start, answer, pc, locals, attempt>>

Step == PageArrives \/ TryAgain \/ Throw \/ NotFound
Next == Call \/ Step \/ Deliver \/ Expire
Spec == Init /\ [][Next]_vars

(* A call that was begun goes on: an answer or an error arrives. *)
FairSpec == Spec /\ WF_vars(Step)

-----------------------------------------------------------------------------
(* gmail.js 437-452: whatever mail arrives between the pages, and wherever    *)
(* they are cut, the ids enumerated so far are all the messages of whole      *)
(* records after the cursor up to lastEnumeratedHistoryId, and the next page  *)
(* goes on right behind it.                                                   *)
NoHoles ==
    /\ ids = {m \in Messages : start < hist[m] /\ hist[m] <= last}
    /\ pc = "calling" /\ pageToken # 0 => pageToken = last

(* gmail.js 403-412, 470-474: however the pages, retries and arrivals fall,   *)
(* the call answers as if it had looked at the mailbox once: all records, or  *)
(* `truncated` and a long enough prefix of whole ones, truncated only if more *)
(* was waiting; and null only for an expired cursor.                          *)
AnswersAsOneListing == Listing!LSpec

(* gmail.js 261-282: the call comes back, with an answer or an error. *)
CallReturns == pc = "calling" ~> pc = "idle"
=============================================================================
