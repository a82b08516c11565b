----------------------------- MODULE OcrDocument -----------------------------
(***************************************************************************)
(* ocrImagePdf() and ocrImage() of src/ocr.js: documents are read by a     *)
(* paid API, several at a time, and a PDF too large for one call is read   *)
(* window by window: the caller continues behind the pages the last result *)
(* claims, for as long as that result says it is partial.                  *)
(*                                                                         *)
(* Each answer is parsed, and its dates pass the guard of DocumentDates.   *)
(*                                                                         *)
(* The callers (the producers) are not in src/: what they do is taken from *)
(* the comments on startPage, on ocrPartial and on the failure reasons.    *)
(***************************************************************************)
EXTENDS Integers, DocumentDates

CONSTANTS
    Docs,
    Images,     \* the documents that are images, for ocrImage
    Oversized,  \* those above MAX_FILE_SIZE
    Pages,      \* how many pages a document has
    Uncounted,  \* documents whose pages pdfinfo cannot count
    Fit,        \* how many pages from a page on make an extract under the cap
    Steps,      \* window sizes the splitter tries: 20, 12, 8, 5, 3
    Readings,   \* what the model may answer of a document: text and dates
    PastEnd,    \* what gs does behind the last page: "throws", "empty"
    CallCost,   \* what a call costs at most
    Cap,        \* the daily cap of the caller's costTracker
    MaxErrors,  \* failing API calls, a bound of the model
    MaxStart    \* no caller continues behind this page, a bound of the model

ASSUME DocsAssumption ==
    /\ IsFiniteSet(Docs)
    /\ Images \subseteq Docs /\ Oversized \subseteq Docs /\ Uncounted \subseteq Docs
    /\ Pages \in [Docs -> Nat \ {0}]
    /\ \A d \in Docs : \A p \in 1..Pages[d] : Fit[d][p] \in Nat
    /\ Readings \in [Docs -> SUBSET [text : Texts, parsed : Results]]
ASSUME LimitsAssumption ==
    /\ Steps \subseteq Nat \ {0} /\ IsFiniteSet(Steps)
    /\ CallCost \in Nat /\ Cap \in Nat /\ MaxErrors \in Nat /\ MaxStart \in Nat

VARIABLES
    start,    \* opts.startPage of the document's next call
    asked,    \* the calls whose answer is awaited, by document
    shown,    \* history: pages an answered call has shown the model
    outcome,  \* "open"; "whole": a result said not partial; "partial"; "failed"
    result,   \* the dates of the result just returned, or Unparsed
    spent,    \* costTracker: recorded since the day began
    errors

vars == <<start, asked, shown, outcome, result, spent, errors>>

(* The call's window: what the result will claim (total 0: null), and the    *)
(* pages that are really in the buffer.                                      *)
Window(first, extracted, total, pages) ==
    [split |-> TRUE, first |-> first, extracted |-> extracted, total |-> total, pages |-> pages]
WholeFile(d) ==
    [split |-> FALSE, first |-> 1, extracted |-> 0, total |-> 0, pages |-> 1..Pages[d]]
NoCall == [split |-> FALSE, first |-> 0, extracted |-> 0, total |-> 0, pages |-> {}]
Unparsed == [text |-> Null, parsed |-> Null, kept |-> Null]
Asked == {d \in Docs : asked[d] # NoCall}

Least(a, b) == IF a < b THEN a ELSE b
PagesTotal(d) == IF d \in Uncounted THEN 0 ELSE Pages[d]
(* The page counts whose extract is under the cap; behind the end all are.   *)
Fitting(d, first) == {n \in Steps : first > Pages[d] \/ n <= Fit[d][first]}

(* Mutated: an off-by-one in how many pages are left. *)
PagesExtractedShort(d, first, n) ==
    IF d \in Uncounted THEN n ELSE Least(n, Pages[d] - first)
(* "Asking for 20 pages starting at 61 of a 78-page document yields 18." *)
PagesExtracted(d, first, n) ==
    IF d \in Uncounted THEN n ELSE Least(n, Pages[d] - first + 1)

(* defaultPdfSplitter: the largest window that fits, and how it fails.       *)
Extracts(d, first) ==
    {Window(first, PagesExtracted(d, first, n), PagesTotal(d), first..Least(first + n - 1, Pages[d])) :
        n \in {n \in Fitting(d, first) :
                 /\ \A k \in Fitting(d, first) : k <= n
                 /\ first <= Pages[d] \/ (d \in Uncounted /\ "empty" \in PastEnd)}}
NothingToExtract(d, first) ==
    \/ Fitting(d, first) = {}
    \/ first > Pages[d] /\ (d \notin Uncounted \/ "throws" \in PastEnd)

-----------------------------------------------------------------------------
NeedsSplit(d) == d \notin Images /\ (d \in Oversized \/ start[d] > 1)
Ready(d) == outcome[d] = "open" /\ d \notin Asked

(* image_too_large, split_unavailable: no later call can do better. *)
CannotBeSent(d) ==
    /\ Ready(d)
    /\ IF d \in Images THEN d \in Oversized
                       ELSE NeedsSplit(d) /\ NothingToExtract(d, start[d])
    /\ outcome' = [outcome EXCEPT ![d] = "failed"] /\ result' = Unparsed
    /\ UNCHANGED <<start, asked, shown, spent, errors>>

CapReached == spent >= Cap
(* Mutated: the cap is not looked at. *)
SendsAnyway(d, window) == asked' = [asked EXCEPT ![d] = window]
(* A call the cap refuses (cost_cap) changes nothing: the caller tries again. *)
Sends(d, window) == /\ ~CapReached
                    /\ asked' = [asked EXCEPT ![d] = window]
Ask(d) ==
    /\ Ready(d)
    /\ IF NeedsSplit(d)
       THEN start[d] <= MaxStart /\ \E window \in Extracts(d, start[d]) : Sends(d, window)
       ELSE ~(d \in Images /\ d \in Oversized) /\ Sends(d, WholeFile(d))
    /\ result' = Unparsed
    /\ UNCHANGED <<start, shown, outcome, spent, errors>>

(* Mutated: an off-by-one in what remains. *)
PartialShort(w, truncated) ==
    \/ w.split /\ w.total # 0 /\ w.first + w.extracted < w.total
    \/ w.split /\ w.total = 0
    \/ truncated
(* success(): "partial if pages remain beyond this window", if the end is not *)
(* known, or if the model's answer was cut off.                               *)
ocrPartial(w, truncated) ==
    \/ w.split /\ w.total # 0 /\ w.first + w.extracted - 1 < w.total
    \/ w.split /\ w.total = 0
    \/ truncated

Continue(w) == w.first + w.extracted

Record == spent' = spent + CallCost
(* parseOcrResponse: an answer that is no JSON has no dates, only a text. *)
Parse(d) ==
    \/ result' = Unparsed
    \/ \E r \in Readings[d] :
          result' = [text |-> r.text, parsed |-> r.parsed,
                     kept |-> guardDocumentDates(r.parsed, r.text)]
(* The answer: its cost is recorded, and the caller acts on the result. *)
Answer(d, truncated) ==
    /\ d \in Asked
    /\ Record /\ Parse(d)
    /\ shown' = [shown EXCEPT ![d] = @ \cup asked[d].pages]
    /\ asked' = [asked EXCEPT ![d] = NoCall]
    /\ IF ocrPartial(asked[d], truncated)
       THEN IF asked[d].split
            THEN start' = [start EXCEPT ![d] = Continue(asked[d])] /\ UNCHANGED outcome
            ELSE outcome' = [outcome EXCEPT ![d] = "partial"] /\ UNCHANGED start
       ELSE outcome' = [outcome EXCEPT ![d] = "whole"] /\ UNCHANGED start
    /\ UNCHANGED errors

(* api_error: nothing is recorded, and the same window is asked for again. *)
ApiError(d) ==
    /\ d \in Asked /\ errors < MaxErrors
    /\ errors' = errors + 1 /\ result' = Unparsed
    /\ asked' = [asked EXCEPT ![d] = NoCall]
    /\ UNCHANGED <<start, shown, outcome, spent>>

NextDay ==
    /\ spent # 0 /\ spent' = 0 /\ result' = Unparsed
    /\ UNCHANGED <<start, asked, shown, outcome, errors>>

Init ==
    /\ start = [d \in Docs |-> 1] /\ asked = [d \in Docs |-> NoCall]
    /\ shown = [d \in Docs |-> {}] /\ outcome = [d \in Docs |-> "open"]
    /\ result = Unparsed /\ spent = 0 /\ errors = 0

Serve(d) == CannotBeSent(d) \/ Ask(d) \/ (\E truncated \in BOOLEAN : Answer(d, truncated))
Next == (\E d \in Docs : Serve(d) \/ ApiError(d)) \/ NextDay

Spec == Init /\ [][Next]_vars
(* Callers come back for what is open, calls return, and a new day begins. *)
FairSpec == Spec /\ WF_vars(NextDay) /\ \A d \in Docs : WF_vars(Serve(d))

-----------------------------------------------------------------------------
Windows == [split : BOOLEAN, first : Nat, extracted : Nat, total : Nat, pages : SUBSET Nat]
TypeOK ==
    /\ start \in [Docs -> Nat \ {0}] /\ asked \in [Docs -> Windows]
    /\ shown \in [Docs -> SUBSET Nat]
    /\ outcome \in [Docs -> {"open", "whole", "partial", "failed"}]
    /\ result = Unparsed \/ result \in [text : Texts, parsed : Results, kept : Results]
    /\ spent \in Nat /\ errors \in Nat

(* success() and the contract's ocrPartial: a chain of results that ends in   *)
(* one that is not partial has shown the model every page of the document.    *)
WholeMeansEveryPage ==
    \A d \in Docs : outcome[d] = "whole" => shown[d] = 1..Pages[d]

(* ocr.js 464-465: startPage "lets a caller CONTINUE a partial read instead   *)
(* of retrying it (identically, for the same money)": no page that an         *)
(* answered call has shown is sent again.                                     *)
NoPagePaidTwice == \A d \in Docs : asked[d].pages \cap shown[d] = {}

(* ocr.js 98-101: what a window's result claims is what its buffer holds,     *)
(* whenever the document's pages could be counted.                            *)
ClaimsWhatWasSent ==
    \A d \in Asked : asked[d].total # 0 =>
        asked[d].pages = asked[d].first .. (asked[d].first + asked[d].extracted - 1)

(* ocr.js 498, 556: the cap is looked at before the call and the cost is      *)
(* recorded after it, so calls under way together overshoot it; but by less   *)
(* than one call per document, not without limit.                             *)
OvershootIsBounded ==
    spent + CallCost * Cardinality(Asked) <= Cap + CallCost * Cardinality(Docs)

(* The dates of every result a caller is handed are those a sound guard left. *)
DatesAreSound == result = Unparsed \/ Sound(result.parsed, result.kept, result.text)

(* ocr.js 73-78, 84-86: a document whose pages can be counted is settled      *)
(* after finitely many calls, whatever is cut off on the way.                 *)
CountedDocumentsSettle == \A d \in Docs \ Uncounted : <>(outcome[d] # "open")
=============================================================================
