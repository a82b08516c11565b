-------------------------- MODULE OcrDocumentProofs --------------------------
(***************************************************************************)
(* For every set of documents, page counts, extracts and answers: the      *)
(* windows of a document follow one another from its first page without a  *)
(* gap or an overlap, a result that is not partial ends them at the last   *)
(* page, and the calls under way overshoot the cap by a bounded amount.    *)
(***************************************************************************)
EXTENDS OcrDocument, FiniteSetTheorems, TLAPS

USE DocsAssumption, LimitsAssumption, DatesAssumption

(* The labelled date, where there is one, is a document's date and no birth date. *)
LEMMA LabelledIsDocument ==
    ASSUME NEW text \in Texts
    PROVE  Labelled(text) \in {Null} \cup (doc(text) \ birth(text))
BY DEF Labelled

LEMMA DocAreDates ==
    ASSUME NEW text \in Texts
    PROVE  doc(text) \subseteq Dates /\ birth(text) \subseteq Dates
BY DEF doc, birth, Texts, Mentions

(* guardDocumentDates (ocr.js 262-319), for every text and every answer. *)
THEOREM GuardIsSound ==
    ASSUME NEW text \in Texts, NEW parsed \in Results
    PROVE  Sound(parsed, guardDocumentDates(parsed, text), text)
<1> DEFINE kept == guardDocumentDates(parsed, text)
<1>1. kept = [service |-> kept.service, date |-> kept.date]
  BY DEF guardDocumentDates
<1>2. kept.service = IF BirthOnly(parsed.service, text) THEN Null ELSE parsed.service
  BY DEF guardDocumentDates
<1>3. kept.date = IF ~BirthOnly(parsed.date, text) THEN parsed.date
                  ELSE IF kept.service # Null THEN kept.service ELSE Labelled(text)
  BY DEF guardDocumentDates
<1>4. ~BirthOnly(Null, text) /\ (\A d \in doc(text) : ~BirthOnly(d, text))
  BY DEF BirthOnly
<1>5. Labelled(text) \in {Null} \cup doc(text)
  BY LabelledIsDocument
<1> HIDE DEF kept
<1>6. ~BirthOnly(kept.service, text) /\ ~BirthOnly(kept.date, text)
  BY <1>2, <1>3, <1>4, <1>5
<1>7. guardDocumentDates(kept, text) = kept
  BY <1>1, <1>6 DEF guardDocumentDates
<1>8. /\ parsed.date \in doc(text) => kept.date = parsed.date
      /\ parsed.service \in doc(text) => kept.service = parsed.service
  BY <1>2, <1>3, <1>4
<1>9. kept.date \in {parsed.date, parsed.service, Null} \cup doc(text)
  BY <1>2, <1>3, <1>5
<1> QED BY <1>6, <1>7, <1>8, <1>9 DEF Sound, kept

-----------------------------------------------------------------------------
(* A call's window follows what was shown, and claims what it holds. *)
FollowsOn(d, w) ==
    IF w.split
    THEN /\ d \notin Images
         /\ w.first = start[d] /\ w.extracted \in Nat \ {0}
         /\ w.pages = {p \in 1..Pages[d] : start[d] <= p /\ p < start[d] + w.extracted}
         /\ w.total # 0 => w.total = Pages[d] /\ start[d] + w.extracted - 1 <= Pages[d]
    ELSE w = WholeFile(d) /\ start[d] = 1

(* An open document was shown up to where its next call starts. *)
ShownSoFar ==
    \A d \in Docs : outcome[d] = "open" => shown[d] = {p \in 1..Pages[d] : p < start[d]}
CallsFollowOn ==
    \A d \in Docs : d \in Asked => outcome[d] = "open" /\ FollowsOn(d, asked[d])
ImagesAreWhole == \A d \in Images : start[d] = 1

IInv ==
    /\ TypeOK /\ ShownSoFar /\ CallsFollowOn /\ ImagesAreWhole /\ WholeMeansEveryPage
    /\ DatesAreSound

LEMMA ExtractFollowsOn ==
    ASSUME TypeOK, NEW d \in Docs \ Images, NEW w \in Extracts(d, start[d])
    PROVE  w \in Windows /\ w # NoCall /\ FollowsOn(d, w)
<1> DEFINE first == start[d]
<1>1. PICK n \in Fitting(d, first) :
        /\ w = Window(first, PagesExtracted(d, first, n), PagesTotal(d),
                      first..Least(first + n - 1, Pages[d]))
        /\ first <= Pages[d] \/ d \in Uncounted
  BY DEF Extracts
<1>2. n \in Nat \ {0} /\ first \in Nat \ {0} /\ Pages[d] \in Nat \ {0}
  BY <1>1 DEF Fitting, TypeOK
<1>3. PagesExtracted(d, first, n) \in Nat \ {0}
  BY <1>1, <1>2 DEF PagesExtracted, Least
<1>4. first..Least(first + n - 1, Pages[d])
        = {p \in 1..Pages[d] : first <= p /\ p < first + PagesExtracted(d, first, n)}
  BY <1>1, <1>2 DEF PagesExtracted, Least
<1>5. PagesTotal(d) # 0 => /\ PagesTotal(d) = Pages[d]
                           /\ first + PagesExtracted(d, first, n) - 1 <= Pages[d]
  BY <1>1, <1>2 DEF PagesExtracted, PagesTotal, Least
<1>6. PagesTotal(d) \in Nat
  BY <1>2 DEF PagesTotal
<1> QED BY <1>1, <1>2, <1>3, <1>4, <1>5, <1>6 DEF Window, Windows, NoCall, FollowsOn

LEMMA WholeFileIsWindow ==
    ASSUME NEW d \in Docs
    PROVE  WholeFile(d) \in Windows /\ WholeFile(d) # NoCall /\ ~WholeFile(d).split
BY DEF WholeFile, Windows, NoCall

LEMMA NoCallIsWindow == NoCall \in Windows
BY DEF Windows, NoCall

LEMMA GuardType ==
    ASSUME NEW text \in Texts, NEW parsed \in Results
    PROVE  guardDocumentDates(parsed, text) \in Results
<1>1. Labelled(text) \in Dates \cup {Null}
  BY LabelledIsDocument, DocAreDates
<1> QED BY <1>1 DEF guardDocumentDates, Results

(* What parsing leaves is typed, and its dates passed the guard. *)
LEMMA ParseIsSound ==
    ASSUME NEW d \in Docs, Parse(d)
    PROVE  /\ \/ result' = Unparsed
              \/ result' \in [text : Texts, parsed : Results, kept : Results]
           /\ DatesAreSound'
<1>1. CASE result' = Unparsed
  BY <1>1 DEF DatesAreSound, Unparsed
<1>2. CASE result' # Unparsed
  <2>1. PICK r \in Readings[d] :
           result' = [text |-> r.text, parsed |-> r.parsed,
                      kept |-> guardDocumentDates(r.parsed, r.text)]
    BY <1>2 DEF Parse
  <2>2. r.text \in Texts /\ r.parsed \in Results
    BY DocsAssumption
  <2>3. Sound(r.parsed, guardDocumentDates(r.parsed, r.text), r.text)
    BY <2>2, GuardIsSound
  <2>4. guardDocumentDates(r.parsed, r.text) \in Results
    BY <2>2, GuardType
  <2> QED BY <2>1, <2>2, <2>3, <2>4 DEF DatesAreSound
<1> QED BY <1>1, <1>2

LEMMA InitIInv == Init => IInv
<1> SUFFICES ASSUME Init PROVE IInv
  OBVIOUS
<1>1. TypeOK
  BY NoCallIsWindow DEF Init, TypeOK
<1>2. ShownSoFar
  BY DEF Init, ShownSoFar
<1>3. CallsFollowOn
  BY DEF Init, CallsFollowOn, Asked
<1> QED
  BY <1>1, <1>2, <1>3
  DEF IInv, Init, ImagesAreWhole, WholeMeansEveryPage, DatesAreSound

(* The calls of the other documents, and theirs, are as they were. *)
LEMMA UnchangedKeeps ==
    ASSUME IInv, UNCHANGED <<start, asked, shown, outcome>>, DatesAreSound',
           result' = Unparsed, spent' \in Nat, errors' \in Nat
    PROVE  IInv'
<1>1. TypeOK'
  BY DEF IInv, TypeOK
<1>2. ShownSoFar' /\ CallsFollowOn' /\ ImagesAreWhole' /\ WholeMeansEveryPage'
  BY DEF IInv, ShownSoFar, CallsFollowOn, ImagesAreWhole, WholeMeansEveryPage, Asked, FollowsOn
<1> QED BY <1>1, <1>2 DEF IInv

LEMMA AskKeeps ==
    ASSUME IInv, NEW d \in Docs, Ask(d)
    PROVE  IInv'
<1>1. PICK w \in Windows : asked' = [asked EXCEPT ![d] = w] /\ w # NoCall /\ FollowsOn(d, w)
  <2>1. CASE NeedsSplit(d)
    <3>1. PICK w \in Extracts(d, start[d]) : asked' = [asked EXCEPT ![d] = w]
      BY <2>1 DEF Ask, Sends
    <3>2. d \notin Images
      BY <2>1 DEF NeedsSplit
    <3> QED BY <3>1, <3>2, ExtractFollowsOn DEF IInv
  <2>2. CASE ~NeedsSplit(d)
    <3>1. asked' = [asked EXCEPT ![d] = WholeFile(d)]
      BY <2>2 DEF Ask, Sends
    <3>2. start[d] = 1
      BY <2>2 DEF NeedsSplit, IInv, TypeOK, ImagesAreWhole
    <3> QED BY <3>1, <3>2, WholeFileIsWindow DEF FollowsOn
  <2> QED BY <2>1, <2>2
<1>2. outcome[d] = "open" /\ result' = Unparsed
      /\ UNCHANGED <<start, shown, outcome, spent, errors>>
  BY DEF Ask, Ready
<1>3. TypeOK'
  BY <1>1, <1>2 DEF IInv, TypeOK
<1>4. CallsFollowOn'
  BY <1>1, <1>2 DEF IInv, TypeOK, CallsFollowOn, Asked, FollowsOn
<1>5. ShownSoFar' /\ ImagesAreWhole' /\ WholeMeansEveryPage' /\ DatesAreSound'
  BY <1>2 DEF IInv, ShownSoFar, ImagesAreWhole, WholeMeansEveryPage, DatesAreSound
<1> QED BY <1>3, <1>4, <1>5 DEF IInv

LEMMA AnswerKeeps ==
    ASSUME IInv, NEW d \in Docs, NEW truncated \in BOOLEAN, Answer(d, truncated)
    PROVE  IInv'
<1> DEFINE w == asked[d]
<1>1. /\ outcome[d] = "open" /\ FollowsOn(d, w) /\ w \in Windows
      /\ shown[d] = {p \in 1..Pages[d] : p < start[d]}
      /\ start[d] \in Nat \ {0} /\ Pages[d] \in Nat \ {0}
  BY DEF Answer, IInv, CallsFollowOn, ShownSoFar, TypeOK
<1>2. /\ shown' = [shown EXCEPT ![d] = @ \cup w.pages]
      /\ asked' = [asked EXCEPT ![d] = NoCall] /\ errors' = errors
      /\ spent' \in Nat
  BY DEF Answer, Record, IInv, TypeOK
<1>3. /\ result' = Unparsed \/ result' \in [text : Texts, parsed : Results, kept : Results]
      /\ DatesAreSound'
  BY ParseIsSound DEF Answer
<1>4. CASE ocrPartial(w, truncated) /\ w.split
  <2>1. start' = [start EXCEPT ![d] = start[d] + w.extracted] /\ outcome' = outcome
    BY <1>1, <1>4 DEF Answer, Continue, FollowsOn
  <2>2. w.extracted \in Nat \ {0} /\ d \notin Images
        /\ w.pages = {p \in 1..Pages[d] : start[d] <= p /\ p < start[d] + w.extracted}
    BY <1>1, <1>4 DEF FollowsOn
  <2>3. shown'[d] = {p \in 1..Pages[d] : p < start'[d]}
    BY <1>1, <1>2, <2>1, <2>2 DEF IInv, TypeOK
  <2>4. TypeOK'
    BY <1>1, <1>2, <1>3, <2>1, <2>2, NoCallIsWindow DEF IInv, TypeOK, Windows
  <2>5. ShownSoFar'
    BY <1>2, <2>1, <2>3 DEF IInv, TypeOK, ShownSoFar
  <2>6. CallsFollowOn'
    BY <1>2, <2>1 DEF IInv, TypeOK, CallsFollowOn, Asked, FollowsOn
  <2>7. ImagesAreWhole' /\ WholeMeansEveryPage'
    BY <1>1, <1>2, <2>1, <2>2 DEF IInv, TypeOK, ImagesAreWhole, WholeMeansEveryPage
  <2> QED BY <1>3, <2>4, <2>5, <2>6, <2>7 DEF IInv
<1>5. CASE ~(ocrPartial(w, truncated) /\ w.split)
  <2>1. PICK o \in {"whole", "partial"} :
           /\ outcome' = [outcome EXCEPT ![d] = o] /\ start' = start
           /\ o = "whole" => ~ocrPartial(w, truncated)
    BY <1>5 DEF Answer
  <2>2. o = "whole" => shown[d] \cup w.pages = 1..Pages[d]
    <3>1. CASE w.split
      BY <1>1, <2>1, <3>1 DEF ocrPartial, FollowsOn
    <3>2. CASE ~w.split
      BY <1>1, <3>2 DEF FollowsOn, WholeFile
    <3> QED BY <3>1, <3>2
  <2>3. TypeOK'
    BY <1>1, <1>2, <1>3, <2>1, NoCallIsWindow DEF IInv, TypeOK, Windows
  <2>4. ShownSoFar'
    BY <1>2, <2>1 DEF IInv, TypeOK, ShownSoFar
  <2>5. CallsFollowOn'
    BY <1>2, <2>1 DEF IInv, TypeOK, CallsFollowOn, Asked, FollowsOn
  <2>6. ImagesAreWhole' /\ WholeMeansEveryPage'
    BY <1>2, <2>1, <2>2 DEF IInv, TypeOK, ImagesAreWhole, WholeMeansEveryPage
  <2> QED BY <1>3, <2>3, <2>4, <2>5, <2>6 DEF IInv
<1> QED BY <1>4, <1>5

LEMMA FailureKeeps ==
    ASSUME IInv, NEW d \in Docs, CannotBeSent(d) \/ ApiError(d)
    PROVE  IInv'
<1>1. /\ result' = Unparsed /\ DatesAreSound' /\ errors' \in Nat
      /\ UNCHANGED <<start, shown, spent>>
      /\ \A e \in Docs : outcome'[e] = outcome[e] \/ outcome'[e] = "failed"
      /\ outcome' \in [Docs -> {"open", "whole", "partial", "failed"}]
      /\ asked' \in [Docs -> Windows]
  BY NoCallIsWindow DEF CannotBeSent, ApiError, DatesAreSound, IInv, TypeOK
<1>2. TypeOK'
  BY <1>1 DEF IInv, TypeOK
<1>3. ShownSoFar' /\ ImagesAreWhole' /\ WholeMeansEveryPage'
  BY <1>1 DEF IInv, ShownSoFar, ImagesAreWhole, WholeMeansEveryPage
<1>4. CallsFollowOn'
  <2>1. CASE CannotBeSent(d)
    BY <2>1 DEF CannotBeSent, Ready, IInv, TypeOK, CallsFollowOn, Asked, FollowsOn
  <2>2. CASE ApiError(d)
    BY <2>2 DEF ApiError, IInv, TypeOK, CallsFollowOn, Asked, FollowsOn
  <2> QED BY <2>1, <2>2
<1> QED BY <1>1, <1>2, <1>3, <1>4 DEF IInv

LEMMA NextIInv == IInv /\ [Next]_vars => IInv'
<1> SUFFICES ASSUME IInv, [Next]_vars PROVE IInv'
  OBVIOUS
<1>1. ASSUME NEW d \in Docs, Serve(d) PROVE IInv'
  BY <1>1, FailureKeeps, AskKeeps, AnswerKeeps DEF Serve
<1>2. ASSUME NEW d \in Docs, ApiError(d) PROVE IInv'
  BY <1>2, FailureKeeps
<1>3. CASE NextDay
  BY <1>3, UnchangedKeeps DEF NextDay, DatesAreSound, IInv, TypeOK
<1>4. CASE UNCHANGED vars
  BY <1>4 DEF vars, IInv, TypeOK, ShownSoFar, CallsFollowOn, ImagesAreWhole,
              WholeMeansEveryPage, DatesAreSound, Asked, FollowsOn
<1> QED BY <1>1, <1>2, <1>3, <1>4 DEF Next

LEMMA Inductive == Spec => []IInv
BY InitIInv, NextIInv, PTL DEF Spec

-----------------------------------------------------------------------------
(* A document's every page was shown before a result says it is not partial. *)
THEOREM WholeIsWhole == Spec => []WholeMeansEveryPage
<1>1. IInv => WholeMeansEveryPage
  BY DEF IInv
<1> QED BY <1>1, Inductive, PTL

(* A continuation never sends a page again that an answer was paid for. *)
THEOREM PagesArePaidOnce == Spec => []NoPagePaidTwice
<1>1. IInv => NoPagePaidTwice
  <2> SUFFICES ASSUME IInv, NEW d \in Docs PROVE asked[d].pages \cap shown[d] = {}
    BY DEF NoPagePaidTwice
  <2>1. CASE d \notin Asked
    BY <2>1 DEF Asked, NoCall
  <2>2. CASE d \in Asked
    <3>1. outcome[d] = "open" /\ FollowsOn(d, asked[d])
      BY <2>2 DEF IInv, CallsFollowOn
    <3>2. shown[d] = {p \in 1..Pages[d] : p < start[d]}
      BY <3>1 DEF IInv, ShownSoFar
    <3>3. start[d] \in Nat /\ Pages[d] \in Nat
      BY DocsAssumption DEF IInv, TypeOK
    <3>4. \A p \in asked[d].pages : p \in Nat /\ start[d] <= p
      BY <3>1, <3>3 DEF FollowsOn, WholeFile
    <3>5. \A p \in shown[d] : p < start[d]
      BY <3>2
    <3> QED BY <3>3, <3>4, <3>5
  <2> QED BY <2>1, <2>2
<1> QED BY <1>1, Inductive, PTL

(* What a result claims of a counted document is what was in the buffer. *)
THEOREM ClaimsAreTrue == Spec => []ClaimsWhatWasSent
<1>1. IInv => ClaimsWhatWasSent
  <2> SUFFICES ASSUME IInv, NEW d \in Asked, asked[d].total # 0
               PROVE  asked[d].pages =
                        asked[d].first .. (asked[d].first + asked[d].extracted - 1)
    BY DEF ClaimsWhatWasSent
  <2>1. asked[d].split /\ FollowsOn(d, asked[d]) /\ start[d] \in Nat \ {0}
    BY DEF Asked, IInv, TypeOK, CallsFollowOn, FollowsOn, WholeFile
  <2>2. /\ asked[d].first = start[d] /\ asked[d].extracted \in Nat \ {0}
        /\ start[d] + asked[d].extracted - 1 <= Pages[d] /\ Pages[d] \in Nat
        /\ asked[d].pages = {p \in 1..Pages[d] :
                               start[d] <= p /\ p < start[d] + asked[d].extracted}
    BY <2>1 DEF FollowsOn, Asked
  <2> QED BY <2>1, <2>2
<1> QED BY <1>1, Inductive, PTL

(* The dates of every result are those a sound guard left. *)
THEOREM ResultDatesAreSound == Spec => []DatesAreSound
<1>1. IInv => DatesAreSound
  BY DEF IInv
<1> QED BY <1>1, Inductive, PTL

LEMMA CostGrows ==
    ASSUME NEW j \in Nat, NEW k \in Nat, j <= k
    PROVE  CallCost * j <= CallCost * k
BY SMTT(30)

(* The calls under way and what they may still cost. *)
LEMMA AskedIsFinite ==
    /\ IsFiniteSet(Asked) /\ Cardinality(Asked) \in Nat /\ Cardinality(Docs) \in Nat
    /\ Cardinality(Asked) <= Cardinality(Docs)
<1>1. Asked \subseteq Docs
  BY DEF Asked
<1> QED BY <1>1, FS_Subset, FS_CardinalityType

LEMMA Fewer ==
    ASSUME NEW s \in Nat, NEW t \in Nat, NEW a \in Nat, NEW b \in Nat, NEW m \in Nat,
           t <= s, b <= a, s + a <= Cap + m
    PROVE  t + b <= Cap + m
OBVIOUS

(* spent < Cap when a call is sent, and every call may cost CallCost. *)
THEOREM OvershootIsLimited == Spec => []OvershootIsBounded
<1> DEFINE k == Cardinality(Asked)
<1>1. Init => OvershootIsBounded
  <2> SUFFICES ASSUME Init PROVE OvershootIsBounded
    OBVIOUS
  <2>1. spent = 0 /\ CallCost * k <= CallCost * Cardinality(Docs)
    BY AskedIsFinite, CostGrows DEF Init
  <2>2. CallCost * k \in Nat /\ CallCost * Cardinality(Docs) \in Nat
    BY AskedIsFinite
  <2> QED BY <2>1, <2>2 DEF OvershootIsBounded
<1>2. IInv /\ IInv' /\ OvershootIsBounded /\ [Next]_vars => OvershootIsBounded'
  <2> SUFFICES ASSUME IInv, IInv', OvershootIsBounded, [Next]_vars PROVE OvershootIsBounded'
    OBVIOUS
  <2> DEFINE n == Cardinality(Asked')
             most == CallCost * Cardinality(Docs)
  <2>1. /\ k \in Nat /\ n \in Nat /\ spent \in Nat /\ spent' \in Nat
        /\ IsFiniteSet(Asked) /\ IsFiniteSet(Asked')
        /\ n <= Cardinality(Docs)
    <3>1. Asked' \subseteq Docs
      BY DEF Asked
    <3> QED BY <3>1, AskedIsFinite, FS_Subset, FS_CardinalityType DEF IInv, TypeOK
  <2>2. CallCost * k \in Nat /\ CallCost * n \in Nat /\ most \in Nat
    BY <2>1, AskedIsFinite
  <2>3. spent + CallCost * k <= Cap + most
    BY DEF OvershootIsBounded
  <2>4. ASSUME Asked' \subseteq Asked, spent' <= spent
        PROVE  spent' + CallCost * n <= Cap + most
    <3>1. n <= k
      BY <2>1, <2>4, FS_Subset
    <3>2. CallCost * n <= CallCost * k
      BY <2>1, <3>1, CostGrows
    <3> QED BY <2>1, <2>2, <2>3, <2>4, <3>2, Fewer
  <2>5. ASSUME spent < Cap, spent' = spent
        PROVE  spent' + CallCost * n <= Cap + most
    <3>1. CallCost * n <= most
      BY <2>1, AskedIsFinite, CostGrows
    <3> HIDE DEF n, most
    <3> QED BY <2>1, <2>2, <2>5, <3>1
  <2>6. ASSUME NEW d \in Docs, NEW truncated \in BOOLEAN, Answer(d, truncated)
        PROVE  spent' + CallCost * n <= Cap + most
    <3>1. d \in Asked /\ Asked' = Asked \ {d} /\ spent' = spent + CallCost
      BY <2>6 DEF Answer, Record, Asked, IInv, TypeOK
    <3>2. n = k - 1
      BY <2>1, <3>1, FS_RemoveElement
    <3>3. CallCost * n + CallCost = CallCost * k
      BY <2>1, <3>2
    <3> HIDE DEF k, n, most
    <3> QED BY <2>1, <2>2, <2>3, <3>1, <3>3
  <2>7. ASSUME NEW d \in Docs, CannotBeSent(d) \/ ApiError(d)
        PROVE  Asked' \subseteq Asked /\ spent' <= spent
    BY <2>1, <2>7 DEF CannotBeSent, ApiError, Asked, IInv, TypeOK
  <2>8. ASSUME NEW d \in Docs, Ask(d)
        PROVE  spent < Cap /\ spent' = spent
    BY <2>1, <2>8 DEF Ask, Sends, CapReached
  <2>9. CASE NextDay \/ UNCHANGED vars
    <3>1. Asked' \subseteq Asked /\ spent' <= spent
      BY <2>1, <2>9 DEF NextDay, vars, Asked
    <3> QED BY <3>1, <2>4 DEF OvershootIsBounded
  <2> QED
    BY <2>4, <2>5, <2>6, <2>7, <2>8, <2>9 DEF Next, Serve, OvershootIsBounded
<1> QED BY <1>1, <1>2, Inductive, PTL DEF Spec
=============================================================================
