---------------------------- MODULE DocumentDates ----------------------------
(***************************************************************************)
(* guardDocumentDates() of src/ocr.js: a date that the text of a document  *)
(* shows only as a date of birth is not kept as the document's date.       *)
(*                                                                         *)
(* A text is what the scanners make of it: the dates it mentions, each     *)
(* with the label before it and whether a birth label trails it, and       *)
(* whether a birth word stands anywhere in it.  A numeric date that may be *)
(* read two ways is mentioned twice, the second reading not exact.         *)
(***************************************************************************)
EXTENDS FiniteSets

CONSTANTS
    Dates,     \* the dates that occur
    PreFloor,  \* those before MIN_PLAUSIBLE_YEAR
    Null

ASSUME DatesAssumption == PreFloor \subseteq Dates /\ Null \notin Dates

Mentions == [date : Dates, exact : BOOLEAN, trailed : BOOLEAN,
             label : {"birth", "document", "date", "none"}]
Texts == [mentions : SUBSET Mentions, birthWord : BOOLEAN]
Results == [date : Dates \cup {Null}, service : Dates \cup {Null}]

(* scanLabelledDates: a birth label wins, then a document label. *)
AsDocument(m) == m.label = "document"
AsBirth(m) == m.label = "birth" \/ (m.trailed /\ ~AsDocument(m))
AsLooseDocument(m) == AsDocument(m) \/ (m.label = "date" /\ ~AsBirth(m))

birth(text) == {m.date : m \in {n \in text.mentions : AsBirth(n)}}
doc(text) == {m.date : m \in {n \in text.mentions : AsDocument(n) /\ n.exact}}
docLoose(text) == {m.date : m \in {n \in text.mentions : AsLooseDocument(n)}}

BirthOnly(d, text) ==
    /\ d # Null /\ d \notin doc(text)
    /\ \/ d \in birth(text)
       \/ text.birthWord /\ d \in PreFloor /\ d \notin docLoose(text)

(* "By the single labelled document date in the text, else null". *)
Labelled(text) ==
    IF \E d \in Dates : doc(text) \ birth(text) = {d}
    THEN CHOOSE d \in Dates : doc(text) \ birth(text) = {d} ELSE Null

(* Mutated: the date is judged, and replaced, before the service date is. *)
GuardedInOrder(parsed, text) ==
    [date |-> IF ~BirthOnly(parsed.date, text) THEN parsed.date
              ELSE IF parsed.service # Null THEN parsed.service ELSE Labelled(text),
     service |-> IF BirthOnly(parsed.service, text) THEN Null ELSE parsed.service]
guardDocumentDates(parsed, text) ==
    LET service == IF BirthOnly(parsed.service, text) THEN Null ELSE parsed.service
    IN  [service |-> service,
         date |-> IF ~BirthOnly(parsed.date, text) THEN parsed.date
                  ELSE IF service # Null THEN service ELSE Labelled(text)]

-----------------------------------------------------------------------------
(* ocr.js 262-270: "never a guess".  What the guard leaves is in no field a  *)
(* date the text shows only as a birth date; a date the text labels as the   *)
(* document's is left alone; a replacement stands in the text with a         *)
(* document label, or was the service date already; and a second pass over   *)
(* the result, as a consumer that re-reads what it persisted makes, changes  *)
(* nothing more.                                                             *)
Sound(parsed, kept, text) ==
    /\ ~BirthOnly(kept.date, text) /\ ~BirthOnly(kept.service, text)
    /\ parsed.date \in doc(text) => kept.date = parsed.date
    /\ parsed.service \in doc(text) => kept.service = parsed.service
    /\ kept.date \in {parsed.date, parsed.service, Null} \cup doc(text)
    /\ guardDocumentDates(kept, text) = kept
=============================================================================
