---------------------------- MODULE MCOcrDocument ----------------------------
(* Constants for the instance of OcrDocument that TLC checks. *)
EXTENDS OcrDocument
CONSTANTS Batch, Scan, Letter, Poster

(* A batch read as 1-3, 4-5 and 6, a scan nobody can count, and what is sent whole. *)
PagesOf == [d \in Docs |-> CASE d = Batch -> 6 [] d = Scan -> 3 [] OTHER -> 1]
FitOf == [d \in Docs |-> [p \in 1..6 |-> IF d = Batch /\ p = 4 THEN 2 ELSE 3]]

(* The letter labels two dates, the first in a birth word's sight. *)
Text(k, m) ==
    [mentions |-> {[date |-> 1, exact |-> TRUE, trailed |-> FALSE, label |-> k],
                   [date |-> 2, exact |-> TRUE, trailed |-> TRUE, label |-> m]},
     birthWord |-> k = "none"]
LetterReadings ==
    [text : {Text(k, m) : k \in {"birth", "none"}, m \in {"document", "date"}},
     parsed : {[date |-> 1, service |-> 2], [date |-> 2, service |-> 1],
               [date |-> 1, service |-> Null]}]
ReadingsOf == [d \in Docs |-> IF d = Letter THEN LetterReadings ELSE {}]
=============================================================================
