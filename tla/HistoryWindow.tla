---------------------------- MODULE HistoryWindow ----------------------------
(***************************************************************************)
(* What GmailClient.getHistory (src/gmail.js) makes of a history window:   *)
(* the messages of the records after a cursor.  A message belongs to the   *)
(* record hist[m]; the record of an `unattributed` message has no id.      *)
(***************************************************************************)
EXTENDS Integers, FiniteSets

(* The window ends before the first record without an id. *)
Attributable(window, hist, unattributed) ==
    {m \in window : \A k \in window \cap unattributed : hist[m] < hist[k]}

UpTo(S, hist, record) == {m \in S : hist[m] <= record}
Of(S, hist, record) == {m \in S : hist[m] = record}

(* All of that, or a prefix of whole records that is at least `cap` ids long, *)
(* counting twice the messages of a record that a page overlap lists again.   *)
Listings(window, hist, unattributed, cap, again) ==
    LET whole == Attributable(window, hist, unattributed)
    IN  {whole} \cup
        {S \in {UpTo(whole, hist, hist[k]) : k \in whole} :
            Cardinality(S) + Cardinality(Of(S, hist, again)) >= cap}
=============================================================================
