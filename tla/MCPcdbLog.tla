------------------------------ MODULE MCPcdbLog ------------------------------
(* PcdbLog on small instances: the events a run may deliver.               *)
EXTENDS PcdbLog

(* A note, a quote of it, and a deletion of the note by its author.        *)
NoteIds == {1, 2, 3}
NoteAuthor == [i \in NoteIds |-> IF i = 2 THEN "bob" ELSE "ann"]
NoteKind == [i \in NoteIds |-> IF i = 3 THEN "delete" ELSE "note"]
NoteCreated == [i \in NoteIds |-> i]
NoteDTags == [i \in NoteIds |-> <<>>]
NoteETags == [i \in NoteIds |-> IF i = 3 THEN {1} ELSE {}]
NoteATags == [i \in NoteIds |-> {}]
NoteQuotes == [i \in NoteIds |-> IF i = 2 THEN {1} ELSE {}]

(* Three versions of one document: 3 is the newest, 1 and 2 tie; and the   *)
(* author's deletion of its address, in the time of 1 and 2.               *)
DocIds == {1, 2, 3, 4}
DocAuthor == [i \in DocIds |-> "ann"]
DocKind == [i \in DocIds |-> IF i = 4 THEN "delete" ELSE "addr"]
DocCreated == [i \in DocIds |-> IF i = 3 THEN 2 ELSE 1]
DocDTags == [i \in DocIds |-> IF i = 4 THEN <<>> ELSE <<"x">>]
DocETags == [i \in DocIds |-> {}]
DocATags == [i \in DocIds |-> IF i = 4 THEN {<<"addr", "x">>} ELSE {}]
DocQuotes == [i \in DocIds |-> {}]

(* One note, which other relays may send again.                            *)
OneId == {1}
OneAuthor == [i \in OneId |-> "ann"]
OneKind == [i \in OneId |-> "note"]
OneCreated == [i \in OneId |-> 1]
OneDTags == [i \in OneId |-> <<>>]
OneETags == [i \in OneId |-> {}]
OneATags == [i \in OneId |-> {}]

=============================================================================
