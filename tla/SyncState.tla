------------------------------ MODULE SyncState ------------------------------
(***************************************************************************)
(* The decision engine of folder sync (static/js/client/syncstate.js, with *)
(* the content comparison of foldersync.js): one record per file, compared *)
(* with this device's disk and with its journal.  Pure operators: they     *)
(* take three snapshots of one path and say what the sweep does with it.   *)
(*                                                                         *)
(* A record is [v, live, c, s, by]: its version (0: nobody has said        *)
(* anything about the path), whether it names bytes or is a tombstone, the *)
(* content it certifies (csum), the modification stamp, its publisher.  A  *)
(* journal entry is a record with what the device applied, "local".  A     *)
(* file is [c, s, h]; h says that the scan hashed it.  A stamp is "src"    *)
(* when the author's own time came along and a device when that device     *)
(* restamped the file: what the code tells apart is only whether two       *)
(* stamps are equal.  Distinct contents have distinct sizes or stamps, so  *)
(* that size and mtime detect an edit; records always carry a checksum and *)
(* an address, which send() guarantees of what it publishes.               *)
(***************************************************************************)
EXTENDS Integers, FiniteSets

CONSTANTS Device,    \* the devices that map the folder
          Content,   \* what a file can hold
          Floor      \* FLOOR: how many deletions or resurrections are "mass"

None == "none"
ASSUME NoneAssumption == None \notin Content
Stamp == Device \cup {"src"}

NoFile  == [c |-> None, s |-> None, h |-> FALSE]
NoLocal == [c |-> None, s |-> None, h |-> FALSE, dl |-> 0]
NoRec   == [v |-> 0, live |-> FALSE, c |-> None, s |-> None, by |-> None]

\* A journal entry: the record that was applied, and the file it left.
Entry(r, loc) == [rec |-> r, local |-> loc]
NoEntry == Entry(NoRec, NoLocal)

\* What a scan says of a file on disk.  compact(): a hash only if asked for.
Scanned(f, hash) == IF f = NoFile THEN NoFile ELSE [f EXCEPT !.h = hash]
Local(f) == IF f = NoFile THEN NoLocal
            ELSE [c |-> f.c, s |-> f.s, h |-> f.h, dl |-> 0]

Here(f) == f # NoFile
Said(r) == r.v > 0
Dead(r) == Said(r) /\ ~r.live

\* same(): by content when the scan hashed, by size and mtime otherwise.
Same(L, R) == L.c = R.c /\ (L.h \/ L.s = R.s)

\* diskChanged(): against what this device applied, never against a record.
DiskChanged(L, I) ==
  CASE ~Here(L) -> I.local # NoLocal /\ I.rec.live
    [] Here(L) /\ I.local = NoLocal -> TRUE
    [] OTHER -> L.c # I.local.c \/ (~(L.h /\ I.local.h) /\ L.s # I.local.s)

\* recordAhead(): strictly ahead, never merely different.
RecordAhead(R, I) == R.v > I.rec.v

\* bump(): past everything either side has seen.
Bump(R, I) == 1 + (IF R.v >= I.rec.v THEN R.v ELSE I.rec.v)

(* plan(), for one path: the bucket the path falls into.                   *)
Plan(L, R, I) ==
  LET here  == DiskChanged(L, I)
      there == RecordAhead(R, I)
  IN IF ~Said(R) /\ I.rec.live /\ Here(L) /\ ~here THEN "send"
     ELSE IF ~here /\ ~there THEN "none"
     ELSE IF there /\ R.live /\ Here(L) /\ Same(L, R) THEN "settle"
     ELSE IF there /\ ~here /\ R.live THEN "fetch"
     ELSE IF there /\ ~here /\ Here(L) THEN "remove"
     ELSE IF there /\ ~R.live /\ ~Here(L) THEN "settle"
     ELSE IF here /\ ~there THEN IF Here(L) THEN "send" ELSE "tombstone"
     ELSE IF ~Here(L) THEN "fetch"
     ELSE IF ~R.live THEN IF L.h /\ L.c = R.c THEN "remove" ELSE "resurrect"
     ELSE "keepBoth"

(* check() and apply() over a whole plan: what a refusal takes out of it.  *)
Bucket(plan, b) == {p \in DOMAIN plan : plan[p] = b}

\* A device that sees none of the files it knows of may not delete them.
EmptyDevice(plan, kept) ==
  Cardinality(Bucket(plan, "tombstone")) >= Floor /\ kept = 0

\* Putting many deleted files back is a question for a person.
MassResurrect(plan) == Cardinality(Bucket(plan, "resurrect")) >= Floor

Checked(plan, kept, confirmed) ==
  [p \in DOMAIN plan |->
     IF \/ plan[p] = "tombstone" /\ EmptyDevice(plan, kept)
        \/ plan[p] = "resurrect" /\ MassResurrect(plan) /\ ~confirmed
     THEN "none" ELSE plan[p]]
=============================================================================
