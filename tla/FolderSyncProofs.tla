-------------------------- MODULE FolderSyncProofs ---------------------------
(***************************************************************************)
(* Folder sync for any number of devices, phones, files and contents, with *)
(* every race, fault and edit the constants can allow: a path is dead in   *)
(* the folder only if a user deleted it.  The inductive invariant is Inv.  *)
(* With JInv on top of it: without overlapping checkpoints and without     *)
(* checkpoints that fail, the saved journal is never ahead of the records. *)
(***************************************************************************)
EXTENDS FolderSync, TLAPS

(* A running or idle sweep, in full.                                       *)
SweepState == [pc : {"idle", "read", "work", "save"}, opts : {Ordinary, Mirror},
               st : [Path -> Rec], dk : [Path -> FileState], ok : BOOLEAN, whole : BOOLEAN]

(* WellTyped with the types of what it leaves out.                         *)
Typed ==
  /\ rec \in [Path -> Rec]
  /\ disk \in [Device -> [Path -> FileState]]
  /\ saved \in [Device -> [Path -> EntryState]]
  /\ idx \in [Device -> [Path -> EntryState]]
  /\ base \in [Device -> BOOLEAN]
  /\ plan \in [Device -> [Path -> Buckets]]
  /\ sweep \in [Device -> SweepState]
  /\ pend \in [Device -> SUBSET (Path \X Rec)]
  /\ fresh \in SUBSET Content

(* The values of what is not there yet.                                    *)
LEMMA Blanks ==
    /\ NoFile \in FileState /\ NoLocal \in LocalState /\ NoRec \in Rec /\ NoEntry \in EntryState
    /\ Idle \in SweepState /\ Nothing \in [Path -> Buckets]
<1>1. NoFile \in FileState /\ NoLocal \in LocalState /\ NoRec \in Rec
  BY DEF NoFile, FileState, NoLocal, LocalState, NoRec, Rec
<1>2. NoEntry \in EntryState
  BY <1>1 DEF NoEntry, Entry, EntryState
<1>3. Idle \in SweepState
  BY <1>1 DEF Idle, SweepState, EmptyDisk
<1>4. Nothing \in [Path -> Buckets]
  BY DEF Nothing, Buckets
<1> QED
  BY <1>1, <1>2, <1>3, <1>4

(* The records and files of the start.                                     *)
LEMMA OrigTyped ==
    ASSUME NEW p \in File
    PROVE  OrigRec(p) \in Rec /\ OrigFile(p) \in FileState /\ Local(OrigFile(p)) \in LocalState
<1>1. (CHOOSE d \in Device : d \notin Phone) \in Device
  BY ConstantsAssumption
<1>2. Orig[p] \in Content
  BY ConstantsAssumption
<1>3. OrigRec(p) \in Rec /\ OrigFile(p) \in FileState
  BY <1>1, <1>2 DEF OrigRec, OrigFile, Rec, FileState, Stamp
<1> QED
  BY <1>3, Blanks DEF Local, FileState, LocalState

(* What goes into a journal entry.                                         *)
LEMMA LocalTyped ==
    ASSUME NEW L \in FileState
    PROVE  Local(L) \in LocalState
  BY Blanks DEF Local, FileState, LocalState

LEMMA EntryTyped ==
    ASSUME NEW r \in Rec, NEW loc \in LocalState
    PROVE  Entry(r, loc) \in EntryState
  BY DEF Entry, EntryState

(* What the sweep knows of a file after it wrote or read it.               *)
LEMMA HashedTyped ==
    ASSUME Typed, NEW d \in Device, NEW p \in Path, NEW dl \in Nat
    PROVE  Hashed(d, p, dl) \in LocalState
<1>1. PICK L : L = disk[d][p]
  OBVIOUS
<1>2. PICK K : K = sweep[d].dk[p]
  OBVIOUS
<1>3. L \in FileState /\ K \in FileState
  BY <1>1, <1>2 DEF Typed, SweepState
<1>4. Hashed(d, p, dl) = [c |-> L.c, h |-> TRUE, dl |-> dl, s |-> IF L.c = K.c THEN K.s ELSE None]
  BY <1>1, <1>2 DEF Hashed
<1> QED
  BY <1>3, <1>4 DEF FileState, LocalState

LEMMA WrittenTyped ==
    ASSUME NEW d \in Device, NEW r \in Rec, NEW dl \in Nat
    PROVE  Written(d, r) \in FileState /\ Received(d, r, dl) \in LocalState
<1>1. Written(d, r) \in FileState
  BY DEF Written, FileState, Rec, Stamp
<1>2. Received(d, r, dl) = [c |-> r.c, s |-> Written(d, r).s, h |-> TRUE, dl |-> dl]
  BY DEF Received
<1> QED
  BY <1>1, <1>2 DEF FileState, Rec, LocalState

(* The parts of an action on one path.                                     *)
LEMMA RecordTyped ==
    ASSUME Typed, NEW d \in Device, NEW p \in Path, NEW r \in Rec, NEW loc \in LocalState, Record(d, p, r, loc)
    PROVE  idx' \in [Device -> [Path -> EntryState]]
  BY EntryTyped DEF Record, Typed

LEMMA DoneTyped ==
    ASSUME Typed, NEW d \in Device, NEW p \in Path, Done(d, p)
    PROVE  plan' \in [Device -> [Path -> Buckets]]
  BY DEF Done, Typed, Buckets

LEMMA NotOkTyped ==
    ASSUME Typed, NEW d \in Device, NotOk(d)
    PROVE  sweep' \in [Device -> SweepState]
<1>1. sweep[d] \in SweepState
  BY DEF Typed
<1>2. [sweep[d] EXCEPT !.ok = FALSE] \in SweepState
  BY <1>1 DEF SweepState
<1> QED
  BY <1>2 DEF NotOk, Typed

LEMMA EnqueueTyped ==
    ASSUME Typed, NEW d \in Device, NEW p \in Path, NEW r \in Rec, Enqueue(d, p, r)
    PROVE  pend' \in [Device -> SUBSET (Path \X Rec)]
  BY DEF Enqueue, Typed

-----------------------------------------------------------------------------
(* A live record names bytes, and so does a file.                          *)
Sound(R) == R.live => R.c # None
FileOK(L) == L = NoFile \/ L.c # None

(* What reads as a local deletion: the journal knows a file, the disk has  *)
(* none.                                                                   *)
Absent(L, I) == L = NoFile /\ I.rec.live /\ I.local # NoLocal

(* One path of one device: v is the version of its record and "gone" says  *)
(* that a user deleted it; L is the file on disk, J and I the journal as   *)
(* saved and in memory, and of the sweep at "at" R is the record it read,  *)
(* K the file it scanned and b what is left to do.  The heart of it: what  *)
(* reads as a local deletion is one, or the record has moved on past the   *)
(* journal and the sweep will fetch instead; nothing is left to do on a    *)
(* path whose journal entry is new; and a removal or a deletion to         *)
(* announce is in the plan only because of a user.                         *)
PathOK(v, gone, L, J, I, at, R, K, b) ==
  /\ FileOK(L) /\ FileOK(K)
  /\ R.v <= v /\ Sound(R) /\ (Dead(R) => gone)
  /\ (Absent(L, J) => gone \/ v > J.rec.v)
  /\ (Absent(L, I) => gone \/ v > I.rec.v)
  /\ (at \in {"idle", "read"} => I = J /\ b = "none")
  /\ (at = "read" /\ Absent(L, I) => gone \/ R.v > I.rec.v)
  /\ (b # "none" => I = J)
  /\ (b \notin {"none", "commit"} /\ Here(K) => Here(L) \/ gone)
  /\ (b \in {"fetch", "keepBoth", "commit"} => R.live)
  /\ (b = "keepBoth" => R.v > I.rec.v)
  /\ (b \in {"remove", "tombstone"} => gone)
  /\ (b \in {"send", "resurrect", "mustSend"} => Here(K))

OK(d, p) == PathOK(rec[p].v, p \in cut, disk[d][p], saved[d][p], idx[d][p],
                   sweep[d].pc, sweep[d].st[p], sweep[d].dk[p], plan[d][p])

(* A deletion waits to be published only if a user made it; the work on    *)
(* the paths of pend is done.                                              *)
PendOK(d) ==
  /\ \A x \in pend[d] : Sound(x[2]) /\ (Dead(x[2]) => x[1] \in cut) /\ plan[d][x[1]] = "none"
  /\ sweep[d].pc \in {"idle", "read"} => pend[d] = {}

RecOK == \A p \in Path : Sound(rec[p]) /\ (Dead(rec[p]) => p \in cut)

Inv == /\ Typed
       /\ \A d \in Device, p \in Path : OK(d, p)
       /\ \A d \in Device : PendOK(d)
       /\ RecOK

(* What each bucket of plan() says of the file, the record and the         *)
(* journal.                                                                *)
LEMMA PlanSays ==
    ASSUME NEW L \in FileState, NEW R \in Rec, NEW I \in EntryState
    PROVE  /\ Plan(L, R, I) \in Buckets \ {"commit", "mustSend"}
           /\ Plan(L, R, I) \in {"fetch", "keepBoth"} => R.live
           /\ Plan(L, R, I) = "keepBoth" => R.v > I.rec.v
           /\ Plan(L, R, I) = "remove" => Dead(R)
           /\ Plan(L, R, I) \in {"send", "resurrect"} => Here(L)
           /\ Plan(L, R, I) = "tombstone" => /\ ~Here(L) /\ I.local # NoLocal /\ I.rec.live
                                             /\ ~(R.v > I.rec.v)
<1>1. R.v \in Nat /\ I.rec.v \in Nat /\ R.live \in BOOLEAN /\ I.rec.live \in BOOLEAN
  BY DEF EntryState, Rec
<1>3. ~Here(L) /\ DiskChanged(L, I) => I.local # NoLocal /\ I.rec.live
  BY DEF DiskChanged
<1>4. RecordAhead(R, I) => R.v > I.rec.v /\ Said(R)
  BY <1>1 DEF RecordAhead, Said
<1>5. ~RecordAhead(R, I) => ~(R.v > I.rec.v)
  BY DEF RecordAhead
<1> QED
  BY <1>1, <1>3, <1>4, <1>5 DEF Plan, Buckets, Dead

(* One path through the decision, the join, the options and the refusals.  *)
LEMMA DecisionSays ==
    ASSUME NEW L \in FileState, NEW R \in Rec, NEW I \in EntryState, NEW o \in {Ordinary, Mirror},
           NEW raw, raw = "none" \/ raw = Plan(L, R, I),
           NEW joined, joined = raw \/ joined = JoinHolds(raw, R),
           NEW b, b = "none" \/ b = WithOptions(joined, L, R, o)
    PROVE  /\ b \in Buckets \ {"commit"}
           /\ b \in {"fetch", "keepBoth"} => R.live
           /\ b = "keepBoth" => R.v > I.rec.v
           /\ b = "remove" => Dead(R)
           /\ b \in {"send", "resurrect", "mustSend"} => Here(L)
           /\ b = "tombstone" => raw = "tombstone" /\ raw = Plan(L, R, I)
<1>1. /\ raw \in Buckets \ {"commit", "mustSend"}
      /\ raw \in {"fetch", "keepBoth"} => R.live
      /\ raw = "keepBoth" => R.v > I.rec.v
      /\ raw = "remove" => Dead(R)
      /\ raw \in {"send", "resurrect"} => Here(L)
      /\ raw = "tombstone" => raw = Plan(L, R, I)
  BY PlanSays DEF Buckets
<1>2. /\ joined \in Buckets \ {"commit", "mustSend"}
      /\ joined \in {"fetch", "keepBoth"} => R.live
      /\ joined = "keepBoth" => R.v > I.rec.v
      /\ joined = "remove" => Dead(R)
      /\ joined \in {"send", "resurrect"} => Here(L)
      /\ joined = "tombstone" => raw = "tombstone"
  BY <1>1 DEF JoinHolds, Buckets
<1>3. b = "none" \/ b = joined \/ (b = "mustSend" /\ Here(L))
  BY DEF WithOptions
<1> QED
  BY <1>1, <1>2, <1>3 DEF Buckets

-----------------------------------------------------------------------------
(* What a step leaves alone stays fine while records grow and users        *)
(* delete.                                                                 *)
LEMMA Stays ==
    ASSUME Inv, Typed', NEW e \in Device, NEW q \in Path,
           rec[q].v <= rec'[q].v, q \in cut => q \in cut', disk'[e][q] = disk[e][q],
           saved'[e][q] = saved[e][q], idx'[e][q] = idx[e][q], sweep'[e].pc = sweep[e].pc,
           sweep'[e].st[q] = sweep[e].st[q], sweep'[e].dk[q] = sweep[e].dk[q],
           plan'[e][q] = plan[e][q]
    PROVE  OK(e, q)'
<1>1. rec[q].v \in Nat /\ rec'[q].v \in Nat /\ saved[e][q].rec.v \in Nat /\ idx[e][q].rec.v \in Nat
      /\ sweep[e].st[q].v \in Nat
  BY DEF Inv, Typed, Rec, SweepState, EntryState
<1>2. OK(e, q)
  BY DEF Inv
<1> QED
  BY <1>1, <1>2 DEF OK, PathOK

(* A step of device d that touches only the paths P of its folder.         *)
Elsewhere(d, P) ==
  \A e \in Device, q \in Path : (e = d /\ q \in P)
    \/ (disk'[e][q] = disk[e][q] /\ idx'[e][q] = idx[e][q] /\ plan'[e][q] = plan[e][q])

(* No sweep moves on, reads or scans.                                      *)
SweepsKept ==
  \A e \in Device : sweep'[e].pc = sweep[e].pc /\ sweep'[e].st = sweep[e].st /\ sweep'[e].dk = sweep[e].dk

(* What is newly queued is meant, and its path is done.                    *)
QueuedWell ==
  \A e \in Device : \A x \in pend'[e] :
    \/ x \in pend[e] /\ (plan'[e][x[1]] = "none" \/ plan'[e][x[1]] = plan[e][x[1]])
    \/ /\ Sound(x[2]) /\ (Dead(x[2]) => x[1] \in cut') /\ plan'[e][x[1]] = "none"
       /\ sweep'[e].pc \notin {"idle", "read"}

(* A step on some paths of one device preserves the invariant if it is     *)
(* fine for those paths.                                                   *)
LEMMA LocalStep ==
    ASSUME Inv, Typed', NEW d \in Device, NEW P, Elsewhere(d, P), SweepsKept, QueuedWell,
           UNCHANGED <<rec, saved>>, cut \subseteq cut',
           \A q \in Path : q \in P => OK(d, q)'
    PROVE  Inv'
<1>1. ASSUME NEW e \in Device, NEW q \in Path PROVE OK(e, q)'
  <2>1. rec[q].v <= rec'[q].v
    BY DEF Inv, Typed, Rec
  <2>2. CASE ~(e = d /\ q \in P)
    <3>1. disk'[e][q] = disk[e][q] /\ idx'[e][q] = idx[e][q] /\ plan'[e][q] = plan[e][q]
      BY <2>2 DEF Elsewhere
    <3> QED
      BY <2>1, <3>1, Stays DEF SweepsKept
  <2> QED
    BY <2>2
<1>2. ASSUME NEW e \in Device PROVE PendOK(e)'
  <2>1. PendOK(e) /\ sweep'[e].pc = sweep[e].pc
    BY DEF Inv, SweepsKept
  <2> QED
    BY <2>1 DEF PendOK, QueuedWell
<1>3. RecOK'
  BY DEF Inv, RecOK
<1> QED
  BY <1>1, <1>2, <1>3 DEF Inv

(* Users and their tools.                                                  *)
LEMMA EditKeeps ==
    ASSUME Inv, NEW d \in Device, NEW p \in Path, Edit(d, p)
    PROVE  Inv'
<1>1. PICK c \in Content : disk' = [disk EXCEPT ![d][p] = [c |-> c, s |-> "src", h |-> FALSE]]
      /\ fresh' \subseteq Content
  BY DEF Edit, Inv, Typed
<1>2. UNCHANGED <<rec, saved, base, idx, sweep, plan, pend, cut>>
  BY DEF Edit, device
<1>3. [c |-> c, s |-> "src", h |-> FALSE] \in FileState
  BY DEF FileState, Stamp
<1>4. Typed'
  BY <1>1, <1>2, <1>3 DEF Inv, Typed
<1>5. Elsewhere(d, {p}) /\ SweepsKept /\ QueuedWell
  BY <1>1, <1>2 DEF Inv, Typed, Elsewhere, SweepsKept, QueuedWell
<1>6. OK(d, p)'
  <2>1. disk'[d][p] = [c |-> c, s |-> "src", h |-> FALSE]
    BY <1>1 DEF Inv, Typed
  <2>2. FileOK(disk'[d][p]) /\ disk'[d][p] # NoFile
    BY <2>1, NoneAssumption DEF FileOK, NoFile
  <2>3. OK(d, p)
    BY DEF Inv
  <2> QED
    BY <1>2, <2>2, <2>3 DEF OK, PathOK, Absent, Here
<1> QED
  BY <1>2, <1>4, <1>5, <1>6, LocalStep

(* A user deletes: from here on the path is gone.                          *)
LEMMA DeleteFileKeeps ==
    ASSUME Inv, NEW d \in Device, NEW p \in Path, DeleteFile(d, p)
    PROVE  Inv'
<1>1. disk' = [disk EXCEPT ![d][p] = NoFile] /\ cut' = cut \cup {p}
  BY DEF DeleteFile
<1>2. UNCHANGED <<rec, saved, base, idx, sweep, plan, pend, fresh>>
  BY DEF DeleteFile, device
<1>4. Typed'
  BY <1>1, <1>2, Blanks DEF Inv, Typed
<1>5. Elsewhere(d, {p}) /\ SweepsKept /\ QueuedWell
  BY <1>1, <1>2 DEF Inv, Typed, Elsewhere, SweepsKept, QueuedWell
<1>6. OK(d, p)'
  <2>1. disk'[d][p] = NoFile /\ p \in cut'
    BY <1>1 DEF Inv, Typed
  <2>3. OK(d, p)
    BY DEF Inv
  <2> QED
    BY <1>2, <2>1, <2>3 DEF OK, PathOK, FileOK
<1> QED
  BY <1>1, <1>2, <1>4, <1>5, <1>6, LocalStep

(* Another stamp on the same bytes.                                        *)
LEMMA TouchKeeps ==
    ASSUME Inv, NEW d \in Device, NEW p \in Path, Touch(d, p)
    PROVE  Inv'
<1>1. disk' = [disk EXCEPT ![d][p] = [disk[d][p] EXCEPT !.s = d]] /\ disk[d][p] # NoFile
  BY DEF Touch, Inv, Typed, Here
<1>2. UNCHANGED <<rec, saved, base, idx, sweep, plan, pend, fresh, cut>>
  BY DEF Touch, device, history
<1>3. disk[d][p] \in FileState /\ [disk[d][p] EXCEPT !.s = d] \in FileState
  <2>1. disk[d][p] \in FileState
    BY DEF Inv, Typed
  <2> QED
    BY <2>1 DEF FileState, Stamp
<1>4. Typed'
  BY <1>1, <1>2, <1>3 DEF Inv, Typed
<1>5. Elsewhere(d, {p}) /\ SweepsKept /\ QueuedWell
  BY <1>1, <1>2 DEF Inv, Typed, Elsewhere, SweepsKept, QueuedWell
<1>6. OK(d, p)'
  <2>1. disk'[d][p] = [disk[d][p] EXCEPT !.s = d]
    BY <1>1 DEF Inv, Typed
  <2>3. OK(d, p)
    BY DEF Inv
  <2>4. disk'[d][p].c = disk[d][p].c /\ disk[d][p].c # None
    BY <2>1, <2>3, <1>1, <1>3 DEF OK, PathOK, FileOK, FileState
  <2>5. FileOK(disk'[d][p]) /\ disk'[d][p] # NoFile
    BY <2>4 DEF FileOK, NoFile
  <2> QED
    BY <1>2, <2>5, <2>3 DEF OK, PathOK, Absent, Here
<1> QED
  BY <1>2, <1>4, <1>5, <1>6, LocalStep
-----------------------------------------------------------------------------
(* The sweep's own work on one path.                                       *)
LEMMA TurnSays ==
    ASSUME NEW d \in Device, NEW p \in Path, NEW B, Turn(d, p, B)
    PROVE  sweep[d].pc \notin {"idle", "read"} /\ plan[d][p] \in B
  BY DEF Turn, Working

(* A step that finishes the work on one path.                              *)
LEMMA DoneStep ==
    ASSUME Inv, NEW d \in Device, NEW p \in Path, NEW B, Turn(d, p, B), Done(d, p),
           NEW L \in FileState, disk' = [disk EXCEPT ![d][p] = L],
           NEW I \in EntryState, idx' = [idx EXCEPT ![d][p] = I],
           sweep' \in [Device -> SweepState], SweepsKept,
           pend' \in [Device -> SUBSET (Path \X Rec)],
           \A e \in Device : \A x \in pend'[e] :
             x \in pend[e] \/ (e = d /\ x[1] = p /\ Sound(x[2]) /\ (Dead(x[2]) => p \in cut)),
           UNCHANGED <<rec, saved, base, cut, fresh>>,
           FileOK(L),
           Absent(L, saved[d][p]) => p \in cut \/ rec[p].v > saved[d][p].rec.v,
           Absent(L, I) => p \in cut \/ rec[p].v > I.rec.v
    PROVE  Inv'
<1>1. sweep[d].pc \notin {"idle", "read"}
  BY TurnSays
<1>2. Typed'
  BY DoneTyped DEF Inv, Typed
<1>3. Elsewhere(d, {p})
  BY DEF Elsewhere, Done, Inv, Typed
<1>4. plan'[d][p] = "none" /\ disk'[d][p] = L /\ idx'[d][p] = I
  BY DEF Done, Inv, Typed
<1>5. QueuedWell
  <2>1. \A e \in Device, q \in Path : plan'[e][q] = "none" \/ plan'[e][q] = plan[e][q]
    BY DEF Done, Inv, Typed
  <2>2. \A e \in Device : \A x \in pend'[e] : x[1] \in Path
    OBVIOUS
  <2>3. sweep'[d].pc = sweep[d].pc
    BY DEF SweepsKept
  <2> QED
    BY <1>1, <1>4, <2>1, <2>2, <2>3 DEF QueuedWell
<1>6. OK(d, p)'
  <2>1. OK(d, p)
    BY DEF Inv
  <2>2. sweep'[d].pc = sweep[d].pc /\ sweep'[d].st[p] = sweep[d].st[p] /\ sweep'[d].dk[p] = sweep[d].dk[p]
    BY DEF SweepsKept
  <2> QED
    BY <1>1, <1>4, <2>1, <2>2 DEF OK, PathOK
<1> QED
  BY <1>2, <1>3, <1>5, <1>6, LocalStep

(* What the invariant says of a path, in types.                            *)
LEMMA PathFacts ==
    ASSUME Inv, NEW d \in Device, NEW p \in Path
    PROVE  /\ OK(d, p)
           /\ rec[p] \in Rec /\ rec[p].v \in Nat
           /\ disk[d][p] \in FileState /\ disk[d][p].c \in Content \cup {None}
           /\ saved[d][p] \in EntryState /\ saved[d][p].rec.v \in Nat
           /\ idx[d][p] \in EntryState /\ idx[d][p].rec \in Rec /\ idx[d][p].rec.v \in Nat
           /\ idx[d][p].local \in LocalState
           /\ sweep[d] \in SweepState
           /\ sweep[d].st[p] \in Rec /\ sweep[d].st[p].v \in Nat
           /\ sweep[d].dk[p] \in FileState /\ sweep[d].dk[p].c \in Content \cup {None}
           /\ plan[d][p] \in Buckets
           /\ disk = [disk EXCEPT ![d][p] = disk[d][p]]
           /\ idx = [idx EXCEPT ![d][p] = idx[d][p]]
<1>1. OK(d, p)
  BY DEF Inv
<1>2. disk[d][p] \in FileState /\ idx[d][p] \in EntryState /\ saved[d][p] \in EntryState /\ sweep[d] \in SweepState
      /\ rec[p] \in Rec /\ plan[d][p] \in Buckets
  BY DEF Inv, Typed
<1>3. sweep[d].st[p] \in Rec /\ sweep[d].dk[p] \in FileState
  BY <1>2 DEF SweepState
<1>4. idx[d][p].rec \in Rec /\ idx[d][p].local \in LocalState /\ saved[d][p].rec \in Rec
  BY <1>2 DEF EntryState
<1>5. /\ rec[p].v \in Nat /\ saved[d][p].rec.v \in Nat /\ idx[d][p].rec.v \in Nat /\ sweep[d].st[p].v \in Nat
  BY <1>2, <1>3, <1>4 DEF Rec
<1>6. disk[d][p].c \in Content \cup {None} /\ sweep[d].dk[p].c \in Content \cup {None}
  BY <1>2, <1>3 DEF FileState
<1>7. disk = [disk EXCEPT ![d][p] = disk[d][p]]
  BY DEF Inv, Typed
<1>8. idx = [idx EXCEPT ![d][p] = idx[d][p]]
  BY DEF Inv, Typed
<1> QED
  BY <1>1, <1>2, <1>3, <1>4, <1>5, <1>6, <1>7, <1>8

(* A sweep that only notes a failure is where it was.                      *)
LEMMA SweepUnmoved ==
    ASSUME Typed, UNCHANGED sweep \/ \E d \in Device : NotOk(d)
    PROVE  SweepsKept /\ sweep' \in [Device -> SweepState]
<1>1. CASE UNCHANGED sweep
  BY <1>1 DEF SweepsKept, Typed
<1>2. ASSUME NEW d \in Device, NotOk(d) PROVE SweepsKept /\ sweep' \in [Device -> SweepState]
  <2>1. sweep' \in [Device -> SweepState]
    BY <1>2, NotOkTyped
  <2>2. \A e \in Device : sweep'[e] = IF e = d THEN [sweep[d] EXCEPT !.ok = FALSE] ELSE sweep[e]
    BY <1>2 DEF NotOk, Typed
  <2>3. /\ [sweep[d] EXCEPT !.ok = FALSE].pc = sweep[d].pc
        /\ [sweep[d] EXCEPT !.ok = FALSE].st = sweep[d].st
        /\ [sweep[d] EXCEPT !.ok = FALSE].dk = sweep[d].dk
    <3>1. sweep[d] \in SweepState
      BY DEF Typed
    <3> QED
      BY <3>1 DEF SweepState
  <2> QED
    BY <2>1, <2>2, <2>3 DEF SweepsKept
<1> QED
  BY <1>1, <1>2

(* A file is removed because its record is dead, or is kept for now.       *)
LEMMA RemoveKeeps ==
    ASSUME Inv, NEW d \in Device, NEW p \in Path, NEW answered \in BOOLEAN, Remove(d, p, answered)
    PROVE  Inv'
<1>1. Turn(d, p, {"remove"}) /\ Done(d, p) /\ UNCHANGED <<rec, saved, base, sweep, pend, cut, fresh>>
  BY DEF Remove, history
<1>2. OK(d, p) /\ plan[d][p] = "remove"
  BY <1>1, TurnSays, PathFacts
<1>3. p \in cut /\ FileOK(disk[d][p]) /\ FileOK(NoFile)
  BY <1>2 DEF OK, PathOK, FileOK
<1>4. SweepsKept /\ sweep' \in [Device -> SweepState]
  BY <1>1, SweepUnmoved DEF Inv
<1>5. pend' \in [Device -> SUBSET (Path \X Rec)]
  BY <1>1 DEF Inv, Typed
<1>6. CASE answered
  <2>1. disk' = [disk EXCEPT ![d][p] = NoFile] /\ Record(d, p, sweep[d].st[p], NoLocal)
    BY <1>6 DEF Remove
  <2>2. PICK I \in EntryState : I = Entry(sweep[d].st[p], NoLocal)
    BY PathFacts, Blanks, EntryTyped
  <2>3. idx' = [idx EXCEPT ![d][p] = I]
    BY <2>1, <2>2 DEF Record
  <2> QED
    BY <1>1, <1>3, <1>4, <1>5, <2>1, <2>3, Blanks, DoneStep
<1>7. CASE ~answered
  <2>1. UNCHANGED <<disk, idx>>
    BY <1>7 DEF Remove
  <2> QED
    BY <1>1, <1>3, <1>4, <1>5, <2>1, PathFacts, DoneStep
<1> QED
  BY <1>6, <1>7

(* A file is there if it has a content.                                    *)
LEMMA HereIs ==
    ASSUME NEW L, FileOK(L)
    PROVE  Here(L) <=> L.c # None
  BY DEF FileOK, Here, NoFile

(* A download leaves a file.                                               *)
LEMMA WrittenHere ==
    ASSUME NEW d \in Device, NEW r \in Rec, r.live, Sound(r)
    PROVE  FileOK(Written(d, r)) /\ Written(d, r) # NoFile
  BY DEF Written, Sound, FileOK, NoFile

(* A step that only takes p off the plan.                                  *)
LEMMA GivenUp ==
    ASSUME Inv, NEW d \in Device, NEW p \in Path, NEW B, Turn(d, p, B), Done(d, p),
           SweepsKept, sweep' \in [Device -> SweepState],
           UNCHANGED <<rec, disk, saved, base, idx, pend, cut, fresh>>
    PROVE  Inv'
<1>1. /\ FileOK(disk[d][p])
      /\ Absent(disk[d][p], saved[d][p]) => p \in cut \/ rec[p].v > saved[d][p].rec.v
      /\ Absent(disk[d][p], idx[d][p]) => p \in cut \/ rec[p].v > idx[d][p].rec.v
  BY PathFacts DEF OK, PathOK
<1>2. pend' \in [Device -> SUBSET (Path \X Rec)]
  BY DEF Inv, Typed
<1>3. disk' = [disk EXCEPT ![d][p] = disk[d][p]] /\ idx' = [idx EXCEPT ![d][p] = idx[d][p]]
  BY PathFacts
<1>4. disk[d][p] \in FileState /\ idx[d][p] \in EntryState
  BY PathFacts
<1> QED
  BY <1>1, <1>2, <1>3, <1>4, DoneStep

(* A transfer that fails.                                                  *)
LEMMA TransferFailsKeeps ==
    ASSUME Inv, NEW d \in Device, NEW p \in Path, TransferFails(d, p)
    PROVE  Inv'
<1>1. PICK B : Turn(d, p, B)
  BY DEF TransferFails
<1>2. Done(d, p) /\ NotOk(d) /\ UNCHANGED <<rec, disk, saved, base, idx, pend, cut, fresh>>
  BY DEF TransferFails, history
<1> QED
  BY <1>1, <1>2, SweepUnmoved, GivenUp DEF Inv

(* A step that writes p down in the journal, over a disk that has the      *)
(* file afterwards.                                                        *)
LEMMA WrittenDown ==
    ASSUME Inv, NEW d \in Device, NEW p \in Path, NEW B, Turn(d, p, B), Done(d, p),
           NEW L \in FileState, disk' = [disk EXCEPT ![d][p] = L], FileOK(L), L # NoFile \/ p \in cut,
           NEW r \in Rec, NEW loc \in LocalState, Record(d, p, r, loc),
           sweep' \in [Device -> SweepState], SweepsKept,
           pend' \in [Device -> SUBSET (Path \X Rec)],
           \A e \in Device : \A x \in pend'[e] :
             x \in pend[e] \/ (e = d /\ x[1] = p /\ Sound(x[2]) /\ (Dead(x[2]) => p \in cut)),
           UNCHANGED <<rec, saved, base, cut, fresh>>
    PROVE  Inv'
<1>1. PICK I \in EntryState : I = Entry(r, loc)
  BY EntryTyped
<1>2. idx' = [idx EXCEPT ![d][p] = I]
  BY <1>1 DEF Record
<1>3. ~Absent(L, saved[d][p]) \/ p \in cut
  BY DEF Absent
<1>4. ~Absent(L, I) \/ p \in cut
  BY DEF Absent
<1> QED
  BY <1>2, <1>3, <1>4, DoneStep

(* Their bytes are put where ours were.                                    *)
LEMMA CommitKeeps ==
    ASSUME Inv, NEW d \in Device, NEW p \in Path, Commit(d, p)
    PROVE  Inv'
<1>1. Turn(d, p, {"commit"}) /\ Done(d, p) /\ UNCHANGED <<rec, saved, base, sweep, pend, cut, fresh>>
  BY DEF Commit, history
<1>2. PICK R \in Rec : R = sweep[d].st[p]
  BY PathFacts
<1>3. disk' = [disk EXCEPT ![d][p] = Written(d, R)] /\ Record(d, p, R, Received(d, R, 0))
  BY <1>2 DEF Commit
<1>4. plan[d][p] = "commit" /\ OK(d, p)
  BY <1>1, TurnSays, PathFacts
<1>5. R.live /\ Sound(R)
  BY <1>2, <1>4 DEF OK, PathOK
<1>6. SweepsKept /\ sweep' \in [Device -> SweepState]
  BY <1>1, SweepUnmoved DEF Inv
<1>7. pend' \in [Device -> SUBSET (Path \X Rec)]
  BY <1>1 DEF Inv, Typed
<1>8. 0 \in Nat
  OBVIOUS
<1>9. Written(d, R) \in FileState /\ Received(d, R, 0) \in LocalState
  BY <1>8, WrittenTyped
<1> QED
  BY <1>1, <1>3, <1>5, <1>6, <1>7, <1>9, WrittenHere, WrittenDown

(* A download, or the adoption of bytes that are here already.             *)
LEMMA FetchKeeps ==
    ASSUME Inv, NEW d \in Device, NEW p \in Path, Fetch(d, p)
    PROVE  Inv'
<1>1. Turn(d, p, {"fetch"}) /\ Done(d, p) /\ UNCHANGED <<rec, saved, base, sweep, pend, cut, fresh>>
  BY DEF Fetch, history
<1>2. PICK R \in Rec : R = sweep[d].st[p]
  BY PathFacts
<1>4. plan[d][p] = "fetch" /\ OK(d, p)
  BY <1>1, TurnSays, PathFacts
<1>5. R.live /\ Sound(R) /\ R.v \in Nat
  BY <1>2, <1>4 DEF OK, PathOK, Rec
<1>6. SweepsKept /\ sweep' \in [Device -> SweepState]
  BY <1>1, SweepUnmoved DEF Inv
<1>7. pend' \in [Device -> SUBSET (Path \X Rec)]
  BY <1>1 DEF Inv, Typed
<1>8. CASE Here(sweep[d].dk[p]) /\ disk[d][p].c = R.c
  <2>1. Record(d, p, R, Hashed(d, p, 0)) /\ UNCHANGED disk
    BY <1>2, <1>8 DEF Fetch
  <2>2. FileOK(disk[d][p]) /\ disk[d][p] # NoFile
    BY <1>4, <1>5, <1>8 DEF OK, PathOK, Sound, NoFile
  <2>3. 0 \in Nat
    OBVIOUS
  <2>4. Hashed(d, p, 0) \in LocalState
    BY <2>3, HashedTyped DEF Inv
  <2>5. disk' = [disk EXCEPT ![d][p] = disk[d][p]] /\ disk[d][p] \in FileState
    BY <2>1, PathFacts
  <2> QED
    BY <1>1, <1>6, <1>7, <2>1, <2>2, <2>4, <2>5, WrittenDown
<1>9. CASE ~(Here(sweep[d].dk[p]) /\ disk[d][p].c = R.c)
  <2>1. disk' = [disk EXCEPT ![d][p] = Written(d, R)] /\ Record(d, p, R, Received(d, R, R.v))
    BY <1>2, <1>9 DEF Fetch
  <2>2. Written(d, R) \in FileState /\ Received(d, R, R.v) \in LocalState
    BY <1>5, WrittenTyped
  <2> QED
    BY <1>1, <1>5, <1>6, <1>7, <2>1, <2>2, WrittenHere, WrittenDown
<1> QED
  BY <1>8, <1>9

(* A deletion is announced: the plan says so only of a path a user         *)
(* deleted.                                                                *)
LEMMA TombstoneKeeps ==
    ASSUME Inv, NEW d \in Device, NEW p \in Path, Tombstone(d, p)
    PROVE  Inv'
<1>1. Turn(d, p, {"tombstone"}) /\ Done(d, p) /\ UNCHANGED <<rec, disk, saved, base, sweep, cut, fresh>>
  BY DEF Tombstone, history
<1>4. plan[d][p] = "tombstone" /\ OK(d, p)
  BY <1>1, TurnSays, PathFacts
<1>5. p \in cut /\ FileOK(disk[d][p])
  BY <1>4 DEF OK, PathOK
<1>6. SweepsKept /\ sweep' \in [Device -> SweepState]
  BY <1>1, SweepUnmoved DEF Inv
<1>8. CASE Here(disk[d][p])
  <2>1. UNCHANGED <<idx, pend>>
    BY <1>8 DEF Tombstone
  <2> QED
    BY <1>1, <1>6, <2>1, GivenUp
<1>9. CASE ~Here(disk[d][p])
  <2>1. PICK n : n = Bump(sweep[d].st[p], idx[d][p])
    OBVIOUS
  <2>2. n \in Nat
    BY <2>1, PathFacts DEF Bump
  <2>3. PICK r : r = [idx[d][p].rec EXCEPT !.v = n, !.live = FALSE, !.by = d]
    OBVIOUS
  <2>4. Record(d, p, r, NoLocal) /\ Enqueue(d, p, r)
    BY <1>9, <2>1, <2>3 DEF Tombstone
  <2>5. r \in Rec /\ ~r.live
    <3>1. idx[d][p].rec \in Rec
      BY PathFacts
    <3> QED
      BY <2>2, <2>3, <3>1 DEF Rec
  <2>6. pend' \in [Device -> SUBSET (Path \X Rec)]
    BY <2>4, <2>5, EnqueueTyped DEF Inv
  <2>7. \A e \in Device : \A x \in pend'[e] :
             x \in pend[e] \/ (e = d /\ x[1] = p /\ Sound(x[2]) /\ (Dead(x[2]) => p \in cut))
    BY <1>5, <2>4, <2>5 DEF Enqueue, Sound, Inv, Typed
  <2>8. disk' = [disk EXCEPT ![d][p] = disk[d][p]] /\ disk[d][p] \in FileState
    BY <1>1, PathFacts
  <2> QED
    BY <1>1, <1>5, <1>6, <2>4, <2>5, <2>6, <2>7, <2>8, Blanks, WrittenDown
<1> QED
  BY <1>8, <1>9

(* An agreement is written down without bytes: a file that was scanned and *)
(* is gone since was deleted by a user.                                    *)
LEMMA SettleKeeps ==
    ASSUME Inv, NEW d \in Device, NEW p \in Path, Settle(d, p)
    PROVE  Inv'
<1>1. Turn(d, p, {"settle"}) /\ Done(d, p) /\ UNCHANGED <<rec, disk, saved, base, sweep, pend, cut, fresh>>
  BY DEF Settle, history
<1>2. PICK I \in EntryState : I = Entry(sweep[d].st[p], Local(sweep[d].dk[p]))
  BY PathFacts, LocalTyped, EntryTyped
<1>3. idx' = [idx EXCEPT ![d][p] = I]
  BY <1>2 DEF Settle, Record
<1>4. plan[d][p] = "settle" /\ OK(d, p)
  BY <1>1, TurnSays, PathFacts
<1>5. /\ FileOK(disk[d][p])
      /\ Absent(disk[d][p], saved[d][p]) => p \in cut \/ rec[p].v > saved[d][p].rec.v
      /\ Here(sweep[d].dk[p]) => Here(disk[d][p]) \/ p \in cut
  BY <1>4 DEF OK, PathOK
<1>6. Absent(disk[d][p], I) => p \in cut
  <2>1. I.local = Local(sweep[d].dk[p])
    BY <1>2 DEF Entry
  <2>2. I.local # NoLocal => Here(sweep[d].dk[p])
    BY <2>1 DEF Local, Here
  <2> QED
    BY <1>5, <2>2 DEF Absent, Here
<1>7. SweepsKept /\ sweep' \in [Device -> SweepState]
  BY <1>1, SweepUnmoved DEF Inv
<1>8. pend' \in [Device -> SUBSET (Path \X Rec)]
  BY <1>1 DEF Inv, Typed
<1>9. disk' = [disk EXCEPT ![d][p] = disk[d][p]] /\ disk[d][p] \in FileState
  BY <1>1, PathFacts
<1> QED
  BY <1>1, <1>3, <1>5, <1>6, <1>7, <1>8, <1>9, DoneStep

(* What send() publishes.                                                  *)
LEMMA SentRecord ==
    ASSUME NEW d \in Device, NEW n \in Nat, NEW K \in FileState, K.c # None
    PROVE  /\ [v |-> n, live |-> TRUE, by |-> d, c |-> K.c, s |-> K.s] \in Rec
           /\ Sound([v |-> n, live |-> TRUE, by |-> d, c |-> K.c, s |-> K.s])
           /\ ~Dead([v |-> n, live |-> TRUE, by |-> d, c |-> K.c, s |-> K.s])
  BY DEF Rec, FileState, Sound, Dead

(* An upload, or what replaces it.                                         *)
LEMMA SendKeeps ==
    ASSUME Inv, NEW d \in Device, NEW p \in Path, Send(d, p)
    PROVE  Inv'
<1>1. Turn(d, p, {"send", "resurrect", "mustSend"}) /\ Done(d, p)
      /\ UNCHANGED <<rec, disk, saved, base, cut, fresh>>
  BY DEF Send, history
<1>2. PICK R \in Rec : R = sweep[d].st[p]
  BY PathFacts
<1>3. PICK K \in FileState : K = sweep[d].dk[p]
  BY PathFacts
<1>4. plan[d][p] \in {"send", "resurrect", "mustSend"} /\ OK(d, p)
  BY <1>1, TurnSays, PathFacts
<1>5. Here(K) /\ (disk[d][p] # NoFile \/ p \in cut) /\ Sound(R) /\ FileOK(disk[d][p]) /\ FileOK(K)
  BY <1>2, <1>3, <1>4 DEF OK, PathOK, Here
<1>6. disk' = [disk EXCEPT ![d][p] = disk[d][p]] /\ disk[d][p] \in FileState
  BY <1>1, PathFacts
<1>7. PICK new : new = [v |-> Bump(R, idx[d][p]), live |-> TRUE, by |-> d, c |-> K.c, s |-> K.s]
  OBVIOUS
<1>8. new \in Rec /\ Sound(new) /\ ~Dead(new)
  <2>1. PICK n : n = Bump(R, idx[d][p])
    OBVIOUS
  <2>2. n \in Nat
    BY <1>2, <2>1, PathFacts DEF Bump
  <2> QED
    BY <1>5, <1>7, <2>1, <2>2, HereIs, SentRecord
<1>9. idx[d][p].local.dl \in Nat /\ 0 \in Nat
  BY PathFacts DEF LocalState
<1>10. \A dl \in Nat : Hashed(d, p, dl) \in LocalState
  BY HashedTyped DEF Inv
<1>11. pend \in [Device -> SUBSET (Path \X Rec)]
  BY DEF Inv, Typed
<1>12. \/ Record(d, p, R, Hashed(d, p, 0)) /\ UNCHANGED <<pend, sweep>>
       \/ Record(d, p, R, Hashed(d, p, idx[d][p].local.dl)) /\ UNCHANGED <<pend, sweep>>
       \/ NotOk(d) /\ UNCHANGED <<idx, pend>>
       \/ Record(d, p, new, Hashed(d, p, 0)) /\ Enqueue(d, p, new) /\ UNCHANGED sweep
  BY <1>2, <1>3, <1>7 DEF Send
<1>13. ASSUME NEW dl \in Nat, Record(d, p, R, Hashed(d, p, dl)), UNCHANGED <<pend, sweep>>
       PROVE  Inv'
  <2>1. SweepsKept /\ sweep' \in [Device -> SweepState] /\ pend' \in [Device -> SUBSET (Path \X Rec)]
    BY <1>11, <1>13, SweepUnmoved DEF Inv
  <2> QED
    BY <1>1, <1>5, <1>6, <1>10, <1>13, <2>1, WrittenDown
<1>14. CASE NotOk(d) /\ UNCHANGED <<idx, pend>>
  BY <1>1, <1>14, SweepUnmoved, GivenUp DEF Inv
<1>15. CASE Record(d, p, new, Hashed(d, p, 0)) /\ Enqueue(d, p, new) /\ UNCHANGED sweep
  <2>1. SweepsKept /\ sweep' \in [Device -> SweepState]
    BY <1>15, SweepUnmoved DEF Inv
  <2>2. pend' \in [Device -> SUBSET (Path \X Rec)]
    BY <1>8, <1>15, EnqueueTyped DEF Inv
  <2>3. \A e \in Device : \A x \in pend'[e] :
             x \in pend[e] \/ (e = d /\ x[1] = p /\ Sound(x[2]) /\ (Dead(x[2]) => p \in cut))
    BY <1>8, <1>11, <1>15 DEF Enqueue
  <2>4. Hashed(d, p, 0) \in LocalState
    BY <1>9, <1>10
  <2> QED
    BY <1>1, <1>5, <1>6, <1>8, <1>15, <2>1, <2>2, <2>3, <2>4, WrittenDown
<1> QED
  BY <1>9, <1>12, <1>13, <1>14, <1>15

(* While ours is moved aside and theirs not yet in place the file is       *)
(* absent, and the record is ahead of the journal: no deletion is read     *)
(* from it.                                                                *)
LEMMA KeepBothKeeps ==
    ASSUME Inv, NEW d \in Device, NEW p \in Path, KeepBoth(d, p)
    PROVE  Inv'
<1>1. Turn(d, p, {"keepBoth"}) /\ UNCHANGED <<rec, saved, base, pend, cut, fresh>>
  BY DEF KeepBoth, history
<1>2. PICK R \in Rec : R = sweep[d].st[p]
  BY PathFacts
<1>3. PICK L \in FileState : L = disk[d][p]
  BY PathFacts
<1>4. plan[d][p] = "keepBoth" /\ OK(d, p) /\ sweep[d].pc \notin {"idle", "read"}
  BY <1>1, TurnSays, PathFacts
<1>5. R.live /\ Sound(R) /\ FileOK(L) /\ idx[d][p] = saved[d][p] /\ rec[p].v > idx[d][p].rec.v
  BY <1>2, <1>3, <1>4, PathFacts DEF OK, PathOK
<1>6. CASE ~Here(L)
  <2>1. Done(d, p) /\ NotOk(d) /\ UNCHANGED <<disk, idx>>
    BY <1>3, <1>6 DEF KeepBoth
  <2> QED
    BY <1>1, <2>1, SweepUnmoved, GivenUp DEF Inv
<1>7. CASE Here(L) /\ L.c = R.c
  <2>1. Record(d, p, R, Hashed(d, p, 0)) /\ Done(d, p) /\ UNCHANGED <<disk, sweep>>
    BY <1>2, <1>3, <1>7 DEF KeepBoth
  <2>2. 0 \in Nat
    OBVIOUS
  <2>3. Hashed(d, p, 0) \in LocalState
    BY <2>2, HashedTyped DEF Inv
  <2>4. SweepsKept /\ sweep' \in [Device -> SweepState]
    BY <2>1, SweepUnmoved DEF Inv
  <2>5. pend' \in [Device -> SUBSET (Path \X Rec)]
    BY <1>1 DEF Inv, Typed
  <2>6. disk' = [disk EXCEPT ![d][p] = L] /\ L # NoFile
    BY <1>3, <1>7, <2>1, PathFacts DEF Here
  <2> QED
    BY <1>1, <1>5, <2>1, <2>3, <2>4, <2>5, <2>6, WrittenDown
<1>8. CASE Here(L) /\ L.c # R.c
  <2>1. PICK q : q = ConflictPath(p, R)
    OBVIOUS
  <2>2. disk' = [disk EXCEPT ![d][p] = NoFile, ![d][q] = L] /\ plan' = [plan EXCEPT ![d][p] = "commit"]
        /\ UNCHANGED <<idx, sweep>>
    BY <1>2, <1>3, <1>8, <2>1 DEF KeepBoth
  <2>3. disk' \in [Device -> [Path -> FileState]] /\ plan' \in [Device -> [Path -> Buckets]]
    BY <2>2, Blanks DEF Inv, Typed, Buckets
  <2>4. Typed'
    BY <1>1, <2>2, <2>3 DEF Inv, Typed
  <2>5. Elsewhere(d, {p, q})
    BY <2>2 DEF Inv, Typed, Elsewhere
  <2>6. SweepsKept
    BY <2>2 DEF SweepsKept
  <2>7. QueuedWell
    <3>1. \A x \in pend[d] : x[1] # p
      BY <1>4 DEF Inv, PendOK
    <3>2. \A e \in Device : \A x \in pend[e] : x[1] \in Path
      BY DEF Inv, Typed
    <3> QED
      BY <1>1, <2>2, <3>1, <3>2 DEF QueuedWell, Inv, Typed
  <2>8. L # NoFile
    BY <1>8 DEF Here
  <2>9. OK(d, p)'
    <3>1. plan'[d][p] = "commit" /\ (disk'[d][p] = NoFile \/ disk'[d][p] = L)
      BY <2>2 DEF Inv, Typed
    <3>2. FileOK(disk'[d][p])
      BY <1>5, <3>1 DEF FileOK
    <3> QED
      BY <1>1, <1>2, <1>4, <1>5, <2>2, <3>1, <3>2, PathFacts DEF OK, PathOK
  <2>10. ASSUME q \in Path, q # p PROVE OK(d, q)'
    <3>1. plan'[d][q] = plan[d][q] /\ disk'[d][q] = L
      BY <2>2, <2>10 DEF Inv, Typed
    <3>2. OK(d, q)
      BY <2>10 DEF Inv
    <3> QED
      BY <1>1, <1>5, <2>2, <2>8, <3>1, <3>2 DEF OK, PathOK, Absent, Here
  <2> QED
    BY <1>1, <2>4, <2>5, <2>6, <2>7, <2>9, <2>10, LocalStep
<1> QED
  BY <1>6, <1>7, <1>8

-----------------------------------------------------------------------------
(* A step of one device's sweep as a whole: the other devices see at most  *)
(* newer records.                                                          *)
LEMMA DeviceStep ==
    ASSUME Inv, Typed', NEW d \in Device, UNCHANGED <<disk, cut>>,
           \A e \in Device : e # d => saved'[e] = saved[e] /\ idx'[e] = idx[e] /\ sweep'[e] = sweep[e]
                                      /\ plan'[e] = plan[e] /\ pend'[e] = pend[e],
           \A q \in Path : rec[q].v <= rec'[q].v,
           \A q \in Path : OK(d, q)', PendOK(d)', RecOK'
    PROVE  Inv'
<1>1. ASSUME NEW e \in Device, NEW q \in Path PROVE OK(e, q)'
  <2>1. CASE e # d
    BY <2>1, Stays
  <2> QED
    BY <2>1
<1>2. ASSUME NEW e \in Device PROVE PendOK(e)'
  <2>1. CASE e # d
    <3>1. PendOK(e)
      BY DEF Inv
    <3> QED
      BY <2>1, <3>1 DEF PendOK
  <2> QED
    BY <2>1
<1> QED
  BY <1>1, <1>2 DEF Inv

(* Where the records are not touched.                                      *)
LEMMA SameRecords ==
    ASSUME Inv, UNCHANGED <<rec, cut>>
    PROVE  RecOK' /\ \A q \in Path : rec[q].v <= rec'[q].v
  BY DEF Inv, RecOK, Typed, Rec

(* A device whose sweep is over, or has not decided yet.                   *)
LEMMA IdleOK ==
    ASSUME Inv, NEW d \in Device, NEW q \in Path, UNCHANGED <<disk, cut>>,
           rec'[q] \in Rec, rec[q].v <= rec'[q].v,
           saved'[d][q] = saved[d][q] \/ saved'[d][q] = NoEntry, idx'[d][q] = saved'[d][q],
           sweep'[d] = Idle, plan'[d][q] = "none"
    PROVE  OK(d, q)'
<1>1. OK(d, q) /\ rec[q].v \in Nat /\ saved[d][q].rec.v \in Nat
  BY PathFacts
<1>2. sweep'[d].pc = "idle" /\ sweep'[d].st[q] = NoRec /\ sweep'[d].dk[q] = NoFile
  BY DEF Idle, EmptyDisk
<1>3. Sound(NoRec) /\ ~Dead(NoRec) /\ NoRec.v = 0 /\ FileOK(NoFile)
  BY DEF Sound, Dead, Said, NoRec, FileOK
<1>4. NoEntry.rec.live = FALSE
  BY DEF NoEntry, Entry, NoRec
<1>5. FileOK(disk[d][q]) /\ (Absent(disk[d][q], saved[d][q]) => q \in cut \/ rec[q].v > saved[d][q].rec.v)
  BY <1>1 DEF OK, PathOK
<1>6. rec'[q].v \in Nat
  BY DEF Rec
<1>7. Absent(disk[d][q], saved'[d][q]) => q \in cut \/ rec'[q].v > saved'[d][q].rec.v
  BY <1>1, <1>4, <1>5, <1>6 DEF Absent
<1> QED
  BY <1>2, <1>3, <1>5, <1>6, <1>7 DEF OK, PathOK, Absent

(* A lost journal knows no file, so it misses none.                        *)
LEMMA RejoinKeeps ==
    ASSUME Inv, NEW d \in Device, Rejoin(d)
    PROVE  Inv'
<1>1. /\ saved' = [saved EXCEPT ![d] = [p \in Path |-> NoEntry]]
      /\ idx' = [idx EXCEPT ![d] = saved'[d]]
      /\ base' = [base EXCEPT ![d] = FALSE]
      /\ UNCHANGED <<rec, disk, sweep, plan, pend, cut, fresh>>
      /\ sweep[d].pc = "idle"
  BY DEF Rejoin, history
<1>2. saved' \in [Device -> [Path -> EntryState]] /\ idx' \in [Device -> [Path -> EntryState]]
  BY <1>1, Blanks DEF Inv, Typed
<1>3. Typed'
  BY <1>1, <1>2 DEF Inv, Typed
<1>4. ASSUME NEW q \in Path PROVE OK(d, q)'
  <2>1. saved'[d][q] = NoEntry /\ idx'[d][q] = NoEntry
    BY <1>1 DEF Inv, Typed
  <2>2. NoEntry.rec.live = FALSE
    BY DEF NoEntry, Entry, NoRec
  <2>3. OK(d, q)
    BY DEF Inv
  <2> QED
    BY <1>1, <2>1, <2>2, <2>3 DEF OK, PathOK, Absent
<1>5. PendOK(d)'
  BY <1>1 DEF Inv, PendOK
<1>6. \A e \in Device : e # d => saved'[e] = saved[e] /\ idx'[e] = idx[e]
  BY <1>1 DEF Inv, Typed
<1> QED
  BY <1>1, <1>3, <1>4, <1>5, <1>6, SameRecords, DeviceStep

(* What was not saved is forgotten.                                        *)
LEMMA CrashKeeps ==
    ASSUME Inv, NEW d \in Device, Crash(d)
    PROVE  Inv'
<1>1. /\ sweep' = [sweep EXCEPT ![d] = Idle]
      /\ plan' = [plan EXCEPT ![d] = Nothing]
      /\ pend' = [pend EXCEPT ![d] = {}]
      /\ idx' = [idx EXCEPT ![d] = saved[d]]
      /\ UNCHANGED <<rec, disk, saved, base, cut, fresh>>
  BY DEF Crash, history
<1>2. Typed'
  BY <1>1, Blanks DEF Inv, Typed
<1>3. sweep'[d] = Idle /\ pend'[d] = {} /\ \A q \in Path : plan'[d][q] = "none" /\ idx'[d][q] = saved'[d][q]
  BY <1>1 DEF Inv, Typed, Nothing
<1>4. ASSUME NEW q \in Path PROVE OK(d, q)'
  <2>1. rec'[q] \in Rec /\ rec[q].v <= rec'[q].v
    BY <1>1, SameRecords DEF Inv, Typed
  <2> QED
    BY <1>1, <1>3, <2>1, IdleOK
<1>5. PendOK(d)'
  BY <1>3 DEF PendOK
<1>6. \A e \in Device : e # d => sweep'[e] = sweep[e] /\ plan'[e] = plan[e] /\ pend'[e] = pend[e]
                                /\ idx'[e] = idx[e]
  BY <1>1 DEF Inv, Typed
<1> QED
  BY <1>1, <1>2, <1>4, <1>5, <1>6, SameRecords, DeviceStep

(* The end of a clean sweep.                                               *)
LEMMA FinishKeeps ==
    ASSUME Inv, NEW d \in Device, Finish(d)
    PROVE  Inv'
<1>1. /\ plan[d] = Nothing /\ pend[d] = {} /\ idx[d] = saved[d]
      /\ sweep' = [sweep EXCEPT ![d] = Idle]
      /\ UNCHANGED <<rec, disk, saved, idx, plan, pend, cut, fresh>>
  BY DEF Finish, history, Drained, Dirty
<1>2. base' \in [Device -> BOOLEAN]
  <2>1. PICK b \in BOOLEAN : b <=> (base[d] \/ (sweep[d].ok /\ sweep[d].whole))
    OBVIOUS
  <2>2. base \in [Device -> BOOLEAN] /\ sweep[d].ok \in BOOLEAN /\ sweep[d].whole \in BOOLEAN
    BY DEF Inv, Typed, SweepState
  <2>3. (base[d] \/ (sweep[d].ok /\ sweep[d].whole)) \in BOOLEAN
    OBVIOUS
  <2> QED
    BY <2>2, <2>3 DEF Finish
<1>3. Typed'
  BY <1>1, <1>2, Blanks DEF Inv, Typed
<1>4. sweep'[d] = Idle /\ \A q \in Path : plan'[d][q] = "none" /\ idx'[d][q] = saved'[d][q]
  BY <1>1 DEF Inv, Typed, Nothing
<1>5. ASSUME NEW q \in Path PROVE OK(d, q)'
  <2>1. rec'[q] \in Rec /\ rec[q].v <= rec'[q].v
    BY <1>1, SameRecords DEF Inv, Typed
  <2> QED
    BY <1>1, <1>4, <2>1, IdleOK
<1>6. PendOK(d)'
  BY <1>1 DEF PendOK
<1>7. \A e \in Device : e # d => sweep'[e] = sweep[e]
  BY <1>1 DEF Inv, Typed
<1> QED
  BY <1>1, <1>3, <1>5, <1>6, <1>7, SameRecords, DeviceStep

(* A pause takes work off the plan and adds none.                          *)
LEMMA StopKeeps ==
    ASSUME Inv, NEW d \in Device, Stop(d)
    PROVE  Inv'
<1>1. UNCHANGED <<rec, disk, saved, base, idx, pend, cut, fresh>>
      /\ sweep' = [sweep EXCEPT ![d] = [sweep[d] EXCEPT !.whole = FALSE]] /\ sweep[d].pc = "work"
  BY DEF Stop, history
<1>2. PICK f \in [Path -> Buckets] : plan' = [plan EXCEPT ![d] = f]
                                   /\ \A q \in Path : f[q] = "none" \/ f[q] = plan[d][q]
  <2> DEFINE f(early) == [p \in Path |-> IF plan[d][p] = "settle" /\ ~early THEN "settle" ELSE "none"]
  <2>1. \E early : plan' = [plan EXCEPT ![d] = f(early)]
    BY DEF Stop
  <2>2. \A early : f(early) \in [Path -> Buckets] /\ \A q \in Path : f(early)[q] = "none" \/ f(early)[q] = plan[d][q]
    BY DEF Buckets
  <2> HIDE DEF f
  <2> QED
    BY <2>1, <2>2
<1>3. sweep[d] \in SweepState
  BY DEF Inv, Typed
<1>4. [sweep[d] EXCEPT !.whole = FALSE] \in SweepState
  BY <1>3 DEF SweepState
<1>5. Typed'
  BY <1>1, <1>2, <1>4 DEF Inv, Typed
<1>6. sweep'[d].pc = "work" /\ sweep'[d].st = sweep[d].st /\ sweep'[d].dk = sweep[d].dk
  <2>1. sweep'[d] = [sweep[d] EXCEPT !.whole = FALSE]
    BY <1>1 DEF Inv, Typed
  <2> QED
    BY <1>1, <1>3, <2>1 DEF SweepState
<1>7. \A q \in Path : plan'[d][q] = "none" \/ plan'[d][q] = plan[d][q]
  BY <1>2 DEF Inv, Typed
<1>8. ASSUME NEW q \in Path PROVE OK(d, q)'
  <2>1. OK(d, q)
    BY DEF Inv
  <2> QED
    BY <1>1, <1>6, <1>7, <2>1 DEF OK, PathOK
<1>9. PendOK(d)'
  <2>1. \A x \in pend[d] : x[1] \in Path
    BY DEF Inv, Typed
  <2> QED
    BY <1>1, <1>6, <1>7, <2>1 DEF Inv, PendOK
<1>10. \A e \in Device : e # d => sweep'[e] = sweep[e] /\ plan'[e] = plan[e]
  BY <1>1, <1>2 DEF Inv, Typed
<1> QED
  BY <1>1, <1>5, <1>8, <1>9, <1>10, SameRecords, DeviceStep

(* The journal in memory becomes the saved one.                            *)
LEMMA SaveIndexKeeps ==
    ASSUME Inv, NEW d \in Device, SaveIndex(d)
    PROVE  Inv'
<1>1. /\ sweep[d].pc = "save"
      /\ saved' = [saved EXCEPT ![d] = idx[d]]
      /\ sweep' = [sweep EXCEPT ![d] = [sweep[d] EXCEPT !.pc = "work"]]
      /\ UNCHANGED <<rec, disk, base, idx, plan, pend, cut, fresh>>
  BY DEF SaveIndex, history
<1>2. sweep[d] \in SweepState
  BY DEF Inv, Typed
<1>3. [sweep[d] EXCEPT !.pc = "work"] \in SweepState
  BY <1>2 DEF SweepState
<1>4. Typed'
  BY <1>1, <1>3 DEF Inv, Typed
<1>5. sweep'[d].pc = "work" /\ sweep'[d].st = sweep[d].st /\ sweep'[d].dk = sweep[d].dk
  <2>1. sweep'[d] = [sweep[d] EXCEPT !.pc = "work"]
    BY <1>1 DEF Inv, Typed
  <2> QED
    BY <1>2, <2>1 DEF SweepState
<1>6. saved'[d] = idx[d]
  BY <1>1 DEF Inv, Typed
<1>7. ASSUME NEW q \in Path PROVE OK(d, q)'
  <2>1. OK(d, q)
    BY DEF Inv
  <2> QED
    BY <1>1, <1>5, <1>6, <2>1 DEF OK, PathOK
<1>8. PendOK(d)'
  BY <1>1, <1>5 DEF Inv, PendOK
<1>9. \A e \in Device : e # d => sweep'[e] = sweep[e] /\ saved'[e] = saved[e]
  BY <1>1 DEF Inv, Typed
<1> QED
  BY <1>1, <1>4, <1>7, <1>8, <1>9, SameRecords, DeviceStep

(* The records are read: an absence is explained by them as it was before. *)
LEMMA StartSweepKeeps ==
    ASSUME Inv, NEW d \in Device, NEW o \in {Ordinary, Mirror}, StartSweep(d, o)
    PROVE  Inv'
<1>1. PICK S : S = [Idle EXCEPT !.pc = "read", !.opts = o, !.st = rec]
  OBVIOUS
<1>2. /\ sweep[d].pc = "idle"
      /\ sweep' = [sweep EXCEPT ![d] = S]
      /\ idx' = [idx EXCEPT ![d] = saved[d]]
      /\ UNCHANGED <<rec, disk, saved, base, plan, pend, cut, fresh>>
  BY <1>1 DEF StartSweep, history
<1>3. rec \in [Path -> Rec]
  BY DEF Inv, Typed
<1>4. S \in SweepState /\ S.pc = "read" /\ S.st = rec /\ S.dk = EmptyDisk
  BY <1>1, <1>3, Blanks DEF Idle, SweepState
<1>5. Typed'
  BY <1>2, <1>4 DEF Inv, Typed
<1>6. sweep'[d] = S /\ idx'[d] = saved[d]
  BY <1>2 DEF Inv, Typed
<1>7. ASSUME NEW q \in Path PROVE OK(d, q)'
  <2>1. OK(d, q) /\ rec[q].v \in Nat
    BY PathFacts
  <2>2. EmptyDisk[q] = NoFile /\ FileOK(NoFile)
    BY DEF EmptyDisk, FileOK
  <2>3. Sound(rec[q]) /\ (Dead(rec[q]) => q \in cut)
    BY DEF Inv, RecOK
  <2>4. idx[d][q] = saved[d][q] /\ plan[d][q] = "none"
    BY <1>2, <2>1 DEF OK, PathOK
  <2> QED
    BY <1>2, <1>4, <1>6, <2>1, <2>2, <2>3, <2>4 DEF OK, PathOK
<1>8. PendOK(d)'
  BY <1>2 DEF Inv, PendOK
<1>9. \A e \in Device : e # d => sweep'[e] = sweep[e] /\ idx'[e] = idx[e]
  BY <1>2 DEF Inv, Typed
<1> QED
  BY <1>2, <1>5, <1>7, <1>8, <1>9, SameRecords, DeviceStep

(* What the server has after newer records landed.                         *)
LEMMA LandedSays ==
    ASSUME Typed, NEW recs, recs \subseteq Path \X Rec, NEW q \in Path
    PROVE  /\ Mentions(recs, q) => \E x \in recs : x[1] = q /\ Landed(recs)[q] = x[2]
           /\ ~Mentions(recs, q) => Landed(recs)[q] = rec[q]
           /\ Landed(recs) = [p \in Path |-> Landed(recs)[p]]
<1>1. Landed(recs)[q] = IF Mentions(recs, q) THEN (CHOOSE x \in recs : x[1] = q)[2] ELSE rec[q]
  BY DEF Landed
<1>2. Mentions(recs, q) => \E x \in recs : x = (CHOOSE y \in recs : y[1] = q) /\ x[1] = q
  BY DEF Mentions
<1>3. Landed(recs) = [p \in Path |-> Landed(recs)[p]]
  BY DEF Landed
<1> QED
  BY <1>1, <1>2, <1>3

(* A publish makes records newer, and dead only where a user deleted.      *)
LEMMA Publishes ==
    ASSUME Inv, UNCHANGED cut, NEW d \in Device, NEW asked, asked \subseteq pend[d], rec' = Landed(Newer(asked))
    PROVE  rec' \in [Path -> Rec] /\ RecOK' /\ \A q \in Path : rec[q].v <= rec'[q].v
<1>1. PICK recs : recs = Newer(asked)
  OBVIOUS
<1>2. recs \subseteq Path \X Rec /\ \A x \in recs : x \in pend[d] /\ x[2].v > rec[x[1]].v
  BY <1>1 DEF Newer, Inv, Typed
<1>3. ASSUME NEW q \in Path
      PROVE  rec'[q] \in Rec /\ rec[q].v <= rec'[q].v /\ Sound(rec'[q]) /\ (Dead(rec'[q]) => q \in cut)
  <2>1. rec[q] \in Rec /\ rec[q].v \in Nat /\ Sound(rec[q]) /\ (Dead(rec[q]) => q \in cut)
    BY DEF Inv, Typed, RecOK, Rec
  <2>2. CASE Mentions(recs, q)
    <3>1. PICK x \in recs : x[1] = q /\ rec'[q] = x[2]
      BY <1>1, <1>2, <2>2, LandedSays DEF Inv
    <3>2. x[2] \in Rec /\ x[2].v \in Nat /\ x[2].v > rec[q].v
      BY <1>2, <3>1 DEF Rec
    <3>3. Sound(x[2]) /\ (Dead(x[2]) => q \in cut)
      BY <1>2, <3>1 DEF Inv, PendOK
    <3> QED
      BY <2>1, <3>1, <3>2, <3>3
  <2>3. CASE ~Mentions(recs, q)
    <3>1. rec'[q] = rec[q]
      BY <1>1, <1>2, <2>3, LandedSays DEF Inv
    <3> QED
      BY <2>1, <3>1
  <2> QED
    BY <2>2, <2>3
<1>4. rec' = [p \in Path |-> rec'[p]]
  BY <1>1 DEF Landed
<1>5. rec' \in [Path -> Rec]
  BY <1>3, <1>4
<1>6. RecOK'
  BY <1>3 DEF RecOK
<1> QED
  BY <1>3, <1>5, <1>6

(* A path at a checkpoint: done paths may lose their journal entry.        *)
LEMMA CheckpointOK ==
    ASSUME Inv, NEW d \in Device, NEW q \in Path, UNCHANGED <<disk, cut, saved, plan>>,
           rec'[q] \in Rec, rec[q].v <= rec'[q].v, sweep[d].pc = "work",
           sweep'[d].pc \in {"work", "save"}, sweep'[d].st = sweep[d].st, sweep'[d].dk = sweep[d].dk,
           idx'[d][q] = idx[d][q] \/ (idx'[d][q] = NoEntry /\ plan[d][q] = "none")
    PROVE  OK(d, q)'
<1>1. OK(d, q) /\ rec[q].v \in Nat /\ saved[d][q].rec.v \in Nat /\ idx[d][q].rec.v \in Nat
      /\ sweep[d].st[q].v \in Nat
  BY PathFacts
<1>2. rec'[q].v \in Nat
  BY DEF Rec
<1>3. NoEntry.rec.live = FALSE
  BY DEF NoEntry, Entry, NoRec
<1>4. CASE idx'[d][q] = idx[d][q]
  BY <1>1, <1>2, <1>4 DEF OK, PathOK
<1>5. CASE idx'[d][q] = NoEntry /\ plan[d][q] = "none"
  <2>1. ~Absent(disk[d][q], NoEntry)
    BY <1>3 DEF Absent
  <2> QED
    BY <1>1, <1>2, <1>5, <2>1 DEF OK, PathOK
<1> QED
  BY <1>4, <1>5

(* A checkpoint in terms of what it asks for and what was stale.           *)
LEMMA PublishIs ==
    ASSUME Inv, NEW d \in Device, NEW refused, Publish(d, refused)
    PROVE  \E asked, stale : /\ asked = pend[d] \ refused /\ stale = asked \ Newer(asked)
                             /\ rec' = Landed(Newer(asked))
                             /\ idx' = [idx EXCEPT ![d] = [p \in Path |->
                                  IF Mentions(stale, p) THEN NoEntry ELSE idx[d][p]]]
  BY DEF Publish, Inv, Typed

(* A checkpoint: a stale record loses its journal entry, and its path has  *)
(* no work left.                                                           *)
LEMMA PublishKeeps ==
    ASSUME Inv, NEW d \in Device, NEW refused, Publish(d, refused)
    PROVE  Inv'
<1>1. PICK asked, stale : /\ asked = pend[d] \ refused /\ stale = asked \ Newer(asked)
                          /\ rec' = Landed(Newer(asked))
                          /\ idx' = [idx EXCEPT ![d] = [p \in Path |->
                               IF Mentions(stale, p) THEN NoEntry ELSE idx[d][p]]]
  BY PublishIs
<1>2. PICK b \in BOOLEAN : sweep' = [sweep EXCEPT ![d] = [sweep[d] EXCEPT !.pc = "save", !.ok = b]]
  <2>1. (sweep[d].ok /\ refused = {}) \in BOOLEAN
    OBVIOUS
  <2> QED
    BY <2>1 DEF Publish, Inv, Typed
<1>3. sweep[d].pc = "work" /\ pend' = [pend EXCEPT ![d] = {}]
      /\ UNCHANGED <<disk, saved, base, plan, cut, fresh>>
  BY DEF Publish, history
<1>4. sweep[d] \in SweepState
  BY DEF Inv, Typed
<1>5. [sweep[d] EXCEPT !.pc = "save", !.ok = b] \in SweepState
  BY <1>4 DEF SweepState
<1>6. rec' \in [Path -> Rec] /\ RecOK' /\ \A q \in Path : rec[q].v <= rec'[q].v
  BY <1>1, <1>3, Publishes
<1>7. Typed'
  <2>1. idx' \in [Device -> [Path -> EntryState]]
    BY <1>1, Blanks DEF Inv, Typed
  <2> QED
    BY <1>2, <1>3, <1>5, <1>6, <2>1 DEF Inv, Typed
<1>8. sweep'[d].pc = "save" /\ sweep'[d].st = sweep[d].st /\ sweep'[d].dk = sweep[d].dk
  <2>1. sweep'[d] = [sweep[d] EXCEPT !.pc = "save", !.ok = b]
    BY <1>2 DEF Inv, Typed
  <2> QED
    BY <1>4, <2>1 DEF SweepState
<1>9. ASSUME NEW q \in Path PROVE OK(d, q)'
  <2>1. idx'[d][q] = IF Mentions(stale, q) THEN NoEntry ELSE idx[d][q]
    BY <1>1 DEF Inv, Typed
  <2>2. Mentions(stale, q) => plan[d][q] = "none"
    BY <1>1 DEF Mentions, Inv, PendOK
  <2>3. rec'[q] \in Rec
    BY <1>6
  <2> QED
    BY <1>3, <1>6, <1>8, <2>1, <2>2, <2>3, CheckpointOK
<1>10. PendOK(d)'
  BY <1>3, <1>8 DEF Inv, Typed, PendOK
<1>11. \A e \in Device : e # d => sweep'[e] = sweep[e] /\ idx'[e] = idx[e] /\ pend'[e] = pend[e]
  BY <1>1, <1>2, <1>3 DEF Inv, Typed
<1> QED
  BY <1>3, <1>6, <1>7, <1>9, <1>10, <1>11, DeviceStep

(* A publish without an answer, at the end of a sweep or before it.        *)
LEMMA PublishThrowsKeeps ==
    ASSUME Inv, NEW d \in Device, NEW arrived \in BOOLEAN, PublishThrows(d, arrived)
    PROVE  Inv'
<1>1. sweep[d].pc = "work" /\ pend' = [pend EXCEPT ![d] = {}]
      /\ UNCHANGED <<disk, saved, base, plan, cut, fresh>>
  BY DEF PublishThrows, history
<1>2. rec' = Landed(Newer(pend[d])) \/ rec' = rec
  BY DEF PublishThrows
<1>3. rec' \in [Path -> Rec] /\ RecOK' /\ \A q \in Path : rec[q].v <= rec'[q].v
  <2>1. CASE rec' = rec
    BY <1>1, <2>1, SameRecords DEF Inv, Typed
  <2>2. CASE rec' = Landed(Newer(pend[d]))
    BY <1>1, <2>2, Publishes
  <2> QED
    BY <1>2, <2>1, <2>2
<1>4. CASE plan[d] = Nothing
  <2>1. sweep' = [sweep EXCEPT ![d] = Idle] /\ idx' = [idx EXCEPT ![d] = saved[d]]
    BY <1>4 DEF PublishThrows, Drained
  <2>2. Typed'
    BY <1>1, <1>3, <2>1, Blanks DEF Inv, Typed
  <2>3. sweep'[d] = Idle /\ pend'[d] = {} /\ \A q \in Path : plan'[d][q] = "none" /\ idx'[d][q] = saved'[d][q]
    BY <1>1, <1>4, <2>1 DEF Inv, Typed, Nothing
  <2>4. ASSUME NEW q \in Path PROVE OK(d, q)'
    <3>1. rec'[q] \in Rec
      BY <1>3
    <3> QED
      BY <1>1, <1>3, <2>3, <3>1, IdleOK
  <2>5. PendOK(d)'
    BY <2>3 DEF PendOK
  <2>6. \A e \in Device : e # d => sweep'[e] = sweep[e] /\ idx'[e] = idx[e] /\ pend'[e] = pend[e]
    BY <1>1, <2>1 DEF Inv, Typed
  <2> QED
    BY <1>1, <1>3, <2>2, <2>4, <2>5, <2>6, DeviceStep
<1>5. CASE plan[d] # Nothing
  <2>1. sweep' = [sweep EXCEPT ![d] = [sweep[d] EXCEPT !.whole = FALSE]] /\ UNCHANGED idx
    BY <1>5 DEF PublishThrows, Drained
  <2>2. sweep[d] \in SweepState
    BY DEF Inv, Typed
  <2>3. [sweep[d] EXCEPT !.whole = FALSE] \in SweepState
    BY <2>2 DEF SweepState
  <2>4. Typed'
    BY <1>1, <1>3, <2>1, <2>3 DEF Inv, Typed
  <2>5. sweep'[d].pc = "work" /\ sweep'[d].st = sweep[d].st /\ sweep'[d].dk = sweep[d].dk
    <3>1. sweep'[d] = [sweep[d] EXCEPT !.whole = FALSE]
      BY <2>1 DEF Inv, Typed
    <3> QED
      BY <1>1, <2>2, <3>1 DEF SweepState
  <2>6. ASSUME NEW q \in Path PROVE OK(d, q)'
    <3>1. rec'[q] \in Rec
      BY <1>3
    <3> QED
      BY <1>1, <1>3, <2>1, <2>5, <3>1, CheckpointOK
  <2>7. PendOK(d)'
    BY <1>1, <2>5 DEF Inv, Typed, PendOK
  <2>8. \A e \in Device : e # d => sweep'[e] = sweep[e] /\ pend'[e] = pend[e]
    BY <1>1, <2>1 DEF Inv, Typed
  <2> QED
    BY <1>1, <1>3, <2>1, <2>4, <2>6, <2>7, <2>8, DeviceStep
<1> QED
  BY <1>4, <1>5

(* A scan sees a file exactly where there is one.                          *)
LEMMA ScannedSays ==
    ASSUME NEW L \in FileState, FileOK(L), NEW hash
    PROVE  /\ (hash \in BOOLEAN => Scanned(L, hash) \in FileState) /\ FileOK(Scanned(L, hash))
           /\ Here(Scanned(L, hash)) <=> Here(L)
<1>1. CASE L = NoFile
  BY <1>1 DEF Scanned
<1>2. CASE L # NoFile
  <2>1. Scanned(L, hash) = [L EXCEPT !.h = hash] /\ L.c # None
    BY <1>2 DEF Scanned, FileOK
  <2>2. [L EXCEPT !.h = hash].c = L.c /\ (hash \in BOOLEAN => [L EXCEPT !.h = hash] \in FileState)
    BY DEF FileState
  <2> QED
    BY <1>2, <2>1, <2>2 DEF FileOK, Here, NoFile
<1> QED
  BY <1>1, <1>2

(* The decision: a deletion is planned only for an absence that is one, a  *)
(* removal only for a dead record.                                         *)
LEMMA ScanKeeps ==
    ASSUME Inv, NEW d \in Device, NEW hash \in BOOLEAN, NEW unread, NEW confirmed \in BOOLEAN,
           Scan(d, hash, unread, confirmed)
    PROVE  Inv'
<1>1. sweep[d].pc = "read" /\ UNCHANGED <<rec, disk, saved, base, idx, pend, cut, fresh>>
  BY DEF Scan, history
<1> DEFINE S == sweep[d]
           dk == [p \in Path |-> IF p \in unread THEN NoFile
                                 ELSE Scanned(disk[d][p], hash \/ Thin(d))]
           raw == [p \in Path |-> IF p \in unread THEN "none"
                                  ELSE Plan(dk[p], S.st[p], idx[d][p])]
           joined == IF base[d] THEN raw ELSE [p \in Path |-> JoinHolds(raw[p], S.st[p])]
           final == [p \in Path |-> WithOptions(joined[p], dk[p], S.st[p], S.opts)]
           held == ~base[d] /\ \E p \in Path : raw[p] \in {"remove", "tombstone"}
           kept == Kept(raw, final, dk, d, unread)
           todo == Checked(final, kept, confirmed)
<1>2. plan' = [plan EXCEPT ![d] = todo]
      /\ sweep' = [sweep EXCEPT ![d].pc = "work", ![d].dk = dk, ![d].whole = ~held]
  BY DEF Scan
<1>3. ASSUME NEW q \in Path
      PROVE  /\ dk[q] \in FileState /\ FileOK(dk[q]) /\ (Here(dk[q]) => Here(disk[d][q]))
             /\ ~Here(dk[q]) /\ q \notin unread => ~Here(disk[d][q])
  <2>1. PICK deep \in BOOLEAN : deep = (hash \/ Thin(d))
    OBVIOUS
  <2>2. dk[q] = IF q \in unread THEN NoFile ELSE Scanned(disk[d][q], deep)
    BY <2>1
  <2>3. FileOK(disk[d][q]) /\ disk[d][q] \in FileState
    BY PathFacts DEF OK, PathOK
  <2> HIDE DEF dk
  <2> QED
    BY <2>2, <2>3, ScannedSays, Blanks DEF FileOK, Here
<1>4. ASSUME NEW q \in Path
      PROVE  /\ raw[q] = "none" \/ raw[q] = Plan(dk[q], S.st[q], idx[d][q])
             /\ raw[q] = "tombstone" => q \notin unread
             /\ joined[q] = raw[q] \/ joined[q] = JoinHolds(raw[q], S.st[q])
             /\ todo[q] = "none" \/ todo[q] = WithOptions(joined[q], dk[q], S.st[q], S.opts)
  <2>1. raw[q] = IF q \in unread THEN "none" ELSE Plan(dk[q], S.st[q], idx[d][q])
    OBVIOUS
  <2>2. joined[q] = raw[q] \/ joined[q] = JoinHolds(raw[q], S.st[q])
    <3> HIDE DEF raw
    <3> QED
      OBVIOUS
  <2>3. final[q] = WithOptions(joined[q], dk[q], S.st[q], S.opts) /\ DOMAIN final = Path
    <3> HIDE DEF joined, dk
    <3> QED
      OBVIOUS
  <2>4. todo[q] = "none" \/ todo[q] = final[q]
    <3> HIDE DEF final, kept
    <3> QED
      BY <2>3 DEF Checked
  <2> HIDE DEF raw, joined, final, todo, dk
  <2> QED
    BY <2>1, <2>2, <2>3, <2>4
<1>5. todo = [p \in Path |-> todo[p]]
  <2>1. DOMAIN final = Path
    OBVIOUS
  <2> HIDE DEF final, kept
  <2> QED
    BY <2>1 DEF Checked
<1>6. dk \in [Path -> FileState]
  <2>1. dk = [p \in Path |-> dk[p]]
    OBVIOUS
  <2> HIDE DEF dk
  <2> QED
    BY <1>3, <2>1
<1>7. PICK whole \in BOOLEAN : sweep' = [sweep EXCEPT ![d] = [S EXCEPT !.pc = "work", !.dk = dk, !.whole = whole]]
  <2>1. (~held) \in BOOLEAN
    OBVIOUS
  <2>2. PICK whole \in BOOLEAN : whole = ~held
    BY <2>1
  <2>3. sweep' = [sweep EXCEPT ![d] = [S EXCEPT !.pc = "work", !.dk = dk, !.whole = whole]]
    <3> HIDE DEF held, dk
    <3> QED
      BY <1>2, <2>2 DEF Inv, Typed
  <2> QED
    BY <2>3
<1> HIDE DEF dk, raw, joined, final, held, kept, todo
<1>8. ASSUME NEW q \in Path
      PROVE  /\ todo[q] \in Buckets \ {"commit"}
             /\ todo[q] \in {"fetch", "keepBoth"} => S.st[q].live
             /\ todo[q] = "keepBoth" => S.st[q].v > idx[d][q].rec.v
             /\ todo[q] = "remove" => Dead(S.st[q])
             /\ todo[q] \in {"send", "resurrect", "mustSend"} => Here(dk[q])
             /\ todo[q] = "tombstone" => /\ ~Here(disk[d][q]) /\ idx[d][q].local # NoLocal
                                         /\ idx[d][q].rec.live /\ ~(S.st[q].v > idx[d][q].rec.v)
  <2>1. PICK R \in Rec : R = S.st[q]
    BY PathFacts
  <2>2. PICK I \in EntryState : I = idx[d][q]
    BY PathFacts
  <2>3. PICK K \in FileState : K = dk[q]
    BY <1>3
  <2>4. PICK o \in {Ordinary, Mirror} : o = S.opts
    BY PathFacts DEF SweepState
  <2>5. /\ raw[q] = "none" \/ raw[q] = Plan(K, R, I)
        /\ joined[q] = raw[q] \/ joined[q] = JoinHolds(raw[q], R)
        /\ todo[q] = "none" \/ todo[q] = WithOptions(joined[q], K, R, o)
    BY <1>4, <2>1, <2>2, <2>3, <2>4
  <2>6. /\ todo[q] \in Buckets \ {"commit"}
        /\ todo[q] \in {"fetch", "keepBoth"} => R.live
        /\ todo[q] = "keepBoth" => R.v > I.rec.v
        /\ todo[q] = "remove" => Dead(R)
        /\ todo[q] \in {"send", "resurrect", "mustSend"} => Here(K)
        /\ todo[q] = "tombstone" => raw[q] = "tombstone" /\ raw[q] = Plan(K, R, I)
    <3>1. PICK r, j, b : r = raw[q] /\ j = joined[q] /\ b = todo[q]
      OBVIOUS
    <3>2. /\ r = "none" \/ r = Plan(K, R, I)
          /\ j = r \/ j = JoinHolds(r, R)
          /\ b = "none" \/ b = WithOptions(j, K, R, o)
      BY <2>5, <3>1
    <3>3. /\ b \in Buckets \ {"commit"}
          /\ b \in {"fetch", "keepBoth"} => R.live
          /\ b = "keepBoth" => R.v > I.rec.v
          /\ b = "remove" => Dead(R)
          /\ b \in {"send", "resurrect", "mustSend"} => Here(K)
          /\ b = "tombstone" => r = "tombstone" /\ r = Plan(K, R, I)
      BY <3>2, DecisionSays
    <3> QED
      BY <3>1, <3>3
  <2>7. todo[q] = "tombstone" => ~Here(K) /\ I.local # NoLocal /\ I.rec.live /\ ~(R.v > I.rec.v)
    BY <2>6, PlanSays
  <2>8. todo[q] = "tombstone" => ~Here(disk[d][q])
    BY <1>3, <1>4, <2>3, <2>6, <2>7
  <2> QED
    BY <2>1, <2>2, <2>3, <2>6, <2>7, <2>8
<1>9. todo \in [Path -> Buckets]
  BY <1>5, <1>8
<1>10. S \in SweepState
  BY DEF Inv, Typed
<1>11. [S EXCEPT !.pc = "work", !.dk = dk, !.whole = whole] \in SweepState
  BY <1>6, <1>10 DEF SweepState
<1>12. Typed'
  <2>1. plan' \in [Device -> [Path -> Buckets]]
    BY <1>2, <1>9 DEF Inv, Typed
  <2>2. sweep' \in [Device -> SweepState]
    <3> HIDE DEF S
    <3> QED
      BY <1>7, <1>11 DEF Inv, Typed
  <2> QED
    BY <1>1, <2>1, <2>2 DEF Inv, Typed
<1>13. sweep'[d].pc = "work" /\ sweep'[d].st = S.st /\ sweep'[d].dk = dk
  <2>1. sweep'[d] = [S EXCEPT !.pc = "work", !.dk = dk, !.whole = whole]
    BY <1>7 DEF Inv, Typed
  <2> QED
    BY <1>10, <2>1 DEF SweepState
<1>14. ASSUME NEW q \in Path PROVE OK(d, q)'
  <2>1. OK(d, q) /\ idx[d][q].rec.v \in Nat /\ S.st[q].v \in Nat
    BY PathFacts
  <2>2. plan'[d][q] = todo[q]
    BY <1>2 DEF Inv, Typed
  <2>3. todo[q] \in {"remove", "tombstone"} => q \in cut
    BY <1>1, <1>8, <2>1 DEF OK, PathOK, Absent, Here
  <2>4. idx[d][q] = saved[d][q]
    BY <1>1, <2>1 DEF OK, PathOK
  <2> QED
    BY <1>1, <1>3, <1>8, <1>13, <2>1, <2>2, <2>3, <2>4 DEF OK, PathOK, Here
<1>15. PendOK(d)'
  BY <1>1, <1>13 DEF Inv, PendOK
<1>16. \A e \in Device : e # d => sweep'[e] = sweep[e] /\ plan'[e] = plan[e]
  BY <1>2, <1>7 DEF Inv, Typed
<1> QED
  BY <1>1, <1>12, <1>14, <1>15, <1>16, SameRecords, DeviceStep

(* The invariant holds at first and is preserved by every step.            *)
LEMMA InitInv == Init => Inv
<1> SUFFICES ASSUME Init PROVE Inv
  OBVIOUS
<1>1. Typed
  <2>1. rec \in [Path -> Rec] /\ disk \in [Device -> [Path -> FileState]]
    BY Blanks, OrigTyped DEF Init
  <2>2. saved \in [Device -> [Path -> EntryState]] /\ idx \in [Device -> [Path -> EntryState]]
    BY Blanks, OrigTyped, EntryTyped DEF Init
  <2>3. base \in [Device -> BOOLEAN] /\ plan \in [Device -> [Path -> Buckets]]
        /\ sweep \in [Device -> SweepState] /\ pend \in [Device -> SUBSET (Path \X Rec)]
        /\ fresh \in SUBSET Content
    BY Blanks DEF Init
  <2> QED
    BY <2>1, <2>2, <2>3 DEF Typed
<1>2. ASSUME NEW p \in File PROVE Sound(OrigRec(p)) /\ ~Dead(OrigRec(p)) /\ OrigFile(p) # NoFile /\ FileOK(OrigFile(p))
  <2>1. Orig[p] # None
    BY ConstantsAssumption, NoneAssumption
  <2> QED
    BY <2>1 DEF Sound, Dead, OrigRec, OrigFile, NoFile, FileOK
<1>3. Sound(NoRec) /\ ~Dead(NoRec) /\ FileOK(NoFile) /\ NoRec.v = 0 /\ ~NoEntry.rec.live
  BY DEF Sound, Dead, Said, NoRec, FileOK, NoEntry, Entry
<1>4. RecOK
  BY <1>2, <1>3 DEF Init, RecOK
<1>5. ASSUME NEW d \in Device, NEW q \in Path PROVE OK(d, q)
  <2>1. sweep[d].pc = "idle" /\ sweep[d].st[q] = NoRec /\ sweep[d].dk[q] = NoFile /\ plan[d][q] = "none"
        /\ idx[d][q] = saved[d][q]
    BY DEF Init, Idle, EmptyDisk, Nothing
  <2>2. disk[d][q] = IF q \in File THEN OrigFile(q) ELSE NoFile
    BY DEF Init
  <2>3. q \notin File => saved[d][q] = NoEntry
    BY DEF Init
  <2>4. rec[q].v \in Nat
    BY <1>1 DEF Typed, Rec
  <2>5. FileOK(disk[d][q]) /\ ~Absent(disk[d][q], saved[d][q])
    BY <1>2, <1>3, <2>2, <2>3 DEF Absent
  <2> QED
    BY <1>3, <2>1, <2>4, <2>5 DEF OK, PathOK, Absent
<1>6. ASSUME NEW d \in Device PROVE PendOK(d)
  BY DEF Init, PendOK
<1> QED
  BY <1>1, <1>4, <1>5, <1>6 DEF Inv

LEMMA NextInv == Inv /\ [Next]_vars => Inv'
<1> SUFFICES ASSUME Inv, [Next]_vars PROVE Inv'
  OBVIOUS
<1>1. CASE UNCHANGED vars
  <2>1. UNCHANGED <<rec, disk, saved, base, idx, sweep, plan, pend, cut, fresh>>
    BY <1>1 DEF vars
  <2>2. Typed' /\ RecOK'
    BY <2>1 DEF Inv, Typed, RecOK
  <2>3. ASSUME NEW d \in Device PROVE PendOK(d)' /\ \A q \in Path : OK(d, q)'
    BY <2>1 DEF Inv, PendOK, OK
  <2> QED
    BY <2>2, <2>3 DEF Inv
<1>2. ASSUME NEW d \in Device, NEW p \in File, Edit(d, p) \/ DeleteFile(d, p) \/ Touch(d, p) PROVE Inv'
  BY <1>2, EditKeeps, DeleteFileKeeps, TouchKeeps DEF Path
<1>3. ASSUME NEW d \in Device, Rejoin(d) \/ Stop(d) \/ Crash(d) \/ SaveIndex(d) \/ Finish(d) PROVE Inv'
  BY <1>3, RejoinKeeps, StopKeeps, CrashKeeps, SaveIndexKeeps, FinishKeeps
<1>4. ASSUME NEW d \in Device, NEW o \in {Ordinary, Mirror}, StartSweep(d, o) PROVE Inv'
  BY <1>4, StartSweepKeeps
<1>5. ASSUME NEW d \in Device, NEW hash \in BOOLEAN, NEW confirmed \in BOOLEAN, NEW unread,
             Scan(d, hash, unread, confirmed)
      PROVE  Inv'
  BY <1>5, ScanKeeps
<1>6. ASSUME NEW d \in Device, NEW p \in Path,
             Act(d, p) \/ Remove(d, p, FALSE) \/ TransferFails(d, p)
      PROVE  Inv'
  <2>1. TRUE \in BOOLEAN /\ FALSE \in BOOLEAN
    OBVIOUS
  <2> QED
    BY <1>6, <2>1, RemoveKeeps, KeepBothKeeps, CommitKeeps, FetchKeeps, SendKeeps, TombstoneKeeps, SettleKeeps,
       TransferFailsKeeps DEF Act
<1>7. ASSUME NEW d \in Device, NEW refused, Publish(d, refused) PROVE Inv'
  BY <1>7, PublishKeeps
<1>8. ASSUME NEW d \in Device, NEW arrived \in BOOLEAN, PublishThrows(d, arrived) PROVE Inv'
  BY <1>8, PublishThrowsKeeps
<1> QED
  BY <1>1, <1>2, <1>3, <1>4, <1>5, <1>6, <1>7, <1>8 DEF Next

(* DeletionMeant for every folder: no unreadable scan, interrupted         *)
(* conflict, lost journal, lost race, failed checkpoint or overlapping     *)
(* upload of any number of devices becomes a deletion.                     *)
THEOREM DeletionsAreMeant == Spec => []DeletionMeant
<1>1. Inv => DeletionMeant
  BY DEF Inv, RecOK, DeletionMeant
<1> QED
  BY <1>1, InitInv, NextInv, PTL DEF Spec

(* The records, disks, journals, plans and queues have their types.  (That *)
(* no conflict copy is in conflict itself, the rest of TypeOK, is a fact   *)
(* about two devices.)                                                     *)
THEOREM SyncIsWellTyped == Spec => []WellTyped
<1>1. Inv => WellTyped
  BY DEF Inv, Typed, WellTyped, SweepState
<1> QED
  BY <1>1, InitInv, NextInv, PTL DEF Spec

-----------------------------------------------------------------------------
(* The journal of the sweep is ahead of the records only by what waits in  *)
(* pend, where a path has one record.                                      *)
Matched(d, p) == \E x \in pend[d] : x[1] = p /\ x[2].v = idx[d][p].rec.v

JournalOK(d, p) ==
  /\ saved[d][p].rec.v <= rec[p].v
  /\ idx[d][p].rec.v <= rec[p].v \/ Matched(d, p)

PendOnce(d) ==
  /\ sweep[d].pc = "save" => pend[d] = {}
  /\ \A x, y \in pend[d] : x[1] = y[1] => x = y

JInv == /\ Inv
        /\ \A d \in Device, p \in Path : JournalOK(d, p)
        /\ \A d \in Device : PendOnce(d)

(* Steps that publish nothing, save nothing and record nothing.            *)
LEMMA JournalUntouched ==
    ASSUME JInv, Inv', UNCHANGED <<rec, saved, idx, pend>>,
           \A e \in Device : sweep'[e].pc = "save" => sweep[e].pc = "save"
    PROVE  JInv'
<1>1. ASSUME NEW e \in Device, NEW q \in Path PROVE JournalOK(e, q)'
  BY DEF JInv, JournalOK, Matched
<1>2. ASSUME NEW e \in Device PROVE PendOnce(e)'
  BY DEF JInv, PendOnce
<1> QED
  BY <1>1, <1>2 DEF JInv

(* The sweep writes down the record it read.                               *)
LEMMA JournalRead ==
    ASSUME JInv, Inv', NEW d \in Device, NEW p \in Path, UNCHANGED <<rec, saved, pend>>,
           \A e \in Device : sweep'[e].pc = "save" => sweep[e].pc = "save",
           NEW loc, Record(d, p, sweep[d].st[p], loc)
    PROVE  JInv'
<1>1. ASSUME NEW e \in Device, NEW q \in Path PROVE JournalOK(e, q)'
  <2>1. CASE e = d /\ q = p
    <3>1. idx'[e][q] = Entry(sweep[d].st[p], loc)
      BY <2>1 DEF Record, JInv, Inv, Typed
    <3>2. idx'[e][q].rec.v = sweep[d].st[p].v
      BY <3>1 DEF Entry
    <3>3. sweep[d].st[p].v <= rec[p].v
      BY DEF JInv, Inv, OK, PathOK
    <3> QED
      BY <2>1, <3>2, <3>3 DEF JInv, JournalOK
  <2>2. CASE ~(e = d /\ q = p)
    <3>1. idx'[e][q] = idx[e][q]
      BY <2>2 DEF Record, JInv, Inv, Typed
    <3> QED
      BY <3>1 DEF JInv, JournalOK, Matched
  <2> QED
    BY <2>1, <2>2
<1>2. ASSUME NEW e \in Device PROVE PendOnce(e)'
  BY DEF JInv, PendOnce
<1> QED
  BY <1>1, <1>2 DEF JInv

(* The sweep writes down a record it makes, and queues it.                 *)
LEMMA JournalMade ==
    ASSUME JInv, Inv', ~Overlap, NEW d \in Device, NEW p \in Path, UNCHANGED <<rec, saved, sweep>>,
           NEW B, Turn(d, p, B), "none" \notin B,
           NEW r, NEW loc, Record(d, p, r, loc), Enqueue(d, p, r)
    PROVE  JInv'
<1>1. sweep[d].pc = "work" /\ plan[d][p] # "none"
  BY DEF Turn, Working
<1>2. pend'[d] = pend[d] \cup {<<p, r>>} /\ \A e \in Device : e # d => pend'[e] = pend[e]
  BY DEF Enqueue, JInv, Inv, Typed
<1>3. \A x \in pend[d] : x[1] # p
  BY <1>1 DEF JInv, Inv, PendOK
<1>4. ASSUME NEW e \in Device, NEW q \in Path PROVE JournalOK(e, q)'
  <2>1. CASE e = d /\ q = p
    <3>1. idx'[e][q] = Entry(r, loc)
      BY <2>1 DEF Record, JInv, Inv, Typed
    <3>2. idx'[e][q].rec.v = r.v
      BY <3>1 DEF Entry
    <3>3. <<p, r>> \in pend'[d] /\ <<p, r>>[1] = p /\ <<p, r>>[2] = r
      BY <1>2
    <3>4. Matched(e, q)'
      BY <2>1, <3>2, <3>3 DEF Matched
    <3> QED
      BY <2>1, <3>4 DEF JInv, JournalOK
  <2>2. CASE ~(e = d /\ q = p)
    <3>1. idx'[e][q] = idx[e][q]
      BY <2>2 DEF Record, JInv, Inv, Typed
    <3>2. pend[e] \subseteq pend'[e]
      BY <1>2
    <3> QED
      BY <3>1, <3>2 DEF JInv, JournalOK, Matched
  <2> QED
    BY <2>1, <2>2
<1>5. ASSUME NEW e \in Device PROVE PendOnce(e)'
  <2>1. CASE e = d
    BY <1>1, <1>2, <1>3, <2>1 DEF JInv, PendOnce
  <2>2. CASE e # d
    BY <1>2, <2>2 DEF JInv, PendOnce
  <2> QED
    BY <2>1, <2>2
<1> QED
  BY <1>4, <1>5 DEF JInv

(* The sweep's journal is the saved one again.                             *)
LEMMA JournalReset ==
    ASSUME JInv, Inv', NEW d \in Device,
           \A q \in Path : rec[q].v <= rec'[q].v,
           \A q \in Path : saved'[d][q] = saved[d][q] \/ saved'[d][q] = NoEntry,
           idx'[d] = saved'[d], pend'[d] = {},
           \A e \in Device : e # d => saved'[e] = saved[e] /\ idx'[e] = idx[e] /\ pend'[e] = pend[e]
                                      /\ sweep'[e] = sweep[e]
    PROVE  JInv'
<1>1. ASSUME NEW e \in Device, NEW q \in Path PROVE JournalOK(e, q)'
  <2>1. JournalOK(e, q) /\ rec[q].v \in Nat /\ saved[e][q].rec.v \in Nat /\ idx[e][q].rec.v \in Nat
    BY PathFacts DEF JInv
  <2>2. rec'[q].v \in Nat /\ rec[q].v <= rec'[q].v
    BY DEF Inv, Typed, Rec
  <2>3. NoEntry.rec.v = 0
    BY DEF NoEntry, Entry, NoRec
  <2>4. CASE e = d
    <3>1. saved'[d][q].rec.v <= rec'[q].v /\ idx'[d][q].rec.v <= rec'[q].v
      BY <2>1, <2>2, <2>3, <2>4 DEF JournalOK
    <3> QED
      BY <2>4, <3>1 DEF JournalOK
  <2>5. CASE e # d
    BY <2>1, <2>2, <2>5 DEF JournalOK, Matched
  <2> QED
    BY <2>4, <2>5
<1>2. ASSUME NEW e \in Device PROVE PendOnce(e)'
  BY DEF JInv, PendOnce
<1> QED
  BY <1>1, <1>2 DEF JInv

(* A checkpoint: a path of pend gets the version its journal entry has, or *)
(* loses the entry.                                                        *)
LEMMA PublishJournal ==
    ASSUME JInv, Inv', ~CheckpointFaults, NEW d \in Device, NEW refused, Publish(d, refused)
    PROVE  JInv'
<1>1. refused = {} /\ pend'[d] = {} /\ saved' = saved
      /\ \A e \in Device : e # d => pend'[e] = pend[e] /\ idx'[e] = idx[e] /\ sweep'[e] = sweep[e]
  BY DEF Publish, JInv, Inv, Typed
<1>2. PICK asked, stale : /\ asked = pend[d] /\ stale = asked \ Newer(asked)
                          /\ rec' = Landed(Newer(asked))
                          /\ idx' = [idx EXCEPT ![d] = [p \in Path |->
                               IF Mentions(stale, p) THEN NoEntry ELSE idx[d][p]]]
  <2>1. Inv
    BY DEF JInv
  <2>2. PICK asked, stale : /\ asked = pend[d] \ refused /\ stale = asked \ Newer(asked)
                            /\ rec' = Landed(Newer(asked))
                            /\ idx' = [idx EXCEPT ![d] = [p \in Path |->
                                 IF Mentions(stale, p) THEN NoEntry ELSE idx[d][p]]]
    BY <2>1, PublishIs
  <2>3. asked = pend[d]
    BY <1>1, <2>2
  <2> QED
    BY <2>2, <2>3
<1>3. \A q \in Path : rec[q].v <= rec'[q].v
  <2>1. UNCHANGED cut
    BY DEF Publish, history
  <2> QED
    BY <1>2, <2>1, Publishes DEF JInv
<1>4. ASSUME NEW e \in Device, NEW q \in Path PROVE JournalOK(e, q)'
  <2>1. JournalOK(e, q) /\ rec[q].v \in Nat /\ saved[e][q].rec.v \in Nat /\ idx[e][q].rec.v \in Nat
    BY PathFacts DEF JInv
  <2>2. rec'[q].v \in Nat /\ rec[q].v <= rec'[q].v
    BY <1>3 DEF Inv, Typed, Rec
  <2>3. CASE e # d
    BY <1>1, <2>1, <2>2, <2>3 DEF JournalOK, Matched
  <2>4. CASE e = d
    <3>1. idx'[d][q] = IF Mentions(stale, q) THEN NoEntry ELSE idx[d][q]
      BY <1>2 DEF JInv, Inv, Typed
    <3>2. NoEntry.rec.v = 0
      BY DEF NoEntry, Entry, NoRec
    <3>3. CASE Mentions(stale, q)
      BY <1>1, <2>1, <2>2, <2>4, <3>1, <3>2, <3>3 DEF JournalOK
    <3>4. CASE ~Mentions(stale, q)
      <4>1. Matched(d, q) => idx[d][q].rec.v <= rec'[q].v
        <5> SUFFICES ASSUME NEW x \in pend[d], x[1] = q, x[2].v = idx[d][q].rec.v
                     PROVE  idx[d][q].rec.v <= rec'[q].v
          BY DEF Matched
        <5>1. x \in Newer(asked)
          BY <1>2, <3>4 DEF Mentions
        <5>2. Mentions(Newer(asked), q) /\ Newer(asked) \subseteq Path \X Rec
          BY <1>2, <5>1 DEF Mentions, Newer, JInv, Inv, Typed
        <5>3. PICK y \in Newer(asked) : y[1] = q /\ rec'[q] = y[2]
          BY <1>2, <5>2, LandedSays DEF JInv, Inv
        <5>4. y = x
          BY <1>2, <5>3 DEF JInv, PendOnce, Newer
        <5> QED
          BY <2>1, <2>4, <5>3, <5>4
      <4> QED
        BY <1>1, <2>1, <2>2, <2>4, <3>1, <3>4, <4>1 DEF JournalOK
    <3> QED
      BY <3>3, <3>4
  <2> QED
    BY <2>3, <2>4
<1>5. ASSUME NEW e \in Device PROVE PendOnce(e)'
  BY <1>1 DEF JInv, PendOnce
<1> QED
  BY <1>4, <1>5 DEF JInv

(* The last publish of a sweep goes unanswered: the journal in memory is   *)
(* dropped.                                                                *)
LEMMA PublishThrowsJournal ==
    ASSUME JInv, Inv', ~CheckpointFaults, NEW d \in Device, NEW arrived \in BOOLEAN, PublishThrows(d, arrived)
    PROVE  JInv'
<1>1. /\ pend' = [pend EXCEPT ![d] = {}] /\ sweep' = [sweep EXCEPT ![d] = Idle]
      /\ idx' = [idx EXCEPT ![d] = saved[d]] /\ UNCHANGED <<saved, cut>>
  BY DEF PublishThrows, history
<1>2. rec' = Landed(Newer(pend[d])) \/ rec' = rec
  BY DEF PublishThrows
<1>3. \A q \in Path : rec[q].v <= rec'[q].v
  <2>1. CASE rec' = rec
    BY <1>1, <2>1, SameRecords DEF JInv
  <2>2. CASE rec' = Landed(Newer(pend[d]))
    BY <1>1, <2>2, Publishes DEF JInv
  <2> QED
    BY <1>2, <2>1, <2>2
<1>4. idx'[d] = saved'[d] /\ pend'[d] = {}
      /\ \A e \in Device : e # d => idx'[e] = idx[e] /\ pend'[e] = pend[e] /\ sweep'[e] = sweep[e]
  BY <1>1 DEF JInv, Inv, Typed
<1> QED
  BY <1>1, <1>3, <1>4, JournalReset

(* The journal is saved when nothing waits to be published.                *)
LEMMA SaveIndexJournal ==
    ASSUME JInv, Inv', NEW d \in Device, SaveIndex(d)
    PROVE  JInv'
<1>1. /\ sweep[d].pc = "save" /\ saved'[d] = idx[d] /\ UNCHANGED <<rec, idx, pend>>
      /\ \A e \in Device : e # d => saved'[e] = saved[e] /\ sweep'[e] = sweep[e]
  BY DEF SaveIndex, JInv, Inv, Typed
<1>2. pend[d] = {}
  BY <1>1 DEF JInv, PendOnce
<1>3. ASSUME NEW e \in Device, NEW q \in Path PROVE JournalOK(e, q)'
  BY <1>1, <1>2 DEF JInv, JournalOK, Matched
<1>4. ASSUME NEW e \in Device PROVE PendOnce(e)'
  BY <1>1, <1>2 DEF JInv, PendOnce
<1> QED
  BY <1>3, <1>4 DEF JInv

(* Every step keeps the journal covered by the records and pend.           *)
LEMMA InitJInv == Init => JInv
<1> SUFFICES ASSUME Init PROVE JInv
  OBVIOUS
<1>1. Inv
  BY InitInv
<1>2. ASSUME NEW d \in Device, NEW p \in Path PROVE JournalOK(d, p)
  <2>1. idx[d][p] = saved[d][p] /\ rec[p] = IF p \in File THEN OrigRec(p) ELSE NoRec
    BY DEF Init
  <2>2. saved[d][p] = IF p \in File THEN Entry(OrigRec(p), Local(OrigFile(p))) ELSE NoEntry
    BY DEF Init
  <2>3. saved[d][p].rec = rec[p]
    BY <2>1, <2>2 DEF Entry, NoEntry
  <2>4. rec[p].v \in Nat
    BY <1>1, PathFacts
  <2> QED
    BY <2>1, <2>3, <2>4 DEF JournalOK
<1>3. ASSUME NEW d \in Device PROVE PendOnce(d)
  BY DEF Init, PendOnce
<1> QED
  BY <1>1, <1>2, <1>3 DEF JInv

LEMMA NextJInv ==
    ASSUME ~Overlap, ~CheckpointFaults
    PROVE  JInv /\ [Next]_vars => JInv'
<1> SUFFICES ASSUME JInv, [Next]_vars PROVE JInv'
  OBVIOUS
<1>1. Inv' /\ Inv
  BY NextInv DEF JInv
<1>2. CASE UNCHANGED vars
  BY <1>1, <1>2, JournalUntouched DEF vars
<1>3. ASSUME NEW d \in Device, NEW p \in File, Edit(d, p) \/ DeleteFile(d, p) \/ Touch(d, p) PROVE JInv'
  BY <1>1, <1>3, JournalUntouched DEF Edit, DeleteFile, Touch, device
<1>4. ASSUME NEW d \in Device, Rejoin(d) PROVE JInv'
  <2>1. /\ saved'[d] = [p \in Path |-> NoEntry] /\ idx'[d] = saved'[d] /\ UNCHANGED <<rec, sweep, pend, cut>>
        /\ \A e \in Device : e # d => saved'[e] = saved[e] /\ idx'[e] = idx[e]
    BY <1>1, <1>4 DEF Rejoin, history, Inv, Typed
  <2>2. pend[d] = {}
    BY <1>1, <1>4 DEF Rejoin, Inv, PendOK
  <2>3. \A q \in Path : saved'[d][q] = NoEntry
    BY <2>1
  <2> QED
    BY <1>1, <2>1, <2>2, <2>3, SameRecords, JournalReset
<1>5. ASSUME NEW d \in Device, Crash(d) PROVE JInv'
  <2>1. /\ UNCHANGED <<rec, saved, cut>> /\ idx'[d] = saved'[d] /\ pend'[d] = {}
        /\ \A e \in Device : e # d => idx'[e] = idx[e] /\ pend'[e] = pend[e] /\ sweep'[e] = sweep[e]
    BY <1>1, <1>5 DEF Crash, history, Inv, Typed
  <2> QED
    BY <1>1, <2>1, SameRecords, JournalReset
<1>6. ASSUME NEW d \in Device, Stop(d) PROVE JInv'
  <2>1. UNCHANGED <<rec, saved, idx, pend>> /\ \A e \in Device : e # d => sweep'[e] = sweep[e]
    BY <1>1, <1>6 DEF Stop, Inv, Typed
  <2>2. sweep'[d].pc = sweep[d].pc
    BY <1>1, <1>6 DEF Stop, Inv, Typed, SweepState
  <2> QED
    BY <1>1, <2>1, <2>2, JournalUntouched
<1>7. ASSUME NEW d \in Device, SaveIndex(d) PROVE JInv'
  BY <1>1, <1>7, SaveIndexJournal
<1>8. ASSUME NEW d \in Device, Finish(d) PROVE JInv'
  <2>1. UNCHANGED <<rec, saved, idx, pend>> /\ sweep'[d] = Idle
        /\ \A e \in Device : e # d => sweep'[e] = sweep[e]
    BY <1>1, <1>8 DEF Finish, Inv, Typed
  <2>2. Idle.pc = "idle"
    BY DEF Idle
  <2> QED
    BY <1>1, <2>1, <2>2, JournalUntouched
<1>9. ASSUME NEW d \in Device, NEW o \in {Ordinary, Mirror}, StartSweep(d, o) PROVE JInv'
  <2>1. /\ UNCHANGED <<rec, saved, pend, cut>> /\ idx'[d] = saved'[d] /\ sweep[d].pc = "idle"
        /\ \A e \in Device : e # d => idx'[e] = idx[e] /\ sweep'[e] = sweep[e]
    BY <1>1, <1>9 DEF StartSweep, history, Inv, Typed
  <2>2. pend[d] = {}
    BY <1>1, <2>1 DEF Inv, PendOK
  <2> QED
    BY <1>1, <2>1, <2>2, SameRecords, JournalReset
<1>10. ASSUME NEW d \in Device, NEW hash \in BOOLEAN, NEW confirmed \in BOOLEAN, NEW unread,
              Scan(d, hash, unread, confirmed)
       PROVE  JInv'
  <2>1. UNCHANGED <<rec, saved, idx, pend>>
    BY <1>10 DEF Scan
  <2>2. PICK K, whole : sweep' = [sweep EXCEPT ![d].pc = "work", ![d].dk = K, ![d].whole = whole]
    BY <1>10 DEF Scan
  <2>3. \A e \in Device : e # d => sweep'[e] = sweep[e]
    BY <1>1, <2>2 DEF Inv, Typed
  <2>4. sweep'[d].pc = "work"
    BY <1>1, <2>2 DEF Inv, Typed, SweepState
  <2> QED
    BY <1>1, <2>1, <2>3, <2>4, JournalUntouched
<1>11. ASSUME NEW d \in Device, NEW p \in Path, Remove(d, p, TRUE) \/ Commit(d, p) \/ Fetch(d, p) \/ Settle(d, p)
       PROVE  JInv'
  <2>1. UNCHANGED <<rec, saved, pend, sweep>>
    BY <1>11 DEF Remove, Commit, Fetch, Settle
  <2>2. PICK loc : Record(d, p, sweep[d].st[p], loc)
    BY <1>11 DEF Remove, Commit, Fetch, Settle
  <2> QED
    BY <1>1, <2>1, <2>2, JournalRead
<1>12. ASSUME NEW d \in Device, NotOk(d) PROVE \A e \in Device : sweep'[e].pc = sweep[e].pc
  BY <1>1, <1>12, SweepUnmoved DEF Inv, SweepsKept
<1>13. ASSUME NEW d \in Device, NEW p \in Path, KeepBoth(d, p) PROVE JInv'
  <2>1. UNCHANGED <<rec, saved, pend>>
    BY <1>13 DEF KeepBoth
  <2>2. \/ NotOk(d) /\ UNCHANGED idx
        \/ UNCHANGED <<idx, sweep>>
        \/ UNCHANGED sweep /\ \E loc : Record(d, p, sweep[d].st[p], loc)
    BY <1>13 DEF KeepBoth
  <2> QED
    BY <1>1, <1>12, <2>1, <2>2, JournalUntouched, JournalRead
<1>14. ASSUME NEW d \in Device, NEW p \in Path, Send(d, p) PROVE JInv'
  <2>1. UNCHANGED <<rec, saved>> /\ Turn(d, p, {"send", "resurrect", "mustSend"})
    BY <1>14 DEF Send
  <2>2. \/ UNCHANGED <<sweep, pend>> /\ \E loc : Record(d, p, sweep[d].st[p], loc)
        \/ NotOk(d) /\ UNCHANGED <<idx, pend>>
        \/ UNCHANGED sweep /\ \E r, loc : Record(d, p, r, loc) /\ Enqueue(d, p, r)
    BY <1>14 DEF Send
  <2>3. "none" \notin {"send", "resurrect", "mustSend"}
    OBVIOUS
  <2>4. CASE UNCHANGED <<sweep, pend>> /\ \E loc : Record(d, p, sweep[d].st[p], loc)
    BY <1>1, <2>1, <2>4, JournalRead
  <2>5. CASE NotOk(d) /\ UNCHANGED <<idx, pend>>
    BY <1>1, <1>12, <2>1, <2>5, JournalUntouched
  <2>6. CASE UNCHANGED sweep /\ \E r, loc : Record(d, p, r, loc) /\ Enqueue(d, p, r)
    <3>1. PICK r, loc : Record(d, p, r, loc) /\ Enqueue(d, p, r)
      BY <2>6
    <3> QED
      BY <1>1, <2>1, <2>3, <2>6, <3>1, JournalMade
  <2> QED
    BY <2>2, <2>4, <2>5, <2>6
<1>15. ASSUME NEW d \in Device, NEW p \in Path, Tombstone(d, p) PROVE JInv'
  <2>1. UNCHANGED <<rec, saved, sweep>> /\ Turn(d, p, {"tombstone"})
    BY <1>15 DEF Tombstone
  <2>2. UNCHANGED <<idx, pend>> \/ \E r, loc : Record(d, p, r, loc) /\ Enqueue(d, p, r)
    BY <1>15 DEF Tombstone
  <2>3. CASE UNCHANGED <<idx, pend>>
    BY <1>1, <2>1, <2>3, JournalUntouched
  <2>4. CASE \E r, loc : Record(d, p, r, loc) /\ Enqueue(d, p, r)
    <3>1. PICK r, loc : Record(d, p, r, loc) /\ Enqueue(d, p, r)
      BY <2>4
    <3>2. "none" \notin {"tombstone"}
      OBVIOUS
    <3> QED
      BY <1>1, <2>1, <3>1, <3>2, JournalMade
  <2> QED
    BY <2>2, <2>3, <2>4
<1>16. ASSUME NEW d \in Device, NEW p \in Path, Remove(d, p, FALSE) PROVE JInv'
  BY <1>1, <1>16, JournalUntouched DEF Remove
<1>17. ASSUME NEW d \in Device, NEW p \in Path, TransferFails(d, p) PROVE JInv'
  BY <1>1, <1>12, <1>17, JournalUntouched DEF TransferFails
<1>18. ASSUME NEW d \in Device, NEW refused, Publish(d, refused) PROVE JInv'
  BY <1>1, <1>18, PublishJournal
<1>19. ASSUME NEW d \in Device, NEW arrived \in BOOLEAN, PublishThrows(d, arrived) PROVE JInv'
  BY <1>1, <1>19, PublishThrowsJournal
<1> QED
  BY <1>2, <1>3, <1>4, <1>5, <1>6, <1>7, <1>8, <1>9, <1>10, <1>11, <1>13, <1>14, <1>15, <1>16, <1>17, <1>18, <1>19
     DEF Next, Act

(* JournalNotAhead for every folder whose transfers do not land during a   *)
(* checkpoint and whose checkpoints do not fail before the last: "THE      *)
(* RECORDS GO FIRST, ALWAYS" (Journal in syncexec.js).                     *)
THEOREM JournalNeverAhead ==
    ASSUME ~Overlap, ~CheckpointFaults
    PROVE  Spec => []JournalNotAhead
<1>1. JInv => JournalNotAhead
  BY DEF JInv, JournalOK, JournalNotAhead
<1>2. JInv /\ [Next]_vars => JInv'
  BY NextJInv
<1> QED
  BY <1>1, <1>2, InitJInv, PTL DEF Spec
=============================================================================
