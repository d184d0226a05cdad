----------------------------- MODULE FolderSync -----------------------------
(***************************************************************************)
(* Folder sync: the sweep of static/js/client/syncexec.js run by several   *)
(* devices over one shared folder, with the record store it publishes to   *)
(* (stateS of sync.js and POST /client/sync-state) and the disks under it. *)
(*                                                                         *)
(* A sweep reads the records, then the journal, then the disk, decides     *)
(* once (SyncState), and then acts on those snapshots path by path while   *)
(* users and other devices go on.  Records it makes wait in "pend" until   *)
(* a checkpoint publishes them, each by compare-and-swap on its version;   *)
(* the journal is saved after.  A path whose work is done, or was given    *)
(* up, is "none" in the plan.                                              *)
(*                                                                         *)
(* The blob store keeps every uploaded content; it may fail to answer.     *)
(***************************************************************************)
EXTENDS SyncState

CONSTANTS
  File,           \* the paths users work on
  Orig,           \* what each file holds at the start
  DayOf,          \* the UTC day on which each content was written
  Phone,          \* devices whose provider restamps and rewrites downloads
  Overlap,        \* may a transfer land while a checkpoint is in flight?
  MidSweep,       \* may a user edit a file a running sweep will overwrite?
  CheckpointFaults,  \* may a publish fail before the end of a sweep?
  Events,        \* which of the rare events below may happen ...
  MaxEvents      \* ... and how many of them in all

ASSUME ConstantsAssumption ==
  /\ Orig \in [File -> Content] /\ Phone \subseteq Device /\ Phone # Device
  /\ {Overlap, MidSweep, CheckpointFaults} \subseteq BOOLEAN
  /\ Events \subseteq {"edit", "delete", "touch", "halt", "fault", "rejoin", "mirror"}
  /\ MaxEvents \in Nat

\* conflictPath(): named after the publisher and the day of the incoming copy.
ConflictPath(p, r) == <<p, r.by, DayOf[r.c]>>
Path == File \cup (File \X Device \X {DayOf[c] : c \in Content})

VARIABLES
  rec,     \* the shared records, one per path, tombstones included
  disk,    \* each device's folder
  saved,   \* each device's journal as persisted
  base,    \* baselineComplete: has the device finished a whole sweep?
  idx,     \* the journal in the sweep's memory
  sweep,   \* the running sweep: where it is, what it read, how it went
  plan,    \* what is left to do, per path
  pend,    \* records to publish, as <<path, record>> pairs
  owed,    \* history: contents a user wrote and nobody replaced or deleted
  echo,    \* history: contents a phone put over a file it had downloaded
  cut,     \* history: paths some user deleted
  fresh,   \* contents nobody has written yet
  left     \* how many more rare events may happen

device == <<saved, base, idx, sweep, plan, pend>>
history == <<owed, echo, cut, fresh>>
vars == <<rec, disk, saved, base, idx, sweep, plan, pend,
          owed, echo, cut, fresh, left>>

Ordinary == [manual |-> FALSE, resendAll |-> FALSE, noDelete |-> FALSE]
\* "Mirror this Device" asks swept() for noDelete too; sweep() in sync.js
\* builds the executor's options and does not hand that one on.
Mirror == [manual |-> TRUE, resendAll |-> TRUE, noDelete |-> FALSE]

Nothing == [p \in Path |-> "none"]
EmptyDisk == [p \in Path |-> NoFile]
Idle == [pc |-> "idle", opts |-> Ordinary, st |-> [p \in Path |-> NoRec],
         dk |-> EmptyDisk, ok |-> TRUE, whole |-> TRUE]

OrigRec(p) == [v |-> 1, live |-> TRUE, c |-> Orig[p], s |-> "src",
               by |-> CHOOSE d \in Device : d \notin Phone]
OrigFile(p) == [c |-> Orig[p], s |-> "src", h |-> FALSE]

\* Every device has the folder and has finished its first sweep.
Init ==
  /\ rec = [p \in Path |-> IF p \in File THEN OrigRec(p) ELSE NoRec]
  /\ disk = [d \in Device |-> [p \in Path |->
               IF p \in File THEN OrigFile(p) ELSE NoFile]]
  /\ saved = [d \in Device |-> [p \in Path |->
               IF p \in File THEN Entry(OrigRec(p), Local(OrigFile(p)))
                             ELSE NoEntry]]
  /\ idx = saved
  /\ base = [d \in Device |-> TRUE]
  /\ sweep = [d \in Device |-> Idle]
  /\ plan = [d \in Device |-> Nothing]
  /\ pend = [d \in Device |-> {}]
  /\ owed = {Orig[p] : p \in File}
  /\ echo = {}
  /\ cut = {}
  /\ fresh = Content \ owed
  /\ left = MaxEvents

Spend(what) == what \in Events /\ left > 0 /\ left' = left - 1
-----------------------------------------------------------------------------
(* What happens to the folder outside the sweep.                           *)

\* Will the running sweep overwrite or remove p without looking again?
Doomed(d, p) == plan[d][p] \in {"fetch", "remove", "commit"}
Free(d, p) == MidSweep \/ ~Doomed(d, p)

\* The file came from the folder and the folder has not moved since.
Downloaded(d, p) ==
  d \in Phone /\ idx[d][p].local.dl > 0 /\ idx[d][p].local.dl = idx[d][p].rec.v

\* On a phone nobody can tell an edit of a download from a provider's rewrite.
Edit(d, p) ==
  /\ fresh # {} /\ Free(d, p) /\ Spend("edit")
  /\ LET c == CHOOSE x \in fresh : TRUE
         old == disk[d][p].c
     IN /\ fresh' = fresh \ {c}
        /\ disk' = [disk EXCEPT ![d][p] = [c |-> c, s |-> "src", h |-> FALSE]]
        /\ IF Downloaded(d, p)
           THEN echo' = echo \cup {c} /\ owed' = owed
           ELSE owed' = (owed \ {old}) \cup {c} /\ echo' = echo
  /\ UNCHANGED <<rec, device, cut>>

DeleteFile(d, p) ==
  /\ Here(disk[d][p]) /\ Free(d, p) /\ Spend("delete")
  /\ owed' = owed \ {disk[d][p].c}
  /\ disk' = [disk EXCEPT ![d][p] = NoFile]
  /\ cut' = cut \cup {p}
  /\ UNCHANGED <<rec, device, echo, fresh>>

\* A restore, an rsync, a second sync engine: same bytes, another time.
Touch(d, p) ==
  /\ Here(disk[d][p]) /\ disk[d][p].s # d /\ Spend("touch")
  /\ disk' = [disk EXCEPT ![d][p].s = d]
  /\ UNCHANGED <<rec, device, history>>

\* The profile is cleared or the app reinstalled; the files are still there.
Rejoin(d) ==
  /\ sweep[d].pc = "idle" /\ d \notin Phone /\ Spend("rejoin")
  /\ saved' = [saved EXCEPT ![d] = [p \in Path |-> NoEntry]]
  /\ idx' = [idx EXCEPT ![d] = saved'[d]]
  /\ base' = [base EXCEPT ![d] = FALSE]
  /\ UNCHANGED <<rec, disk, sweep, plan, pend, history>>
-----------------------------------------------------------------------------
(* The sweep: read, scan and decide.                                       *)

StartSweep(d, o) ==
  /\ sweep[d].pc = "idle"
  /\ IF o = Ordinary THEN UNCHANGED left ELSE Spend("mirror")
  /\ sweep' = [sweep EXCEPT ![d] = [Idle EXCEPT !.pc = "read", !.opts = o, !.st = rec]]
  /\ idx' = [idx EXCEPT ![d] = saved[d]]
  /\ UNCHANGED <<rec, disk, saved, base, plan, pend, history>>

\* A journal that answers for less than half the folder forces a hash.
Thin(d) ==
  LET known == Cardinality({p \in Path : idx[d][p] # NoEntry})
      seen  == Cardinality({p \in Path : Said(sweep[d].st[p])})
  IN known = 0 \/ (seen > 0 /\ 2 * known < seen)

\* Until one whole sweep is done a device may neither delete nor be deleted
\* from: an absence it would publish is a download instead.
JoinHolds(b, R) == CASE b = "remove" -> "none"
                     [] b = "tombstone" -> IF R.live THEN "fetch" ELSE "none"
                     [] OTHER -> b

\* The options of a publishing sweep, in the order the executor applies them.
WithOptions(b, L, R, o) ==
  LET kept == IF o.noDelete /\ b \in {"remove", "tombstone"} THEN "none" ELSE b
  IN IF o.resendAll /\ Here(L) /\ ~R.live THEN "mustSend" ELSE kept

\* keep: what check() counts as surviving this sweep.
Kept(raw, final, dk, d, unread) ==
  Cardinality({p \in Path \ unread :
    \/ raw[p] = "none" /\ ~Dead(sweep[d].st[p])
         /\ (Here(dk[p]) \/ Said(sweep[d].st[p]) \/ idx[d][p] # NoEntry)
    \/ final[p] \in {"fetch", "send", "resurrect", "mustSend", "keepBoth"}
    \/ final[p] = "settle" /\ sweep[d].st[p].live})

\* One scan, one decision.  Paths the scan cannot read are left alone.
Scan(d, hash, unread, confirmed) ==
  /\ sweep[d].pc = "read"
  /\ IF unread = {} THEN UNCHANGED left ELSE Spend("fault")
  /\ confirmed => sweep[d].opts.manual
  /\ LET S == sweep[d]
         dk == [p \in Path |-> IF p \in unread THEN NoFile
                               ELSE Scanned(disk[d][p], hash \/ Thin(d))]
         raw == [p \in Path |-> IF p \in unread THEN "none"
                                ELSE Plan(dk[p], S.st[p], idx[d][p])]
         joined == IF base[d] THEN raw ELSE [p \in Path |-> JoinHolds(raw[p], S.st[p])]
         final == [p \in Path |-> WithOptions(joined[p], dk[p], S.st[p], S.opts)]
         held == ~base[d] /\ \E p \in Path : raw[p] \in {"remove", "tombstone"}
     IN /\ plan' = [plan EXCEPT ![d] = Checked(final, Kept(raw, final, dk, d, unread), confirmed)]
        /\ sweep' = [sweep EXCEPT ![d].pc = "work", ![d].dk = dk, ![d].whole = ~held]
  /\ UNCHANGED <<rec, disk, saved, base, idx, pend, history>>
-----------------------------------------------------------------------------
(* The sweep: act.  Deletions, then conflicts, downloads, uploads, then    *)
(* the deletions announced and the agreements that need no bytes.          *)

Phase(b) == CASE b = "remove" -> 1 [] b \in {"keepBoth", "commit"} -> 2
              [] b = "fetch" -> 3  [] b \in {"send", "resurrect", "mustSend"} -> 4
              [] b = "tombstone" -> 5 [] b = "settle" -> 6 [] OTHER -> 7

Working(d) == sweep[d].pc = "work" \/ (Overlap /\ sweep[d].pc = "save")

Turn(d, p, buckets) ==
  /\ Working(d) /\ plan[d][p] \in buckets
  /\ \A q \in Path : Phase(plan[d][p]) <= Phase(plan[d][q])
  /\ sweep[d].pc = "save" => Phase(plan[d][p]) \in {3, 4}
  /\ \A q \in Path : plan[d][q] = "commit" => q = p

\* record(): what was applied, and what the file on disk now is.
Record(d, p, r, loc) == idx' = [idx EXCEPT ![d][p] = Entry(r, loc)]
Enqueue(d, p, r) == pend' = [pend EXCEPT ![d] = @ \cup {<<p, r>>}]
Done(d, p) == plan' = [plan EXCEPT ![d][p] = "none"]
NotOk(d) == sweep' = [sweep EXCEPT ![d].ok = FALSE]

\* The stamp of the scan beside a checksum taken now: they may not belong
\* together, and then no later scan matches both.
Hashed(d, p, dl) ==
  [c |-> disk[d][p].c, h |-> TRUE, dl |-> dl,
   s |-> IF disk[d][p].c = sweep[d].dk[p].c THEN sweep[d].dk[p].s ELSE None]

\* receive() ends in a rename over the name; the source's time comes along
\* except through a phone's provider.
Written(d, r) == [c |-> r.c, s |-> IF d \in Phone THEN d ELSE r.s, h |-> FALSE]
Received(d, r, dl) == [c |-> r.c, s |-> Written(d, r).s, h |-> TRUE, dl |-> dl]

\* A tombstone is obeyed once the store is known to hold the bytes.
Remove(d, p, answered) ==
  /\ Turn(d, p, {"remove"}) /\ Done(d, p)
  /\ IF answered
     THEN /\ disk' = [disk EXCEPT ![d][p] = NoFile]
          /\ Record(d, p, sweep[d].st[p], NoLocal)
          /\ UNCHANGED left
     ELSE Spend("fault") /\ UNCHANGED <<disk, idx>>
  /\ UNCHANGED <<rec, saved, base, sweep, pend, history>>

\* Mutant: the conflict loop mints a copy without comparing the bytes.
KeepBothUncompared(d, p) ==
  /\ Turn(d, p, {"keepBoth"})
  /\ disk' = [disk EXCEPT ![d][p] = NoFile,
                          ![d][ConflictPath(p, sweep[d].st[p])] = disk[d][p]]
  /\ plan' = [plan EXCEPT ![d][p] = "commit"]
  /\ UNCHANGED <<rec, saved, base, idx, sweep, pend, history, left>>

\* Divergent bytes: hash ours, fetch theirs, move ours aside ...
KeepBoth(d, p) ==
  /\ Turn(d, p, {"keepBoth"})
  /\ LET R == sweep[d].st[p]
         L == disk[d][p]
     IN CASE ~Here(L) ->                      \* could not be read back
               Done(d, p) /\ NotOk(d) /\ UNCHANGED <<disk, idx>>
          [] Here(L) /\ L.c = R.c ->          \* only the stamp differed
               /\ Record(d, p, R, Hashed(d, p, 0))
               /\ Done(d, p) /\ UNCHANGED <<disk, sweep>>
          [] OTHER ->
               /\ disk' = [disk EXCEPT ![d][p] = NoFile, ![d][ConflictPath(p, R)] = L]
               /\ plan' = [plan EXCEPT ![d][p] = "commit"]
               /\ UNCHANGED <<idx, sweep>>
  /\ UNCHANGED <<rec, saved, base, pend, history, left>>

\* ... and put theirs in its place.
Commit(d, p) ==
  /\ Turn(d, p, {"commit"}) /\ Done(d, p)
  /\ disk' = [disk EXCEPT ![d][p] = Written(d, sweep[d].st[p])]
  /\ Record(d, p, sweep[d].st[p], Received(d, sweep[d].st[p], 0))
  /\ UNCHANGED <<rec, saved, base, sweep, pend, history, left>>

\* A download of bytes the scan saw here is an adoption.
Fetch(d, p) ==
  /\ Turn(d, p, {"fetch"}) /\ Done(d, p)
  /\ LET R == sweep[d].st[p]
     IN IF Here(sweep[d].dk[p]) /\ disk[d][p].c = R.c
        THEN Record(d, p, R, Hashed(d, p, 0)) /\ UNCHANGED disk
        ELSE /\ disk' = [disk EXCEPT ![d][p] = Written(d, R)]
             /\ Record(d, p, R, Received(d, R, R.v))
  /\ UNCHANGED <<rec, saved, base, sweep, pend, history, left>>

\* Mutant: the upload does not know of rewritten downloads.
NeverRewritten(d, p) == FALSE

\* The guards in front of an upload, none of which a resend asked for takes.
SettledByContent(d, p) == sweep[d].st[p].live /\ disk[d][p].c = sweep[d].st[p].c
RewrittenDownload(d, p) ==
  /\ d \in Phone /\ sweep[d].st[p].live
  /\ idx[d][p].local.dl > 0 /\ sweep[d].st[p].v = idx[d][p].local.dl

\* send(): the bytes read must be the file that was scanned.  (A rewritten
\* download sets report.ok, which the end of the sweep computes anew.)
Send(d, p) ==
  /\ Turn(d, p, {"send", "resurrect", "mustSend"}) /\ Done(d, p)
  /\ LET R == sweep[d].st[p]
         asked == plan[d][p] = "mustSend"
         torn == disk[d][p].c # sweep[d].dk[p].c
         new == [v |-> Bump(R, idx[d][p]), live |-> TRUE, by |-> d,
                 c |-> sweep[d].dk[p].c, s |-> sweep[d].dk[p].s]
     IN CASE ~asked /\ SettledByContent(d, p) ->
               Record(d, p, R, Hashed(d, p, 0)) /\ UNCHANGED <<pend, sweep>>
          [] ~asked /\ ~SettledByContent(d, p) /\ RewrittenDownload(d, p) ->
               /\ Record(d, p, R, Hashed(d, p, idx[d][p].local.dl))
               /\ UNCHANGED <<pend, sweep>>
          [] (asked \/ ~(SettledByContent(d, p) \/ RewrittenDownload(d, p))) /\ torn ->
               NotOk(d) /\ UNCHANGED <<idx, pend>>
          [] OTHER ->
               /\ Record(d, p, new, Hashed(d, p, 0)) /\ Enqueue(d, p, new)
               /\ UNCHANGED sweep
  /\ UNCHANGED <<rec, disk, saved, base, history, left>>

\* A deletion is announced only of a file that is not there now either, and
\* keeps the address of what it deletes.
Tombstone(d, p) ==
  /\ Turn(d, p, {"tombstone"}) /\ Done(d, p)
  /\ LET new == [idx[d][p].rec EXCEPT !.v = Bump(sweep[d].st[p], idx[d][p]),
                                      !.live = FALSE, !.by = d]
     IN IF Here(disk[d][p]) THEN UNCHANGED <<idx, pend>>
        ELSE Record(d, p, new, NoLocal) /\ Enqueue(d, p, new)
  /\ UNCHANGED <<rec, disk, saved, base, sweep, history, left>>

Settle(d, p) ==
  /\ Turn(d, p, {"settle"}) /\ Done(d, p)
  /\ Record(d, p, sweep[d].st[p], Local(sweep[d].dk[p]))
  /\ UNCHANGED <<rec, disk, saved, base, sweep, pend, history, left>>

\* Mutant: the journal is written before the transfer is known to have landed.
TransferFailsRecorded(d, p) ==
  /\ Turn(d, p, {"keepBoth", "commit", "fetch"})
  /\ Done(d, p) /\ NotOk(d) /\ Spend("fault")
  /\ Record(d, p, sweep[d].st[p], Received(d, sweep[d].st[p], 0))
  /\ UNCHANGED <<rec, disk, saved, base, pend, history>>

\* A transfer fails, or its store does not answer: the next sweep tries again.
TransferFails(d, p) ==
  /\ Turn(d, p, {"keepBoth", "commit", "fetch", "send", "resurrect", "mustSend"})
  /\ Done(d, p) /\ NotOk(d) /\ Spend("fault")
  /\ UNCHANGED <<rec, disk, saved, base, idx, pend, history>>
-----------------------------------------------------------------------------
(* Checkpoints: publish, then save.                                        *)

Drained(d) == plan[d] = Nothing
Between(d) == \A p \in Path : plan[d][p] # "commit"
Dirty(d) == pend[d] # {} \/ idx[d] # saved[d]
Mentions(recs, p) == \E x \in recs : x[1] = p

\* Mutant: the version is not compared.
NewerAny(recs) == recs

\* The server's compare-and-swap: a record lands if its version is newer.
Newer(recs) == {x \in recs : x[2].v > rec[x[1]].v}

Landed(recs) == [p \in Path |-> IF Mentions(recs, p)
                                THEN (CHOOSE x \in recs : x[1] = p)[2] ELSE rec[p]]

\* Mutant: the loser of a race keeps what it wrote in its journal.
PublishUnstruck(d, refused) ==
  /\ sweep[d].pc = "work" /\ Between(d) /\ Dirty(d) /\ refused = {}
  /\ rec' = Landed(Newer(pend[d]))
  /\ pend' = [pend EXCEPT ![d] = {}]
  /\ sweep' = [sweep EXCEPT ![d].pc = "save"]
  /\ UNCHANGED <<disk, saved, base, idx, plan, history, left>>

\* putState(): a record that lost the race is struck from the journal; one
\* the server could not store is reported and nothing else.
Publish(d, refused) ==
  /\ sweep[d].pc = "work" /\ Between(d) /\ Dirty(d) /\ refused \subseteq pend[d]
  /\ IF refused = {} THEN UNCHANGED left ELSE CheckpointFaults /\ Spend("fault")
  /\ LET asked == pend[d] \ refused
         stale == asked \ Newer(asked)
     IN /\ rec' = Landed(Newer(asked))
        /\ idx' = [idx EXCEPT ![d] = [p \in Path |->
                     IF Mentions(stale, p) THEN NoEntry ELSE @[p]]]
  /\ pend' = [pend EXCEPT ![d] = {}]
  /\ sweep' = [sweep EXCEPT ![d].pc = "save", ![d].ok = @ /\ refused = {}]
  /\ UNCHANGED <<disk, saved, base, plan, history>>

\* Mutant: the last publish fails like a checkpoint and the journal is saved.
PublishThrowsSaved(d, arrived) ==
  /\ sweep[d].pc = "work" /\ Between(d) /\ pend[d] # {} /\ Drained(d) /\ Spend("fault")
  /\ pend' = [pend EXCEPT ![d] = {}]
  /\ sweep' = [sweep EXCEPT ![d].pc = "save"]
  /\ UNCHANGED <<rec, disk, saved, base, idx, plan, history>>

\* The request or its answer is lost.  At the end of the sweep that ends it
\* without saving; at a checkpoint it is noted, and the batch is gone.
PublishThrows(d, arrived) ==
  /\ sweep[d].pc = "work" /\ Between(d) /\ pend[d] # {} /\ Spend("fault")
  /\ CheckpointFaults \/ Drained(d)
  /\ rec' = IF arrived THEN Landed(Newer(pend[d])) ELSE rec
  /\ pend' = [pend EXCEPT ![d] = {}]
  /\ IF Drained(d)
     THEN /\ sweep' = [sweep EXCEPT ![d] = Idle]
          /\ idx' = [idx EXCEPT ![d] = saved[d]]
     ELSE sweep' = [sweep EXCEPT ![d].whole = FALSE] /\ UNCHANGED idx
  /\ UNCHANGED <<disk, saved, base, plan, history>>

SaveIndex(d) ==
  /\ sweep[d].pc = "save"
  /\ saved' = [saved EXCEPT ![d] = idx[d]]
  /\ sweep' = [sweep EXCEPT ![d].pc = "work"]
  /\ UNCHANGED <<rec, disk, base, idx, plan, pend, history, left>>

\* A clean whole sweep is what gives a device a say about absences.
Finish(d) ==
  /\ sweep[d].pc = "work" /\ Drained(d) /\ ~Dirty(d)
  /\ base' = [base EXCEPT ![d] = @ \/ (sweep[d].ok /\ sweep[d].whole)]
  /\ sweep' = [sweep EXCEPT ![d] = Idle]
  /\ UNCHANGED <<rec, disk, saved, idx, plan, pend, history, left>>

\* Pause: the deletion and conflict loops return at once; later on nothing
\* new is started, but the agreements are still written down.
Stop(d) ==
  /\ sweep[d].pc = "work" /\ Between(d) /\ ~Drained(d) /\ Spend("halt")
  /\ LET early == \E p \in Path : Phase(plan[d][p]) <= 2
     IN plan' = [plan EXCEPT ![d] = [p \in Path |->
                   IF @[p] = "settle" /\ ~early THEN "settle" ELSE "none"]]
  /\ sweep' = [sweep EXCEPT ![d].whole = FALSE]
  /\ UNCHANGED <<rec, disk, saved, base, idx, pend, history>>

\* The app dies.  What it had not saved it never knew.
Crash(d) ==
  /\ sweep[d].pc # "idle" /\ Spend("halt")
  /\ sweep' = [sweep EXCEPT ![d] = Idle]
  /\ plan' = [plan EXCEPT ![d] = Nothing]
  /\ pend' = [pend EXCEPT ![d] = {}]
  /\ idx' = [idx EXCEPT ![d] = saved[d]]
  /\ UNCHANGED <<rec, disk, saved, base, history>>
-----------------------------------------------------------------------------
Act(d, p) == Remove(d, p, TRUE) \/ KeepBoth(d, p) \/ Commit(d, p) \/ Fetch(d, p)
             \/ Send(d, p) \/ Tombstone(d, p) \/ Settle(d, p)

\* What a device that is on, online and unpaused does.
Sweep(d) == \/ StartSweep(d, Ordinary)
            \/ Scan(d, FALSE, {}, FALSE)
            \/ \E p \in Path : Act(d, p)
            \/ Publish(d, {})
            \/ SaveIndex(d)
            \/ Finish(d)

Next == \E d \in Device :
  \/ \E p \in File : Edit(d, p) \/ DeleteFile(d, p) \/ Touch(d, p)
  \/ Rejoin(d) \/ Stop(d) \/ Crash(d)
  \/ \E o \in {Ordinary, Mirror} : StartSweep(d, o)
  \/ \E hash, confirmed \in BOOLEAN, unread \in {{}} \cup {{p} : p \in File} :
       Scan(d, hash, unread, confirmed)
  \/ \E p \in Path : Act(d, p) \/ Remove(d, p, FALSE) \/ TransferFails(d, p)
  \/ \E refused \in SUBSET pend[d] : Publish(d, refused)
  \/ \E arrived \in BOOLEAN : PublishThrows(d, arrived)
  \/ SaveIndex(d) \/ Finish(d)

Spec == Init /\ [][Next]_vars

\* A sweep is started again and again (the watcher, the heartbeat, a resume)
\* and runs to its end when nothing interrupts it.
FairSpec == Spec /\ \A d \in Device : WF_vars(Sweep(d))
-----------------------------------------------------------------------------
Rec == [v : Nat, live : BOOLEAN, c : Content \cup {None}, s : Stamp \cup {None},
        by : Device \cup {None}]
FileState == [c : Content \cup {None}, s : Stamp \cup {None}, h : BOOLEAN]
LocalState == [c : Content \cup {None}, s : Stamp \cup {None}, h : BOOLEAN, dl : Nat]
EntryState == [rec : Rec, local : LocalState]
Buckets == {"none", "remove", "keepBoth", "commit", "fetch", "send", "resurrect",
            "mustSend", "tombstone", "settle"}

\* The shape of the state ...
WellTyped ==
  /\ rec \in [Path -> Rec]
  /\ disk \in [Device -> [Path -> FileState]]
  /\ saved \in [Device -> [Path -> EntryState]]
  /\ idx \in [Device -> [Path -> EntryState]]
  /\ base \in [Device -> BOOLEAN]
  /\ plan \in [Device -> [Path -> Buckets]]
  /\ \A d \in Device : /\ pend[d] \subseteq Path \X Rec
                       /\ sweep[d].pc \in {"idle", "read", "work", "save"}
                       /\ sweep[d].st \in [Path -> Rec]
                       /\ sweep[d].dk \in [Path -> FileState]

\* ... in which, between two devices, a conflict copy is never itself in
\* conflict: every name the sweep can make is in Path.
TypeOK == WellTyped /\ \A d \in Device, p \in Path \ File : plan[d][p] # "commit"

\* What a user wrote, and no user replaced or deleted since, is on some
\* device's disk or named by a record: no sweep, race, crash or retry of
\* the executor loses it.
ContentKept ==
  \A c \in owed : \/ (\E d \in Device, p \in Path : disk[d][p].c = c)
                   \/ \E q \in Path : rec[q].c = c

\* The persisted journal never claims an agreement the shared records do not
\* hold ("THE RECORDS GO FIRST, ALWAYS", Journal in syncexec.js).
JournalNotAhead ==
  \A d \in Device, p \in Path : saved[d][p].rec.v <= rec[p].v

\* A path is dead in the folder only if some user deleted it: no unreadable
\* scan, interrupted conflict, lost journal or lost race becomes a deletion.
DeletionMeant == \A p \in Path : Dead(rec[p]) => p \in cut

\* What a phone's provider did to a download never replaces the live record
\* of the file ("MUST NOT PUBLISH THE REWRITE", the uploads of syncexec.js).
NoEcho ==
  [][\A p \in File : rec[p].live /\ rec'[p].live /\ rec'[p].c \in echo
                       => rec[p].c \in echo]_vars

\* A file another device deleted comes back only with different content: an
\* unchanged copy obeys the deletion (plan() in syncstate.js).  It fails over
\* two files, for a device that rejoins.
NoResurrection ==
  [][\A p \in Path : Dead(rec[p]) /\ rec'[p].live => rec'[p].c # rec[p].c]_vars

\* "Mirror this Device" publishes no deletion (the dialog of sync.js).  It
\* fails: see Mirror.
MirrorDeletesNothing ==
  [][\A d \in Device : sweep[d].opts = Mirror =>
       \A x \in pend'[d] : x[2].live]_vars

\* A file that legitimately differs from its record for good: a phone's
\* rewrite of a download, and a deletion a joining device holds back.
HeldBack(d, p) ==
  \/ d \in Phone /\ saved[d][p].local.dl > 0 /\ saved[d][p].local.dl = rec[p].v
  \/ ~base[d] /\ Dead(rec[p]) /\ disk[d][p].c = rec[p].c

InStep == \A d \in Device, p \in Path :
  \/ disk[d][p].c = (IF rec[p].live THEN rec[p].c ELSE None)
  \/ HeldBack(d, p)

\* Once users and faults rest, the devices' disks agree with the records for
\* ever after.
Converges == <>[]InStep
=============================================================================
