--------------------------- MODULE PcdbCheckpoint ----------------------------
(***************************************************************************)
(* checkpoint.save and checkpoint.load, write by write.  The per-event     *)
(* columns are files mapped copy-on-write: RAM holds private copies of the *)
(* rows beyond the last checkpoint and of the pages changed below it.  A   *)
(* checkpoint appends the tail, journals the changed pages, replaces the   *)
(* manifest, and only then writes the pages in place.                      *)
(*                                                                         *)
(* A row's value is <<epoch, operation>>: the log operation that set it,   *)
(* and the numbering it belongs to.  A full replay starts a new numbering, *)
(* because a compaction has moved records since; run files are never       *)
(* overwritten, so the manifest's runs are those of its own epoch.         *)
(***************************************************************************)
EXTENDS Integers, Sequences, FiniteSetsExt

CONSTANTS
    MaxRow, MaxLog, MaxCkpt,   \* bounds: rows, log operations, checkpoints in a row
    MaxUpgrades,               \* bound: starts under another version of the code
    MaxRefusals                \* bound: starts that cannot read the checkpoint

ASSUME CheckpointAssumption ==
    \A b \in {MaxRow, MaxLog, MaxCkpt, MaxUpgrades, MaxRefusals} : b \in Nat

VARIABLES
    log,        \* the rows written, in order
    synced,     \* operations of the log a power cut keeps
    ram,        \* the columns as the store reads them
    epoch,      \* the numbering of ram
    ckptN,      \* rows the last checkpoint covers
    dirty,      \* rows below ckptN changed since
    ckid,       \* _ckpt_id
    col, colS,  \* the column files: as the kernel holds them, as fsynced
    journal, manifest,
    pc,         \* the step of save
    version, refusals, epochs

ramVars == <<ram, epoch, ckptN, dirty, ckid>>
fileVars == <<col, colS, journal, manifest>>
vars == <<log, synced, ramVars, fileVars, pc, version, refusals, epochs>>

NoManifest == [id |-> 0, n |-> 0, pos |-> 0, epoch |-> 0, version |-> 0]
NoJournal == [id |-> 0, pages |-> <<>>]
Empty == <<0, 0>>
Files == 1 .. MaxRow

LastWrite(ops, i) == Max({k \in DOMAIN ops : ops[k] = i})
TableOf(ops, e) ==
    [i \in 1 .. Max({0} \cup {ops[k] : k \in DOMAIN ops}) |-> <<e, LastWrite(ops, i)>>]

TypeOK ==
    /\ log \in Seq(Files) /\ synced \in Nat
    /\ Len(ram) <= MaxRow /\ epoch \in 1 .. epochs
    /\ ckptN \in 0 .. Len(ram) /\ dirty \subseteq 1 .. ckptN
    /\ ckid \in Nat
    /\ DOMAIN col = Files /\ DOMAIN colS = Files
    /\ manifest.pos <= synced
    /\ pc \in {"idle", "tail", "journal", "sync", "manifest", "apply", "done", "commit"}

Init ==
    /\ log = <<>> /\ synced = 0
    /\ ram = <<>> /\ epoch = 1 /\ ckptN = 0 /\ dirty = {} /\ ckid = 0
    /\ col = [i \in Files |-> Empty] /\ colS = col
    /\ journal = NoJournal /\ manifest = NoManifest
    /\ pc = "idle" /\ version = 1 /\ refusals = 0 /\ epochs = 1

-----------------------------------------------------------------------------
(* Column.append and Column.__setitem__: RAM only, after the log frame.    *)
Write(i) ==
    /\ pc = "idle" /\ Len(log) < MaxLog
    /\ i \in 1 .. Len(ram) + 1
    /\ log' = Append(log, i)
    /\ ram' = IF i > Len(ram) THEN Append(ram, <<epoch, Len(log) + 1>>)
              ELSE [ram EXCEPT ![i] = <<epoch, Len(log) + 1>>]
    /\ dirty' = IF i <= ckptN THEN dirty \cup {i} ELSE dirty
    /\ UNCHANGED <<synced, epoch, ckptN, ckid, fileVars, pc, version, refusals, epochs>>

(* Mutation: the log is not flushed first.                                 *)
SaveStartUnflushed ==
    /\ pc = "idle" /\ ckid < MaxCkpt
    /\ pc' = "tail"
    /\ UNCHANGED <<log, synced, ramVars, fileVars, version, refusals, epochs>>

(* save: st.flush() makes the log durable, seal_all writes the runs.       *)
SaveStart ==
    /\ pc = "idle" /\ ckid < MaxCkpt
    /\ synced' = Len(log)
    /\ pc' = "tail"
    /\ UNCHANGED <<log, ramVars, fileVars, version, refusals, epochs>>

(* Some of the rows in S reach the file as RAM has them.                   *)
Patched(f, S) == [i \in Files |-> IF i \in S THEN ram[i] ELSE f[i]]

NewRows == ckptN + 1 .. Len(ram)

WriteTail ==
    /\ pc = "tail" /\ pc' = "journal"
    /\ col' = Patched(col, NewRows)
    /\ UNCHANGED <<log, synced, ramVars, colS, journal, manifest, version, refusals, epochs>>

(* _write_journal, only when there are entries.                            *)
WriteJournal ==
    /\ pc = "journal" /\ pc' = "sync"
    /\ journal' = IF dirty = {} THEN journal
                  ELSE [id |-> ckid + 1, pages |-> [i \in dirty |-> ram[i]]]
    /\ UNCHANGED <<log, synced, ramVars, col, colS, manifest, version, refusals, epochs>>

SyncColumns ==
    /\ pc = "sync" /\ pc' = "manifest"
    /\ colS' = col
    /\ UNCHANGED <<log, synced, ramVars, col, journal, manifest, version, refusals, epochs>>

WriteManifest ==
    /\ pc = "manifest"
    /\ manifest' = [id |-> ckid + 1, n |-> Len(ram), pos |-> Len(log), epoch |-> epoch,
                    version |-> version]
    /\ pc' = IF dirty = {} THEN "commit" ELSE "apply"
    /\ UNCHANGED <<log, synced, ramVars, col, colS, journal, version, refusals, epochs>>

ApplyJournal ==
    /\ pc = "apply" /\ pc' = "done"
    /\ col' = Patched(col, dirty)
    /\ UNCHANGED <<log, synced, ramVars, colS, journal, manifest, version, refusals, epochs>>

RemoveJournal ==
    /\ pc = "done" /\ pc' = "commit"
    /\ colS' = col /\ journal' = NoJournal
    /\ UNCHANGED <<log, synced, ramVars, col, manifest, version, refusals, epochs>>

(* committed: the private copies are dropped and the mapping rebuilt, so   *)
(* RAM now reads what the files hold.                                      *)
Commit ==
    /\ pc = "commit" /\ pc' = "idle"
    /\ ram' = SubSeq(col, 1, Len(ram))
    /\ ckptN' = Len(ram) /\ dirty' = {} /\ ckid' = ckid + 1
    /\ UNCHANGED <<log, synced, epoch, fileVars, version, refusals, epochs>>

(* A write of save raises (a full disk): the store goes on with what it    *)
(* has in RAM.  Part of the rows may have been written.                    *)
SaveFails ==
    /\ pc \notin {"idle", "commit"} /\ pc' = "idle"
    /\ \E S \in SUBSET (IF pc = "tail" THEN NewRows ELSE IF pc = "apply" THEN dirty ELSE {}) :
          col' = Patched(col, S)
    /\ UNCHANGED <<log, synced, ramVars, colS, journal, manifest, version, refusals, epochs>>

-----------------------------------------------------------------------------
(* What the files hold after a crash.  The process dying keeps the         *)
(* kernel's view; a power cut keeps, row by row, the fsynced value or the  *)
(* later one, and any part of the log after what was fsynced.              *)
Torn == {[i \in Files |-> IF i \in S THEN col[i] ELSE colS[i]] : S \in SUBSET Files}

AfterCrash ==
    {<<col, colS, log>>}
    \cup {<<c, c, SubSeq(log, 1, n)>> : c \in Torn, n \in synced .. Len(log)}

(* The log from the manifest's position, over the rows the files hold.     *)
Replayed(c, m, ops) ==
    LET later(i) == {k \in m.pos + 1 .. Len(ops) : ops[k] = i}
        n == Max({m.n} \cup {ops[k] : k \in m.pos + 1 .. Len(ops)})
    IN  [i \in 1 .. n |-> IF later(i) # {} THEN <<m.epoch, Max(later(i))>> ELSE c[i]]

(* Mutation: the journal is not applied again.                             *)
JournalIgnored(c) == c

(* load: the journal of THIS checkpoint is applied again and fsynced; any  *)
(* other is dropped.                                                       *)
JournalApplied(c) ==
    IF journal.id = manifest.id
    THEN [i \in Files |-> IF i \in DOMAIN journal.pages THEN journal.pages[i] ELSE c[i]]
    ELSE c

Open(v) ==
    \E x \in AfterCrash :
        LET c == JournalApplied(x[1]) ops == x[3] IN
        /\ manifest.version = v
        /\ col' = c /\ colS' = IF journal.id = manifest.id THEN c ELSE x[2]
        /\ journal' = NoJournal
        /\ log' = ops /\ UNCHANGED synced
        /\ ram' = Replayed(c, manifest, ops)
        /\ epoch' = manifest.epoch
        /\ ckptN' = manifest.n
        /\ dirty' = {i \in 1 .. manifest.n : \E k \in manifest.pos + 1 .. Len(ops) : ops[k] = i}
        /\ ckid' = manifest.id
        /\ pc' = "idle" /\ version' = v
        /\ UNCHANGED <<manifest, refusals, epochs>>

(* Mutation: the last whole frame goes with the torn tail.                 *)
ReplayCutShort(x, v) ==
    LET ops == SubSeq(x[3], 1, Len(x[3]) - 1) IN
    /\ col' = x[1] /\ colS' = x[2]
    /\ log' = ops /\ UNCHANGED synced
    /\ epochs' = epochs + 1 /\ epoch' = epochs + 1
    /\ ram' = TableOf(ops, epochs + 1)
    /\ ckptN' = 0 /\ dirty' = {} /\ ckid' = 0
    /\ pc' = "idle" /\ version' = v
    /\ UNCHANGED manifest

(* Mutation: the columns keep the rows of the checkpoint that was refused. *)
ReplayUnreset(x, v) ==
    /\ col' = x[1] /\ colS' = x[2]
    /\ log' = x[3] /\ UNCHANGED synced
    /\ epochs' = epochs + 1 /\ epoch' = epochs + 1
    /\ ram' = Replayed(x[1], manifest, x[3])
    /\ ckptN' = 0 /\ dirty' = {} /\ ckid' = 0
    /\ pc' = "idle" /\ version' = v
    /\ UNCHANGED manifest

(* The whole log, into columns reset to no rows (their files keep their    *)
(* bytes) and a store that has taken no checkpoint.                        *)
ReplayWholeLog(x, v) ==
    /\ col' = x[1] /\ colS' = x[2]
    /\ log' = x[3] /\ UNCHANGED synced
    /\ epochs' = epochs + 1 /\ epoch' = epochs + 1
    /\ ram' = TableOf(x[3], epochs + 1)
    /\ ckptN' = 0 /\ dirty' = {} /\ ckid' = 0
    /\ pc' = "idle" /\ version' = v
    /\ UNCHANGED manifest

(* No checkpoint yet, or one made by another version: refused before the   *)
(* journal is looked at.                                                   *)
Refuse(v) ==
    \E x \in AfterCrash :
        /\ manifest.version # v
        /\ epochs <= 1 + MaxUpgrades + MaxRefusals
        /\ ReplayWholeLog(x, v)
        /\ UNCHANGED <<journal, refusals>>

(* A file of the checkpoint could not be read this time.                   *)
Unreadable(v) ==
    \E x \in AfterCrash :
        /\ manifest.version = v
        /\ refusals < MaxRefusals /\ refusals' = refusals + 1
        /\ ReplayWholeLog(x, v)
        /\ UNCHANGED journal

Restart == \E v \in version .. Min({version + 1, 1 + MaxUpgrades}) : Open(v) \/ Refuse(v) \/ Unreadable(v)

Next ==
    \/ \E i \in Files : Write(i)
    \/ SaveStart \/ WriteTail \/ WriteJournal \/ SyncColumns \/ WriteManifest
    \/ ApplyJournal \/ RemoveJournal \/ Commit \/ SaveFails
    \/ Restart

Spec == Init /\ [][Next]_vars

-----------------------------------------------------------------------------
(* The store answers like a full replay of its log: after a checkpoint cut *)
(* short at any write, after the crash and the restart, after the next     *)
(* checkpoint made from what that restart built.                           *)
RecoveredExact == ram = TableOf(log, epoch)

(* The log alone recovers the table: a store that refused its checkpoint,  *)
(* for whatever reason and whatever the files hold, answers like a full    *)
(* replay until it commits a checkpoint of its own.                        *)
LogAloneRecovers == ckptN = 0 => ram = TableOf(log, epoch)

Abstract == INSTANCE DurableTable WITH
    safe <- synced,
    table <- [i \in DOMAIN ram |-> ram[i][2]]

(* The files implement the durable table: nothing but a crash takes an     *)
(* operation back, and never a safe one.                                   *)
ImplementsDurableTable == Abstract!Spec

=============================================================================
