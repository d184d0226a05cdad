------------------------------- MODULE PcdbLog -------------------------------
(***************************************************************************)
(* PosterChanDB's log: segments of frames, the event table derived from    *)
(* them, compaction (which moves records and drops a segment while writes  *)
(* go on), checkpoints, and what a restart makes of the files it finds.    *)
(*                                                                         *)
(* One step is one critical section of the store lock.  A drain and its    *)
(* fsync are one step here (GroupCommit splits them); the files behind a   *)
(* checkpoint are one value (PcdbCheckpoint splits their writing).         *)
(***************************************************************************)
EXTENDS PcdbRules

CONSTANTS
    Origins,     \* how an event arrived: "direct", "wot"
    SegFrames,   \* segment_bytes, in frames
    MaxFrames,   \* bound: frames in the log when a write starts
    MaxSeg,      \* bound: the last segment in which a write or a compaction starts
    MaxPuts      \* bound: how often one id is stored

ASSUME LogAssumption ==
    /\ Origins \subseteq {"direct", "wot"}
    /\ SegFrames \in Nat \ {0} /\ MaxFrames \in Nat /\ MaxSeg \in Nat /\ MaxPuts \in Nat

VARIABLES
    segs,     \* segs[sid]: the frames of each segment file (the active one: its arena)
    active,   \* the segment being written
    synced,   \* frames of the active segment that survive a power cut
    rows,     \* the event table
    ckpt,     \* the last checkpoint on disk
    comp,     \* the compaction running, if any
    acked,    \* history: direct events answered "saved" and not removed since
    purged    \* history: ids removed, the removal synced, and not stored again

vars == <<segs, active, synced, rows, ckpt, comp, acked, purged>>

NoCkpt == [at |-> 0]
Idle == [pc |-> "idle"]

Rows == [id : Ids, origin : Origins, seg : Nat, dead : BOOLEAN, tags : SUBSET Range(Author)]
Frames == {PutFrame(i, o) : i \in Ids, o \in Origins} \cup {DeadFrame(i) : i \in Ids}
          \cup {TagFrame(i, v) : i \in Ids, v \in Range(Author)}

(* Types; and every row with bytes points into a segment that exists.      *)
TypeOK ==
    /\ \A sid \in DOMAIN segs : sid \in 1 .. active /\ segs[sid] \in Seq(Frames)
    /\ active \in DOMAIN segs
    /\ synced \in 0 .. Len(segs[active])
    /\ rows \in Seq(Rows)
    /\ \A s \in DOMAIN rows : rows[s].seg = 0 \/ rows[s].seg \in DOMAIN segs
    /\ ckpt = NoCkpt \/ ckpt.at \in 1 .. active
    /\ comp.pc \in {"idle", "copy", "remove"}
    /\ acked \subseteq Ids /\ purged \subseteq Ids

Init ==
    /\ segs = [sid \in {1} |-> <<>>] /\ active = 1 /\ synced = 0
    /\ rows = <<>>
    /\ ckpt = NoCkpt
    /\ comp = Idle
    /\ acked = {} /\ purged = {}

-----------------------------------------------------------------------------
(* Replay.                                                                 *)

(* _replay, one frame of segment sid: a live duplicate is skipped, a dead  *)
(* one is an event received again; a death or a tag applies to the record  *)
(* _seq_of finds, if any.                                                  *)
ReplayFrame(rs, sid, f) ==
    LET s == SeqOfId(rs, f.id) IN
    CASE f.op = "put"  -> IF s = 0 \/ rs[s].dead THEN Append(rs, NewRow(f.id, f.origin, sid)) ELSE rs
      [] f.op = "dead" -> Killed(rs, {s})
      [] f.op = "tag"  -> Tagged(rs, {s}, {f.value})

ReplaySegment(rs, sid, frames) ==
    LET upTo[k \in 0 .. Len(frames)] ==
          IF k = 0 THEN rs ELSE ReplayFrame(upTo[k - 1], sid, frames[k])
    IN  upTo[Len(frames)]

(* _open's walk over the segment files, oldest first, starting after the   *)
(* first `from` frames of segment `first`.                                 *)
ReplayFrom(rs, files, first, from) ==
    LET last == Max({0} \cup DOMAIN files)
        rest(sid) == IF sid = first THEN SubSeq(files[sid], from + 1, Len(files[sid])) ELSE files[sid]
        upTo[sid \in 0 .. last] ==
          IF sid = 0 THEN rs
          ELSE IF sid \in DOMAIN files /\ sid >= first THEN ReplaySegment(upTo[sid - 1], sid, rest(sid))
          ELSE upTo[sid - 1]
    IN  upTo[last]

ReplayAll(files) == ReplayFrom(<<>>, files, 0, 0)

(* What a reader can see of a table.                                       *)
View(rs) == {[id |-> rs[s].id, origin |-> rs[s].origin, tags |-> rs[s].tags] : s \in LiveRows(rs)}
LiveIds(rs) == {rs[s].id : s \in LiveRows(rs)}

-----------------------------------------------------------------------------
Written == MapThenFoldSet(+, 0, LAMBDA sid : Len(segs[sid]), LAMBDA S : CHOOSE x \in S : TRUE, DOMAIN segs)
PutCount(i) == Cardinality({s \in DOMAIN rows : rows[s].id = i})

Room(fs) == Written + Len(fs) <= MaxFrames /\ active <= MaxSeg

Framed(fs) == [segs EXCEPT ![active] = @ \o fs]      \* _frame, for each of fs

Unlocked == comp.pc # "remove"

(* History: what the store must keep once `dead` records are removed on    *)
(* purpose -- a version that was only replaced still has to be there in    *)
(* some newer form.                                                        *)
AckedWithout(dead) ==
    {i \in acked : \A j \in dead : j # i /\ ~(IsVersioned(i) /\ Matches(j, i))}

(* put, on the writer thread.                                              *)
Ingest(i, o) ==
    LET r == Put(rows, i, o, active)
        died == LiveIds(rows) \ LiveIds(r.rows)
    IN
    /\ Unlocked /\ Room(r.frames)
    /\ PutCount(i) < MaxPuts \/ i \in LiveIds(rows)
    /\ rows' = r.rows
    /\ segs' = Framed(r.frames)
    /\ acked' = IF Kind[i] = "delete" THEN AckedWithout(died) ELSE acked
    /\ purged' = purged \ {i}
    /\ UNCHANGED <<active, synced, ckpt, comp>>

(* Store.kill: auto-clean or a purge, one record.                          *)
Prune(s) ==
    LET r == Kill([rows |-> rows, frames |-> <<>>], {s}) IN
    /\ Unlocked /\ Room(r.frames)
    /\ s \in LiveRows(rows) /\ rows[s].seg # 0
    /\ rows' = r.rows
    /\ segs' = Framed(r.frames)
    /\ acked' = AckedWithout({rows[s].id})
    /\ UNCHANGED <<active, synced, ckpt, comp, purged>>

(* History: everything in the log is durable, so the relay answers.        *)
Acknowledge ==
    /\ acked' = acked \cup {rows[s].id : s \in {s \in LiveRows(rows) : rows[s].origin = "direct"}}
    /\ purged' = {rows[s].id : s \in DOMAIN rows} \ LiveIds(rows)

(* Mutation: no fsync when no event was stored since the last one.         *)
SyncPutsOnly ==
    /\ Unlocked /\ synced < Len(segs[active])
    /\ synced' = IF \E k \in synced + 1 .. Len(segs[active]) : segs[active][k].op = "put"
                 THEN Len(segs[active]) ELSE synced
    /\ Acknowledge
    /\ UNCHANGED <<segs, active, rows, ckpt, comp>>

(* sync: drain and fsync, nothing else.                                    *)
Sync ==
    /\ Unlocked /\ synced < Len(segs[active])
    /\ synced' = Len(segs[active])
    /\ Acknowledge
    /\ UNCHANGED <<segs, active, rows, ckpt, comp>>

(* _rotate_if_full, over the drained files: a full segment is fsynced and  *)
(* closed and the next one opened; otherwise `keep` frames are durable.    *)
RotateIfFull(files, keep) ==
    IF Len(files[active]) >= SegFrames
    THEN /\ segs' = [sid \in DOMAIN files \cup {active + 1} |->
                       IF sid = active + 1 THEN <<>> ELSE files[sid]]
         /\ active' = active + 1 /\ synced' = 0
    ELSE segs' = files /\ synced' = keep /\ UNCHANGED active

(* flush: drain, rotate, fsync.                                            *)
Flush ==
    /\ Unlocked /\ synced < Len(segs[active])
    /\ RotateIfFull(segs, Len(segs[active]))
    /\ Acknowledge
    /\ UNCHANGED <<rows, ckpt, comp>>

(* A checkpoint describes the table at one place in the log.               *)
Checkpoint(rs, sids, at, len, del) ==
    [at |-> at, len |-> len, rows |-> rs, listed |-> {sid \in sids \ del : sid <= at}, deleted |-> del]

(* snapshot: a flush, then the checkpoint; none while a compaction runs.   *)
Snapshot ==
    /\ comp.pc = "idle"
    /\ RotateIfFull(segs, Len(segs[active]))
    /\ ckpt' = Checkpoint(rows, DOMAIN segs', active', synced', {})
    /\ Acknowledge
    /\ UNCHANGED <<rows, comp>>

-----------------------------------------------------------------------------
(* Compaction of a closed segment.                                         *)

CompactStart(sid) ==
    /\ comp.pc = "idle" /\ sid \in DOMAIN segs \ {active} /\ active <= MaxSeg
    /\ comp' = [pc |-> "copy", sid |-> sid, moved |-> {},
                todo |-> {s \in DOMAIN rows : rows[s].seg = sid}]
    /\ UNCHANGED <<segs, active, synced, rows, ckpt, acked, purged>>

(* One chunk: the next record still live is copied to the active segment   *)
(* with its derived tags beside it, and the copy handed to the kernel;     *)
(* the lock is free between chunks.                                        *)
CompactChunk ==
    LET todo == {s \in comp.todo : ~rows[s].dead}
        s == Min(todo)
        copy == <<PutFrame(rows[s].id, rows[s].origin)>>
                \o [k \in DOMAIN SetToSeq(rows[s].tags) |-> TagFrame(rows[s].id, SetToSeq(rows[s].tags)[k])]
    IN
    /\ comp.pc = "copy" /\ todo # {}
    /\ RotateIfFull(Framed(copy), synced)
    /\ rows' = [rows EXCEPT ![s].seg = active]
    /\ comp' = [comp EXCEPT !.todo = todo \ {s}, !.moved = @ \cup {rows[s].id}]
    /\ UNCHANGED <<ckpt, acked, purged>>

(* Mutation: no marker is carried.                                         *)
CarriedNone(sid) == <<>>

(* _markers_of: where segment sid has a marker; from RAM, the .mk file or  *)
(* the segment, the same frames.                                           *)
Markers(sid) == {k \in DOMAIN segs[sid] : segs[sid][k].op # "put"}

(* The markers of segment sid that still mean something.                   *)
Carried(sid) ==
    LET needed(f) ==
          LET s == SeqOfId(rows, f.id) IN
          /\ f.id \notin comp.moved /\ s # 0
          /\ \/ f.op = "dead" /\ rows[s].dead /\ rows[s].seg # sid
             \/ f.op = "tag" /\ ~rows[s].dead /\ rows[s].seg < sid
    IN  Picked(segs[sid], {k \in Markers(sid) : needed(segs[sid][k])})

(* Mutation: dead records keep pointing at the segment.                    *)
DroppedNone(sid) == rows

Dropped(sid) ==
    [s \in DOMAIN rows |->
        IF rows[s].seg = sid THEN [rows[s] EXCEPT !.seg = 0, !.tags = {}] ELSE rows[s]]

(* Mutation: the segment goes before its last records are copied.          *)
CompactFinishEarly ==
    LET sid == comp.sid
        files == Framed(Carried(sid))
    IN
    /\ comp.pc = "copy"
    /\ RotateIfFull(files, Len(files[active]))
    /\ rows' = Dropped(sid)
    /\ ckpt' = Checkpoint(rows', DOMAIN segs', active', synced', {sid})
    /\ comp' = [pc |-> "remove", sid |-> sid]
    /\ Acknowledge

(* The last critical section: markers carried and fsynced, the segment's   *)
(* dead records dropped, the checkpoint that no longer lists it.           *)
CompactFinish ==
    LET sid == comp.sid
        files == Framed(Carried(sid))
    IN
    /\ comp.pc = "copy" /\ \A s \in comp.todo : rows[s].dead
    /\ RotateIfFull(files, Len(files[active]))
    /\ rows' = Dropped(sid)
    /\ ckpt' = Checkpoint(rows', DOMAIN segs', active', synced', {sid})
    /\ comp' = [pc |-> "remove", sid |-> sid]
    /\ Acknowledge

(* ... and then the file goes.  The lock is held throughout; only a crash  *)
(* comes between.                                                          *)
CompactRemove ==
    /\ comp.pc = "remove"
    /\ segs' = Restrict(segs, DOMAIN segs \ {comp.sid})
    /\ comp' = Idle
    /\ UNCHANGED <<active, synced, rows, ckpt, acked, purged>>

-----------------------------------------------------------------------------
(* A crash, and the restart after it.                                      *)

(* What a power cut leaves: the active segment cut somewhere after what    *)
(* was fsynced (a process crash keeps all that reached the kernel).        *)
Cut(n) == [segs EXCEPT ![active] = SubSeq(@, 1, n)]

(* checkpoint.load accepts: every listed segment is there, and none it     *)
(* does not know is older than its position (a segment a finished          *)
(* compaction left behind is removed first).  The sizes it compares cannot *)
(* differ: a closed segment never changes, and the active one was fsynced  *)
(* up to the recorded length.                                              *)
Usable(files) ==
    /\ ckpt # NoCkpt
    /\ ckpt.listed \subseteq DOMAIN files
    /\ \A sid \in DOMAIN files : sid < ckpt.at => sid \in ckpt.listed \cup ckpt.deleted

Reopen(files, n) ==
    /\ segs' = files
    /\ synced' = n
    /\ comp' = Idle
    /\ UNCHANGED <<active, acked, purged>>

RestartFromCheckpoint ==
    \E n \in synced .. Len(segs[active]) :
        LET files == Restrict(Cut(n), DOMAIN segs \ ckpt.deleted) IN
        /\ Usable(Cut(n))
        /\ rows' = ReplayFrom(ckpt.rows, files, ckpt.at, ckpt.len)
        /\ Reopen(files, n)
        /\ UNCHANGED ckpt

(* A replay checkpoints after every segment but the last that added rows.  *)
(* (A checkpoint this version refused is refused again: it is as good as   *)
(* none.)                                                                  *)
CheckpointOfReplay(files) ==
    LET upTo(sid) == Restrict(files, {x \in DOMAIN files : x <= sid})
        before(sid) == Restrict(files, {x \in DOMAIN files : x < sid})
        grew == {sid \in DOMAIN files \ {active} : Len(ReplayAll(upTo(sid))) > Len(ReplayAll(before(sid)))}
        next == Min({x \in DOMAIN files : x > Max(grew)})
    IN  IF grew = {} THEN NoCkpt
        ELSE Checkpoint(ReplayAll(upTo(Max(grew))), DOMAIN files, next, 0, {})

(* No checkpoint, or one that is refused: the whole log is replayed.       *)
RestartReplayingAll ==
    \E n \in synced .. Len(segs[active]) :
        /\ rows' = ReplayAll(Cut(n))
        /\ ckpt' = CheckpointOfReplay(Cut(n))
        /\ Reopen(Cut(n), n)

Next ==
    \/ \E i \in Ids, o \in Origins : Ingest(i, o)
    \/ \E s \in DOMAIN rows : Prune(s)
    \/ Sync \/ Flush \/ Snapshot
    \/ \E sid \in DOMAIN segs : CompactStart(sid)
    \/ CompactChunk \/ CompactFinish \/ CompactRemove
    \/ RestartFromCheckpoint \/ RestartReplayingAll

Spec == Init /\ [][Next]_vars

-----------------------------------------------------------------------------
(* Whatever was pruned, superseded, quoted, moved or dropped, and wherever *)
(* a compaction stands, a full replay of the log would show a reader what  *)
(* it sees now: the same live events, of the same origin, with the same    *)
(* derived tags.                                                           *)
ReplayExact == View(ReplayAll(segs)) = View(rows)

(* A coordinate has one live version -- also after a restart, which does   *)
(* not re-apply the rules but relies on the death markers.                 *)
OneLiveVersion ==
    \A s, t \in LiveRows(rows) :
        s # t /\ IsVersioned(rows[s].id) /\ rows[s].id # rows[t].id
        /\ FirstD(rows[s].id) = FirstD(rows[t].id)
            => ~Matches(rows[s].id, rows[t].id)

(* One live record an id: dedupe holds across copies, replays and moves.   *)
OneLiveRecord == \A s, t \in LiveRows(rows) : rows[s].id = rows[t].id => s = t

(* A note the relay answered "saved" for can still be read, unless its     *)
(* author deleted it or it was pruned: a crash, a compaction or a refused  *)
(* checkpoint does not take it away.                                       *)
AckedNoteKept ==
    \A i \in acked : ~IsVersioned(i) => \E s \in LiveRows(rows) : rows[s].id = i /\ rows[s].seg # 0

(* The same of a document: the version that was saved, or one that         *)
(* replaced it, is there.                                                  *)
AckedDocumentKept ==
    \A i \in acked : IsVersioned(i) => \E s \in LiveRows(rows) : Matches(rows[s].id, i)

(* A removal that was synced holds: no restart brings the event back.      *)
PurgeHolds == purged \cap LiveIds(rows) = {}

=============================================================================
