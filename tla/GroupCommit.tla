----------------------------- MODULE GroupCommit -----------------------------
(***************************************************************************)
(* The durability path of one relay process: clients' writes go through    *)
(* the single writer thread into the active segment's arena, and three     *)
(* threads hand that arena to the kernel and fsync it -- the group-commit  *)
(* syncer, the flush timer and the writer itself (bulk imports, purges).   *)
(* Every fsync runs OUTSIDE the store lock, on a file object that a        *)
(* rotation, a failed write or a close may have closed meanwhile.          *)
(*                                                                         *)
(* The log is a sequence of frames; a frame is known by its position, so   *)
(* the three lengths below say what a reader, a process crash and a power  *)
(* cut keep.  A step is one critical section of `_lock`, or one call made  *)
(* outside it.                                                             *)
(***************************************************************************)
EXTENDS Integers

CONSTANTS
    Direct,      \* events published here: answered only once durable
    Copies,      \* events synced from other relays: answered once stored
    Bulk,        \* direct imports and purges: synced by the writer thread
    SegFrames,   \* segment_bytes, in frames
    MaxFaults    \* how many I/O errors the disk may report (a bound)

ASSUME ClassesDisjoint ==
    /\ Direct \cap Copies = {} /\ Direct \cap Bulk = {} /\ Copies \cap Bulk = {}
ASSUME BoundsAssumption == SegFrames \in Nat \ {0} /\ MaxFaults \in Nat

Writes == Direct \cup Copies \cup Bulk

VARIABLES
    end,         \* frames in the log as readers see it (the arenas)
    flushed,     \* frames handed to the kernel: they survive a process crash
    durable,     \* frames fsynced: they survive a power cut
    segBase,     \* frames in closed segments
    pos,         \* pos[w]: the frame that holds w, 0 when the log has none
    file,        \* "open", "none" (store closed), "wedged", "refused"
    fd,          \* the file object each thread captured under the lock
    req,         \* where each client's write is
    syncer,      \* the syncer thread's program counter
    syncOk,      \* the `ok` of _sync_loop
    writer,      \* the writer thread inside a bulk write
    flusher,     \* the flush timer
    writesClosed, stop,
    faults

store == <<end, flushed, durable, segBase, pos>>
threads == <<syncer, syncOk, writer, flusher>>
vars == <<store, file, fd, req, threads, writesClosed, stop, faults>>

Threads == {"syncer", "writer", "flusher"}

(* Types; a closed segment is durable, what is durable was handed to the   *)
(* kernel, and no write is placed beyond the end of the log.               *)
TypeOK ==
    /\ end \in Nat /\ flushed \in 0 .. end /\ durable \in 0 .. flushed /\ segBase \in 0 .. durable
    /\ pos \in [Writes -> 0 .. end]
    /\ file \in {"open", "none", "wedged", "refused"}
    /\ fd \in [Threads -> {"none", "open", "closed"}]
    /\ req \in [Writes -> {"idle", "queued", "stored", "waiting", "batch", "bulk", "ok", "no"}]
    /\ syncer \in {"none", "loop", "drain", "fsync", "answer", "exit"}
    /\ syncOk \in BOOLEAN
    /\ writer \in {"idle", "drain", "fsync"}
    /\ flusher \in {"idle", "fsync"}
    /\ writesClosed \in BOOLEAN /\ stop \in BOOLEAN
    /\ faults \in Nat

Init ==
    /\ end = 0 /\ flushed = 0 /\ durable = 0 /\ segBase = 0
    /\ pos = [w \in Writes |-> 0]
    /\ file = "open"
    /\ fd = [t \in Threads |-> "none"]
    /\ req = [w \in Writes |-> "idle"]
    /\ syncer = "none" /\ syncOk = TRUE
    /\ writer = "idle" /\ flusher = "idle"
    /\ writesClosed = FALSE /\ stop = FALSE
    /\ faults = 0

-----------------------------------------------------------------------------
(* The store: what a thread does while it holds `_lock`, and its fsync.    *)

Fault == faults < MaxFaults /\ faults' = faults + 1

(* The file object every thread captured is the current one, so a close    *)
(* (rotation, undo, shutdown) closes it under all of them.                 *)
CloseFd == [t \in Threads |-> IF fd[t] = "open" THEN "closed" ELSE fd[t]]

(* _drain: the buffer goes to the kernel in one write.                     *)
DrainOk == file = "open" /\ flushed' = end

(* Mutation: the cut-back file is closed without the fsync.                *)
DrainFailsUnsynced ==
    \/ file = "wedged" /\ UNCHANGED <<store, fd, faults>>
    \/ /\ file = "open" /\ end > flushed /\ Fault
       /\ fd' = CloseFd /\ UNCHANGED store

(* _drain raises: nothing moved.  _undo_partial_write cut the file back to *)
(* `_flushed`, fsynced it and closed the old object -- or that fsync       *)
(* failed too, and the old object stays open on the same file.             *)
DrainFails ==
    \/ /\ file = "wedged"                \* no arena for `_active`: KeyError
       /\ UNCHANGED <<store, fd, faults>>
    \/ /\ file = "open" /\ end > flushed /\ Fault
       /\ UNCHANGED <<end, flushed, segBase, pos>>
       /\ \/ durable' = flushed /\ fd' = CloseFd
          \/ UNCHANGED <<durable, fd>>

(* os.fsync on the captured object.  A closed one is success: whoever      *)
(* closed it had fsynced it.                                               *)
FsyncOk(t) ==
    /\ durable' = IF fd[t] = "open" THEN flushed ELSE durable
    /\ fd' = [fd EXCEPT ![t] = "none"]

FsyncFails(t) ==
    /\ fd[t] = "open" /\ Fault
    /\ fd' = [fd EXCEPT ![t] = "none"]

(* Store.sync's locked half, for thread t.                                 *)
Capture(t) ==
    /\ DrainOk
    /\ fd' = [fd EXCEPT ![t] = "open"]
    /\ UNCHANGED <<end, durable, segBase, pos, faults>>

-----------------------------------------------------------------------------
(* Clients and the writer thread.                                          *)

(* add_event is called: first delivery, or a client's retry after a        *)
(* refusal, or after a crash that left it without an answer.               *)
Submit(w) ==
    /\ file # "refused"
    /\ req[w] \in {"idle", "no"}
    /\ req' = [req EXCEPT ![w] = "queued"]
    /\ UNCHANGED <<store, file, fd, threads, writesClosed, stop, faults>>

Answer(w) == CASE w \in Direct -> "stored" [] w \in Copies -> "ok" [] w \in Bulk -> "bulk"

(* _add_event_sync_full: refused once writes are closed; an id the log     *)
(* holds is a duplicate, which still counts as saved; a store that lost    *)
(* its active arena raises.                                                *)
WriterPut(w) ==
    /\ req[w] = "queued" /\ writer = "idle"
    /\ \/ /\ writesClosed \/ (file = "wedged" /\ pos[w] = 0)
          /\ req' = [req EXCEPT ![w] = "no"]
          /\ UNCHANGED <<store, writer>>
       \/ /\ ~writesClosed /\ pos[w] # 0
          /\ req' = [req EXCEPT ![w] = Answer(w)]
          /\ writer' = IF w \in Bulk THEN "drain" ELSE "idle"
          /\ UNCHANGED store
       \/ /\ ~writesClosed /\ pos[w] = 0 /\ file = "open"
          /\ end' = end + 1
          /\ pos' = [pos EXCEPT ![w] = end + 1]
          /\ req' = [req EXCEPT ![w] = Answer(w)]
          /\ writer' = IF w \in Bulk THEN "drain" ELSE "idle"
          /\ UNCHANGED <<flushed, durable, segBase>>
    /\ UNCHANGED <<file, fd, syncer, syncOk, flusher, writesClosed, stop, faults>>

BulkAnswer(r) == req' = [w \in Writes |-> IF req[w] = "bulk" THEN r ELSE req[w]]

(* _add_events_bulk_sync and the purges end in Store.sync, on the writer   *)
(* thread; an error reaches the caller.                                    *)
WriterDrain ==
    /\ writer = "drain"
    /\ \/ Capture("writer") /\ writer' = "fsync" /\ UNCHANGED req
       \/ DrainFails /\ writer' = "idle" /\ BulkAnswer("no")
       \/ /\ file = "none"                       \* sync() returns 0
          /\ writer' = "idle" /\ BulkAnswer("ok") /\ UNCHANGED <<store, fd, faults>>
    /\ UNCHANGED <<file, syncer, syncOk, flusher, writesClosed, stop>>

WriterFsync ==
    /\ writer = "fsync" /\ writer' = "idle"
    /\ \/ FsyncOk("writer") /\ BulkAnswer("ok") /\ UNCHANGED faults
       \/ FsyncFails("writer") /\ BulkAnswer("no") /\ UNCHANGED durable
    /\ UNCHANGED <<end, flushed, segBase, pos, file, syncer, syncOk, flusher, writesClosed, stop>>

-----------------------------------------------------------------------------
(* The group commit.                                                       *)

(* Mutation: a waiter relies on a syncer somebody else started.            *)
DurableUnstarted(w) ==
    /\ req[w] = "stored"
    /\ req' = [req EXCEPT ![w] = "waiting"]
    /\ UNCHANGED <<store, file, fd, threads, writesClosed, stop, faults>>

(* _durable: join the waiters; start a syncer when none is ALIVE (one that *)
(* has already decided to return still counts as alive).                   *)
Durable(w) ==
    /\ req[w] = "stored"
    /\ req' = [req EXCEPT ![w] = "waiting"]
    /\ syncer' = IF syncer = "none" THEN "loop" ELSE syncer
    /\ UNCHANGED <<store, file, fd, syncOk, writer, flusher, writesClosed, stop, faults>>

Waiting == {w \in Direct : req[w] = "waiting"}
Batch == {w \in Direct : req[w] = "batch"}

(* _sync_loop takes every waiter at once.                                  *)
SyncerTake ==
    /\ syncer = "loop" /\ Waiting # {}
    /\ req' = [w \in Writes |-> IF req[w] = "waiting" THEN "batch" ELSE req[w]]
    /\ syncer' = "drain" /\ syncOk' = TRUE
    /\ UNCHANGED <<store, file, fd, writer, flusher, writesClosed, stop, faults>>

SyncerQuit ==
    /\ syncer = "loop" /\ Waiting = {} /\ stop
    /\ syncer' = "exit"
    /\ UNCHANGED <<store, file, fd, req, syncOk, writer, flusher, writesClosed, stop, faults>>

SyncerDies ==
    /\ syncer = "exit" /\ syncer' = "none"
    /\ UNCHANGED <<store, file, fd, req, syncOk, writer, flusher, writesClosed, stop, faults>>

SyncerDrain ==
    /\ syncer = "drain"
    /\ \/ Capture("syncer") /\ syncer' = "fsync" /\ UNCHANGED syncOk
       \/ DrainFails /\ syncer' = "answer" /\ syncOk' = FALSE
       \/ /\ file = "none"                       \* sync() returns 0
          /\ syncer' = "answer" /\ UNCHANGED <<syncOk, store, fd, faults>>
    /\ UNCHANGED <<file, req, writer, flusher, writesClosed, stop>>

SyncerFsync ==
    /\ syncer = "fsync" /\ syncer' = "answer"
    /\ \/ FsyncOk("syncer") /\ UNCHANGED <<syncOk, faults>>
       \/ FsyncFails("syncer") /\ syncOk' = FALSE /\ UNCHANGED durable
    /\ UNCHANGED <<end, flushed, segBase, pos, file, req, writer, flusher, writesClosed, stop>>

SyncerAnswer ==
    /\ syncer = "answer" /\ syncer' = "loop"
    /\ req' = [w \in Writes |->
                 IF req[w] = "batch" THEN (IF syncOk THEN "ok" ELSE "no") ELSE req[w]]
    /\ UNCHANGED <<store, file, fd, syncOk, writer, flusher, writesClosed, stop, faults>>

-----------------------------------------------------------------------------
(* The flush timer, and the rotation it may do.                            *)

Full == end - segBase >= SegFrames

(* Mutation: the closed segment is not fsynced.                            *)
RotateUnsynced ==
    /\ segBase' = end /\ UNCHANGED durable
    /\ fd' = [CloseFd EXCEPT !["flusher"] = "closed"]

(* _rotate_if_full: a full segment's file is fsynced, then closed.  flush  *)
(* captured that file before it.                                           *)
Rotate ==
    /\ durable' = end /\ segBase' = end
    /\ fd' = [CloseFd EXCEPT !["flusher"] = "closed"]

(* flush's locked half, from the timer.  When the NEXT segment's file      *)
(* cannot be created (NewSegmentFails), `_active` already names it: the    *)
(* store has no arena to write to, and an empty file may be left.          *)
FlushNotFull ==
    /\ DrainOk /\ ~Full
    /\ fd' = [fd EXCEPT !["flusher"] = "open"]
    /\ flusher' = "fsync"
    /\ UNCHANGED <<durable, segBase, file, faults>>

FlushRotates ==
    /\ DrainOk /\ Full /\ Rotate
    /\ flusher' = "fsync"
    /\ UNCHANGED <<file, faults>>

NewSegmentFails ==
    /\ DrainOk /\ Full /\ Fault
    /\ durable' = end /\ fd' = CloseFd /\ file' = "wedged"
    /\ UNCHANGED segBase

LockedFsyncFails ==
    /\ DrainOk /\ Fault
    /\ UNCHANGED <<durable, segBase, fd, file>>

FlushLocked ==
    /\ flusher = "idle" /\ ~stop /\ end > flushed
    /\ \/ FlushNotFull
       \/ FlushRotates
       \/ NewSegmentFails /\ UNCHANGED flusher
       \/ Full /\ LockedFsyncFails /\ UNCHANGED flusher
       \/ DrainFails /\ UNCHANGED <<file, flusher>>
    /\ UNCHANGED <<end, pos, req, syncer, syncOk, writer, writesClosed, stop>>

FlushFsync ==
    /\ flusher = "fsync" /\ flusher' = "idle"
    /\ \/ FsyncOk("flusher") /\ UNCHANGED faults
       \/ FsyncFails("flusher") /\ UNCHANGED durable
    /\ UNCHANGED <<end, flushed, segBase, pos, file, req, syncer, syncOk, writer, writesClosed, stop>>

-----------------------------------------------------------------------------
(* Shutdown, crash and restart.                                            *)

CloseWrites ==
    /\ ~writesClosed /\ writer = "idle" /\ file # "refused"
    /\ writesClosed' = TRUE
    /\ UNCHANGED <<store, file, fd, req, threads, stop, faults>>

CloseStop ==
    /\ writesClosed /\ ~stop
    /\ stop' = TRUE
    /\ UNCHANGED <<store, file, fd, req, threads, writesClosed, faults>>

(* Store.close: a flush and its fsync under the lock, then the file goes.  *)
(* An error leaves the file as it was.                                     *)
CloseStore ==
    /\ stop /\ writer = "idle"
    /\ \A w \in Writes : req[w] # "queued"          \* _write_exec.shutdown(wait=True)
    /\ \/ /\ DrainOk /\ durable' = end /\ fd' = CloseFd
          /\ file' = "none" /\ segBase' = IF Full THEN end ELSE segBase
          /\ UNCHANGED <<end, pos, faults>>
       \/ NewSegmentFails /\ UNCHANGED <<end, pos>>
       \/ LockedFsyncFails /\ UNCHANGED <<end, pos>>
       \/ DrainFails /\ UNCHANGED file
    /\ UNCHANGED <<req, threads, writesClosed, stop>>

(* What a restart keeps of the clients' requests: only answers given.      *)
Forget(r) == IF r \in {"ok", "no"} THEN r ELSE "idle"

Restart(n) ==
    /\ end' = n /\ flushed' = n
    /\ segBase' = segBase
    /\ pos' = [w \in Writes |-> IF pos[w] > n THEN 0 ELSE pos[w]]
    /\ \/ file' = "open"
       \/ file = "wedged" /\ file' = "refused"
    /\ fd' = [t \in Threads |-> "none"]
    /\ req' = [w \in Writes |-> Forget(req[w])]
    /\ syncer' = "none" /\ syncOk' = TRUE /\ writer' = "idle" /\ flusher' = "idle"
    /\ writesClosed' = FALSE /\ stop' = FALSE
    /\ UNCHANGED faults

(* The process dies (or exits after close) and is started again: the file  *)
(* is read back as the kernel holds it.  A failed rotation may have left a *)
(* segment file with no header, which makes _replay raise: the store does  *)
(* not open.                                                               *)
ProcessDies == file # "refused" /\ Restart(flushed) /\ UNCHANGED durable

(* A power cut keeps what was fsynced and any part of the rest; the torn   *)
(* tail is cut off and the cut fsynced.                                    *)
PowerCut ==
    /\ file # "refused"
    /\ \E n \in durable .. flushed : Restart(n) /\ durable' = n

Next ==
    \/ \E w \in Writes : Submit(w) \/ WriterPut(w) \/ Durable(w)
    \/ WriterDrain \/ WriterFsync
    \/ SyncerTake \/ SyncerQuit \/ SyncerDies \/ SyncerDrain \/ SyncerFsync \/ SyncerAnswer
    \/ FlushLocked \/ FlushFsync
    \/ CloseWrites \/ CloseStop \/ CloseStore
    \/ ProcessDies \/ PowerCut

Spec == Init /\ [][Next]_vars

(* The threads run: the writer's executor, the syncer and the event loop   *)
(* that resumes add_event.  The executor is a FIFO queue, so no write is   *)
(* overtaken for ever (strong fairness).  Clients, disk errors, the flush  *)
(* timer, the shutdown and crashes may come at any time or never.          *)
Fairness ==
    /\ \A w \in Writes : SF_vars(WriterPut(w)) /\ WF_vars(Durable(w))
    /\ WF_vars(WriterDrain) /\ WF_vars(WriterFsync)
    /\ WF_vars(SyncerTake) /\ WF_vars(SyncerQuit) /\ WF_vars(SyncerDies)
    /\ WF_vars(SyncerDrain) /\ WF_vars(SyncerFsync) /\ WF_vars(SyncerAnswer)

FairSpec == Spec /\ Fairness

-----------------------------------------------------------------------------
(* A direct write (or a bulk import, or a purge) the relay answered "saved"*)
(* is in the log, below what a power cut keeps: whatever other thread      *)
(* rotated, closed or cut back the file between the drain and the fsync,   *)
(* and after any number of crashes and retries.                            *)
AckedDurable == \A w \in Direct \cup Bulk : req[w] = "ok" => pos[w] \in 1 .. durable

(* Until the relay is stopping, every author who waits on the group commit *)
(* is answered (or the process dies): no waiter is left out of every batch.*)
PublishAnswered ==
    \A w \in Direct :
        req[w] \in {"queued", "stored", "waiting", "batch"} ~> (req[w] \in {"ok", "no", "idle"} \/ stop)

(* The store survives a full disk: whatever write failed, it opens again.  *)
OpensAgain == file # "refused"

=============================================================================
