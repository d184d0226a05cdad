-------------------------- MODULE GroupCommitProofs --------------------------
(***************************************************************************)
(* An answer "saved" is a promise about the disk: proved for any number of *)
(* clients, any segment size and any number of I/O errors.                 *)
(***************************************************************************)
EXTENDS GroupCommit, TLAPS

Answered == {"stored", "waiting", "batch", "bulk", "ok"}

(* The strengthening.  A write on its way to an answer is in the log; a    *)
(* batch whose fsync is pending was handed to the kernel, and is already   *)
(* durable if the file it captured was closed under it; a batch about to   *)
(* be told "saved" is durable; and a closed store has nothing left that is *)
(* not.                                                                    *)
Covered(t, W) ==
    \A w \in W : pos[w] <= flushed /\ (fd[t] = "closed" => pos[w] <= durable)

BulkInFlight == {w \in Bulk : req[w] = "bulk"}

InLog == \A w \in Direct \cup Bulk : req[w] \in Answered => pos[w] # 0
SyncerInv ==
    /\ syncer = "fsync" => fd["syncer"] # "none" /\ Covered("syncer", Batch)
    /\ syncer = "answer" /\ syncOk => \A w \in Batch : pos[w] <= durable
    /\ syncer \in {"none", "loop", "exit"} => Batch = {}
WriterInv ==
    /\ writer = "fsync" => fd["writer"] # "none" /\ Covered("writer", BulkInFlight)
    /\ writer = "idle" => BulkInFlight = {}
ClosedInv == file = "none" => durable = end
Classes ==
    /\ \A w \in Writes : req[w] \in {"stored", "waiting", "batch"} => w \in Direct
    /\ \A w \in Writes : req[w] = "bulk" => w \in Bulk

IInv == TypeOK /\ AckedDurable /\ InLog /\ SyncerInv /\ WriterInv /\ ClosedInv /\ Classes

Flags == syncOk \in BOOLEAN /\ writesClosed \in BOOLEAN /\ stop \in BOOLEAN

LEMMA InitIInv == Init => IInv
<1> SUFFICES ASSUME Init PROVE IInv
  OBVIOUS
<1>1. Flags
  BY Zenon DEF Init, Flags
<1>2. TypeOK
  BY <1>1 DEF Init, Flags, TypeOK, Threads
<1>3. \A w \in Writes : req[w] = "idle"
  BY DEF Init
<1>4. syncer = "none" /\ writer = "idle" /\ file = "open"
  BY DEF Init
<1> QED
  BY <1>2, <1>3, <1>4
  DEF IInv, AckedDurable, InLog, SyncerInv, WriterInv, ClosedInv, Classes,
      Batch, BulkInFlight, Answered, Writes

-----------------------------------------------------------------------------
(* Type correctness is inductive on its own.                               *)
LEMMA TypeStep == TypeOK /\ [Next]_vars => TypeOK'
<1> SUFFICES ASSUME TypeOK, [Next]_vars PROVE TypeOK'
  OBVIOUS
<1> USE BoundsAssumption DEF TypeOK, store, threads
<1>1. ASSUME NEW w \in Writes, Submit(w) PROVE TypeOK'
  BY <1>1 DEF Submit
<1>2. ASSUME NEW w \in Writes, WriterPut(w) PROVE TypeOK'
  BY <1>2 DEF WriterPut, Answer, Writes
<1>3. ASSUME NEW w \in Writes, Durable(w) PROVE TypeOK'
  BY <1>3 DEF Durable
<1>4. CASE WriterDrain
  BY <1>4 DEF WriterDrain, Capture, DrainOk, DrainFails, Fault, CloseFd, BulkAnswer, Threads
<1>5. CASE WriterFsync
  BY <1>5 DEF WriterFsync, FsyncOk, FsyncFails, Fault, BulkAnswer, Threads
<1>6. CASE SyncerTake
  BY <1>6 DEF SyncerTake
<1>7. CASE SyncerQuit \/ SyncerDies
  BY <1>7 DEF SyncerQuit, SyncerDies
<1>8. CASE SyncerDrain
  <2>1. Flags'
    BY <1>8, Zenon DEF SyncerDrain, Flags
  <2> QED
    BY <1>8, <2>1 DEF SyncerDrain, Capture, DrainOk, DrainFails, Fault, CloseFd, Threads, Flags
<1>9. CASE SyncerFsync
  <2>1. Flags'
    BY <1>9, Zenon DEF SyncerFsync, Flags
  <2> QED
    BY <1>9, <2>1 DEF SyncerFsync, FsyncOk, FsyncFails, Fault, Threads, Flags
<1>10. CASE SyncerAnswer
  BY <1>10 DEF SyncerAnswer
<1>11. CASE FlushLocked
  <2> USE <1>11 DEF FlushLocked, DrainOk, Fault, CloseFd, Threads
  <2>1. CASE FlushNotFull
    BY <2>1 DEF FlushNotFull
  <2>2. CASE FlushRotates
    BY <2>2 DEF FlushRotates, Rotate
  <2>3. CASE NewSegmentFails /\ UNCHANGED flusher
    BY <2>3 DEF NewSegmentFails
  <2>4. CASE LockedFsyncFails /\ UNCHANGED flusher
    BY <2>4 DEF LockedFsyncFails
  <2>5. CASE DrainFails /\ UNCHANGED <<file, flusher>>
    BY <2>5 DEF DrainFails
  <2> QED
    BY <2>1, <2>2, <2>3, <2>4, <2>5
<1>12. CASE FlushFsync
  BY <1>12 DEF FlushFsync, FsyncOk, FsyncFails, Fault, Threads
<1>13. CASE CloseWrites \/ CloseStop
  BY <1>13 DEF CloseWrites, CloseStop
<1>14. CASE CloseStore
  BY <1>14 DEF CloseStore, NewSegmentFails, LockedFsyncFails, DrainOk, DrainFails, Fault, CloseFd, Threads
<1>15. CASE ProcessDies
  <2>1. Flags'
    BY <1>15, Zenon DEF ProcessDies, Restart, Flags
  <2> QED
    BY <1>15, <2>1 DEF ProcessDies, Restart, Forget, Threads, Flags
<1>16. CASE PowerCut
  <2>1. Flags'
    BY <1>16, Zenon DEF PowerCut, Restart, Flags
  <2> QED
    BY <1>16, <2>1 DEF PowerCut, Restart, Forget, Threads, Flags
<1>17. CASE UNCHANGED vars
  BY <1>17 DEF vars
<1> QED
  BY <1>1, <1>2, <1>3, <1>4, <1>5, <1>6, <1>7, <1>8, <1>9, <1>10, <1>11, <1>12, <1>13,
     <1>14, <1>15, <1>16, <1>17 DEF Next

-----------------------------------------------------------------------------
LEMMA IInvStep == IInv /\ [Next]_vars => IInv'
<1> SUFFICES ASSUME IInv, [Next]_vars PROVE IInv'
  OBVIOUS
<1>0. TypeOK /\ TypeOK'
  BY TypeStep DEF IInv
<1> DEFINE Rest == AckedDurable /\ InLog /\ SyncerInv /\ WriterInv /\ ClosedInv /\ Classes
<1> SUFFICES Rest'
  BY <1>0 DEF IInv
<1> USE <1>0, ClassesDisjoint 
       DEF IInv, TypeOK, store, threads, Writes, Threads, Answered, AckedDurable, InLog, SyncerInv,
           WriterInv, ClosedInv, Classes, Covered, Batch, BulkInFlight
<1>1. ASSUME NEW w \in Writes, Submit(w) PROVE Rest'
  BY <1>1 DEF Submit
<1>2. ASSUME NEW w \in Writes, WriterPut(w) PROVE Rest'
  BY <1>2 DEF WriterPut, Answer
<1>3. ASSUME NEW w \in Writes, Durable(w) PROVE Rest'
  BY <1>3 DEF Durable
<1>4. CASE WriterDrain
  BY <1>4 DEF WriterDrain, Capture, DrainOk, DrainFails, Fault, CloseFd, BulkAnswer
<1>5. CASE WriterFsync
  BY <1>5 DEF WriterFsync, FsyncOk, FsyncFails, Fault, BulkAnswer
<1>6. CASE SyncerTake
  BY <1>6 DEF SyncerTake
<1>7. CASE SyncerQuit \/ SyncerDies
  BY <1>7 DEF SyncerQuit, SyncerDies
<1>8. CASE SyncerDrain
  BY <1>8 DEF SyncerDrain, Capture, DrainOk, DrainFails, Fault, CloseFd
<1>9. CASE SyncerFsync
  BY <1>9 DEF SyncerFsync, FsyncOk, FsyncFails, Fault
<1>10. CASE SyncerAnswer
  BY <1>10 DEF SyncerAnswer
<1>11. CASE FlushLocked
  <2> USE <1>11 DEF FlushLocked, DrainOk, Fault, CloseFd
  <2>1. CASE FlushNotFull
    BY <2>1 DEF FlushNotFull
  <2>2. CASE FlushRotates
    BY <2>2 DEF FlushRotates, Rotate
  <2>3. CASE NewSegmentFails /\ UNCHANGED flusher
    BY <2>3 DEF NewSegmentFails
  <2>4. CASE LockedFsyncFails /\ UNCHANGED flusher
    BY <2>4 DEF LockedFsyncFails
  <2>5. CASE DrainFails /\ UNCHANGED <<file, flusher>>
    BY <2>5 DEF DrainFails
  <2> QED
    BY <2>1, <2>2, <2>3, <2>4, <2>5
<1>12. CASE FlushFsync
  BY <1>12 DEF FlushFsync, FsyncOk, FsyncFails, Fault
<1>13. CASE CloseWrites \/ CloseStop
  BY <1>13 DEF CloseWrites, CloseStop
<1>14. CASE CloseStore
  BY <1>14 DEF CloseStore, NewSegmentFails, LockedFsyncFails, DrainOk, DrainFails, Fault, CloseFd
<1>15. CASE ProcessDies
  BY <1>15 DEF ProcessDies, Restart, Forget
<1>16. CASE PowerCut
  BY <1>16 DEF PowerCut, Restart, Forget
<1>17. CASE UNCHANGED vars
  BY <1>17 DEF vars
<1> QED
  BY <1>1, <1>2, <1>3, <1>4, <1>5, <1>6, <1>7, <1>8, <1>9, <1>10, <1>11, <1>12, <1>13,
     <1>14, <1>15, <1>16, <1>17 DEF Next

-----------------------------------------------------------------------------
(* The log's lengths are ordered and every variable keeps its type.        *)
THEOREM TypeCorrect == Spec => []TypeOK
<1>1. Init => TypeOK
  BY InitIInv DEF IInv
<1> QED
  BY <1>1, TypeStep, PTL DEF Spec

(* A write answered "saved" is durable, in every reachable state.          *)
THEOREM AckedWritesAreDurable == Spec => []AckedDurable
<1>1. IInv => AckedDurable
  BY DEF IInv
<1> QED
  BY <1>1, InitIInv, IInvStep, PTL DEF Spec

=============================================================================
