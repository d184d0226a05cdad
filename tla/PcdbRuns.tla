------------------------------ MODULE PcdbRuns -------------------------------
(***************************************************************************)
(* disk.Leveled, the run set behind every index of the store: postings     *)
(* collect in a RAM delta, a flush makes the delta a RAM run, neighbouring *)
(* RAM runs merge, large ones are written to disk, disk runs merge in the  *)
(* background.  Merging and writing happen OFF the store lock: a thread    *)
(* picks its runs under the lock, works, and swaps the result in only if   *)
(* the runs are still where they were -- while other flushes, the          *)
(* background merge and checkpoints rearrange the same list.               *)
(*                                                                         *)
(* A posting is its number in order of arrival.  A run is a record         *)
(* [name, post]; name = 0 for a run in RAM.  Postings are in one run at a  *)
(* time, so the record stands for the object the code compares with `is`.  *)
(***************************************************************************)
EXTENDS Integers, Sequences, FiniteSetsExt, Functions

CONSTANTS
    Flushers,      \* threads that call Store.flush
    RATIO,         \* merge while the newer run is >= 1/RATIO of the older
    SealAt,        \* seal_at, in postings
    MAX_DISK_RUNS,
    MaxPost,       \* bound: postings
    MaxDead,       \* bound: postings whose event has died
    MaxName,       \* bound: run names
    MaxFaults,     \* bound: failed writes of a run file
    MaxCrashes     \* bound: restarts

ASSUME RunsAssumption ==
    /\ "merger" \notin Flushers
    /\ RATIO \in Nat \ {0} /\ SealAt \in Nat \ {0} /\ MAX_DISK_RUNS \in Nat
    /\ MaxPost \in Nat /\ MaxDead \in Nat /\ MaxName \in Nat /\ MaxFaults \in Nat /\ MaxCrashes \in Nat

VARIABLES
    n,          \* postings added
    dead,       \* postings of dead events
    delta, runs,
    runSeq,     \* the store's run counter
    pending,    \* names a thread is writing
    files,      \* files[name]: the run files on disk
    manifest,   \* the last checkpoint: run names, postings covered, deaths, run_seq
    th,         \* what each thread is doing
    faults, crashes

list == <<delta, runs>>
vars == <<n, dead, list, runSeq, pending, files, manifest, th, faults, crashes>>

Threads == Flushers \cup {"merger"}
Run(name, post) == [name |-> name, post |-> post]
Idle == [pc |-> "idle"]
InRam(r) == r.name = 0
Size(r) == Len(r.post)
NoManifest == [names |-> <<>>, n |-> 0, dead |-> {}, runSeq |-> 0]

(* Types; and every name in use was given by the counter.                  *)
TypeOK ==
    /\ n \in 0 .. MaxPost /\ dead \subseteq 1 .. n
    /\ delta \in Seq(1 .. n)
    /\ \A k \in DOMAIN runs : runs[k].name \in 0 .. runSeq /\ runs[k].post \in Seq(1 .. n)
    /\ pending \subseteq 1 .. runSeq
    /\ DOMAIN files \subseteq Nat
    /\ Range(manifest.names) \subseteq 1 .. manifest.runSeq
    /\ \A t \in Threads : th[t].pc \in {"idle", "cascade", "merge", "seal", "disk"}

Init ==
    /\ n = 0 /\ dead = {} /\ delta = <<>> /\ runs = <<>>
    /\ runSeq = 0 /\ pending = {} /\ files = <<>> /\ manifest = NoManifest
    /\ th = [t \in Threads |-> Idle]
    /\ faults = 0 /\ crashes = 0

-----------------------------------------------------------------------------
(* Pieces of Leveled.                                                      *)

(* The postings of sequence s that are not in D, in their order.           *)
Filtered(s, D) ==
    LET some[k \in 0 .. Len(s)] ==
          IF k = 0 THEN <<>>
          ELSE IF s[k] \in D THEN some[k - 1] ELSE Append(some[k - 1], s[k])
    IN  some[Len(s)]

(* _merge: A's postings, then B's, without those of the events in D.       *)
Merged(a, b, D) == Filtered(a.post \o b.post, D)

(* take_delta.                                                             *)
Taken == IF delta = <<>> THEN runs ELSE Append(runs, Run(0, delta))

(* The two newest runs are in RAM; and the newer is not much smaller.      *)
RamPair(rs) == Len(rs) > 1 /\ InRam(rs[Len(rs)]) /\ InRam(rs[Len(rs) - 1])
CascadeDue(rs) == RamPair(rs) /\ Size(rs[Len(rs)]) * RATIO >= Size(rs[Len(rs) - 1])

SealDue(rs) == rs # <<>> /\ InRam(rs[Len(rs)]) /\ Size(rs[Len(rs)]) >= SealAt

(* The two newest runs merged, under the lock.                             *)
TopMerged(rs) ==
    LET m == Len(rs) IN Append(SubSeq(rs, 1, m - 2), Run(0, Merged(rs[m - 1], rs[m], dead)))

(* The two loops that merge under the lock: the cascade of `merge`, and    *)
(* that of seal_all, which goes on until one RAM run is left.              *)
Collapsed(rs, all) ==
    LET step[k \in 0 .. Len(rs)] ==
          IF k = 0 THEN rs
          ELSE IF CascadeDue(step[k - 1]) \/ (all /\ RamPair(step[k - 1]))
          THEN TopMerged(step[k - 1]) ELSE step[k - 1]
    IN  step[Len(rs)]
Cascaded(rs) == Collapsed(rs, FALSE)

(* The place where run a is directly followed by run b, or 0.              *)
PlaceOf(a, b) ==
    LET at == {k \in 1 .. Len(runs) - 1 : runs[k] = a /\ runs[k + 1] = b}
    IN  IF at = {} THEN 0 ELSE Min(at)

Replaced(k, new) == SubSeq(runs, 1, k - 1) \o new \o SubSeq(runs, k + 2, Len(runs))

(* The filter reads the dead column piece by piece while others kill: what *)
(* was dead when the merge began is dropped, what died since may be.       *)
Filters(t) == {D \in SUBSET dead : th[t].dead \subseteq D}

(* What a reader walks: the runs, oldest first, then the delta.            *)
Lists == Append([k \in DOMAIN runs |-> runs[k].post], delta)

(* A new run file, under the next name.                                    *)
Wrote(name, post) == [x \in DOMAIN files \cup {name} |-> IF x = name THEN post ELSE files[x]]

Fault == faults < MaxFaults /\ faults' = faults + 1

-----------------------------------------------------------------------------
(* add, and an event's death.                                              *)
Add ==
    /\ n < MaxPost
    /\ n' = n + 1 /\ delta' = Append(delta, n + 1)
    /\ UNCHANGED <<dead, runs, runSeq, pending, files, manifest, th, faults, crashes>>

Die(p) ==
    /\ p \notin dead /\ Cardinality(dead) < MaxDead
    /\ dead' = dead \cup {p}
    /\ UNCHANGED <<n, list, runSeq, pending, files, manifest, th, faults, crashes>>

(* flush: the delta becomes a run; compact_ram follows, off the lock.      *)
Flush(t) ==
    /\ th[t] = Idle /\ delta # <<>>
    /\ runs' = Taken /\ delta' = <<>>
    /\ th' = [th EXCEPT ![t] = [pc |-> "cascade"]]
    /\ UNCHANGED <<n, dead, runSeq, pending, files, manifest, faults, crashes>>

(* compact_ram picks the two newest runs ...                               *)
RamPick(t) ==
    /\ th[t].pc = "cascade" /\ CascadeDue(runs)
    /\ th' = [th EXCEPT ![t] = [pc |-> "merge", dead |-> dead,
                                a |-> runs[Len(runs) - 1], b |-> runs[Len(runs)]]]
    /\ UNCHANGED <<n, dead, list, runSeq, pending, files, manifest, faults, crashes>>

(* Mutation: the result replaces the newest runs, whichever they are.      *)
RamSwapBlind(t) ==
    /\ th[t].pc = "merge" /\ Len(runs) > 1
    /\ \E D \in Filters(t) :
          runs' = Replaced(Len(runs) - 1, <<Run(0, Merged(th[t].a, th[t].b, D))>>)
    /\ th' = [th EXCEPT ![t] = [pc |-> "cascade"]]
    /\ UNCHANGED <<n, dead, delta, runSeq, pending, files, manifest, faults, crashes>>

(* ... and swaps the merged one in if they are still side by side; if not, *)
(* it returns.                                                             *)
RamSwap(t) ==
    /\ th[t].pc = "merge"
    /\ LET k == PlaceOf(th[t].a, th[t].b) IN
       IF k = 0 THEN runs' = runs /\ th' = [th EXCEPT ![t] = Idle]
       ELSE /\ \E D \in Filters(t) : runs' = Replaced(k, <<Run(0, Merged(th[t].a, th[t].b, D))>>)
            /\ th' = [th EXCEPT ![t] = [pc |-> "cascade"]]
    /\ UNCHANGED <<n, dead, delta, runSeq, pending, files, manifest, faults, crashes>>

RamDone(t) ==
    /\ th[t].pc = "cascade" /\ ~CascadeDue(runs) /\ ~SealDue(runs)
    /\ th' = [th EXCEPT ![t] = Idle]
    /\ UNCHANGED <<n, dead, list, runSeq, pending, files, manifest, faults, crashes>>

(* The newest run is large: it is written out under a new name.            *)
SealPick(t) ==
    /\ th[t].pc = "cascade" /\ ~CascadeDue(runs) /\ SealDue(runs) /\ runSeq < MaxName
    /\ runSeq' = runSeq + 1 /\ pending' = pending \cup {runSeq + 1}
    /\ files' = Wrote(runSeq + 1, runs[Len(runs)].post)
    /\ th' = [th EXCEPT ![t] = [pc |-> "seal", name |-> runSeq + 1, a |-> runs[Len(runs)]]]
    /\ UNCHANGED <<n, dead, list, manifest, faults, crashes>>

SealSwap(t) ==
    /\ th[t].pc = "seal"
    /\ pending' = pending \ {th[t].name}
    /\ runs' = [k \in DOMAIN runs |->
                  IF runs[k] = th[t].a /\ \A j \in 1 .. k - 1 : runs[j] # runs[k]
                  THEN Run(th[t].name, th[t].a.post) ELSE runs[k]]
    /\ th' = [th EXCEPT ![t] = Idle]
    /\ UNCHANGED <<n, dead, delta, runSeq, files, manifest, faults, crashes>>

(* The write raises: RunSink.abort removes what was written.               *)
SealFails(t) ==
    /\ th[t].pc = "seal" /\ Fault
    /\ pending' = pending \ {th[t].name}
    /\ files' = Restrict(files, DOMAIN files \ {th[t].name})
    /\ th' = [th EXCEPT ![t] = Idle]
    /\ UNCHANGED <<n, dead, list, runSeq, manifest, crashes>>

-----------------------------------------------------------------------------
(* The background merge of disk runs.                                      *)

(* pick_disk_merge: the newest neighbouring pair within RATIO, or, with    *)
(* too many disk runs, the first of the smallest pairs; 0 for None.        *)
DiskPick ==
    LET pairs == {k \in 1 .. Len(runs) - 1 : ~InRam(runs[k]) /\ ~InRam(runs[k + 1])}
        sum(k) == Size(runs[k]) + Size(runs[k + 1])
        close == {k \in pairs : Size(runs[k + 1]) * RATIO >= Size(runs[k])}
        least == {k \in pairs : \A j \in pairs : sum(k) <= sum(j)}
    IN  IF close # {} THEN Max(close)
        ELSE IF Cardinality({k \in DOMAIN runs : ~InRam(runs[k])}) > MAX_DISK_RUNS /\ pairs # {}
             THEN Min(least)
        ELSE 0

DiskMergeStart ==
    /\ th["merger"] = Idle /\ DiskPick # 0 /\ runSeq < MaxName
    /\ runSeq' = runSeq + 1 /\ pending' = pending \cup {runSeq + 1}
    /\ th' = [th EXCEPT !["merger"] = [pc |-> "disk", name |-> runSeq + 1, dead |-> dead,
                                       a |-> runs[DiskPick], b |-> runs[DiskPick + 1]]]
    /\ files' = Wrote(runSeq + 1, <<>>)
    /\ UNCHANGED <<n, dead, list, manifest, faults, crashes>>

(* The streamed result is swapped in; its inputs become garbage.  (A file  *)
(* a sweep took away while it was written stays away.)                     *)
DiskMergeSwap ==
    LET t == th["merger"] k == PlaceOf(t.a, t.b) IN
    /\ t.pc = "disk"
    /\ pending' = pending \ {t.name}
    /\ \E D \in Filters("merger") :
          LET post == Merged(t.a, t.b, D) IN
          /\ files' = IF t.name \in DOMAIN files THEN Wrote(t.name, post) ELSE files
          /\ runs' = IF k = 0 THEN runs
                     ELSE Replaced(k, IF post = <<>> THEN <<>> ELSE <<Run(t.name, post)>>)
    /\ th' = [th EXCEPT !["merger"] = Idle]
    /\ UNCHANGED <<n, dead, delta, runSeq, manifest, faults, crashes>>

DiskMergeFails ==
    /\ th["merger"].pc = "disk" /\ Fault
    /\ pending' = pending \ {th["merger"].name}
    /\ files' = Restrict(files, DOMAIN files \ {th["merger"].name})
    /\ th' = [th EXCEPT !["merger"] = Idle]
    /\ UNCHANGED <<n, dead, list, runSeq, manifest, crashes>>

-----------------------------------------------------------------------------
(* Checkpoints: save holds the lock throughout, so a step of this module   *)
(* is the whole of it; what a crash inside it leaves beside the old        *)
(* manifest are files nobody names.                                        *)

(* The newest run sealed, if it is due, under the name after s.            *)
Sealed(rs, s) ==
    IF SealDue(rs) THEN [rs EXCEPT ![Len(rs)].name = s + 1] ELSE rs

(* What flush and then `merge` leave of the list.                          *)
MergedList(rs) == Sealed(Cascaded(rs), runSeq)

RamOnTop(rs) == \A j, k \in DOMAIN rs : j < k /\ InRam(rs[j]) => InRam(rs[k])

(* seal_all: the RAM runs merged into one, sealed if something is left.    *)
AllSealed(rs) ==
    LET l == Collapsed(rs, TRUE)
        m == Len(l)
        next == runSeq + (IF \E k \in DOMAIN rs : rs[k].name = runSeq + 1 THEN 2 ELSE 1)
    IN  IF l = <<>> \/ ~InRam(l[m]) THEN l
        ELSE IF l[m].post = <<>> THEN SubSeq(l, 1, m - 1)
        ELSE [l EXCEPT ![m].name = next]

Names(rs) == [k \in DOMAIN rs |-> rs[k].name]
LastName(rs) == Max({runSeq} \cup Range(Names(rs)))

(* The run files once those of list rs with a new name are written.        *)
NewFiles(rs) ==
    LET new == {k \in DOMAIN rs : rs[k].name > runSeq} IN
    [x \in DOMAIN files \cup {rs[k].name : k \in new} |->
        IF x > runSeq /\ \E k \in new : rs[k].name = x
        THEN rs[CHOOSE k \in new : rs[k].name = x].post ELSE files[x]]

(* Mutation: what a thread is writing is swept.                            *)
KeptNamed(rs) == Range(Names(rs))

(* _sweep_runs: what neither the manifest, nor the list, nor a thread      *)
(* names goes.                                                             *)
Kept(rs) == Range(Names(rs)) \cup pending

(* Mutation: the counter is recorded as it was before the runs were sealed.*)
ManifestEarly(rs) == [names |-> Names(rs), n |-> n, dead |-> dead, runSeq |-> runSeq]

Manifest(rs) == [names |-> Names(rs), n |-> n, dead |-> dead, runSeq |-> LastName(rs)]

Save ==
    LET l1 == MergedList(Taken)
        l2 == AllSealed(l1)
    IN
    /\ RamOnTop(l1) /\ runSeq < MaxName
    /\ runs' = l2 /\ delta' = <<>> /\ runSeq' = LastName(l2)
    /\ manifest' = Manifest(l2)
    /\ files' = Restrict(NewFiles(l2), DOMAIN NewFiles(l2) \cap Kept(l2))
    /\ UNCHANGED <<n, dead, pending, th, faults, crashes>>

(* seal_all's assertion fails: no checkpoint is taken.                     *)
SaveAsserts ==
    LET l1 == MergedList(Taken) IN
    /\ ~RamOnTop(l1) /\ runSeq < MaxName
    /\ runs' = l1 /\ delta' = <<>> /\ runSeq' = LastName(l1)
    /\ files' = NewFiles(l1)
    /\ UNCHANGED <<n, dead, pending, manifest, th, faults, crashes>>

(* A write fails: the flush's seal, seal_all's, or one after both; the     *)
(* name a failed seal took is gone.                                        *)
SaveFails ==
    LET l0 == Cascaded(Taken)
        l1 == MergedList(Taken)
        l2 == AllSealed(l1)
        failed(l, seal) == runs' = l /\ runSeq' = LastName(l) + (IF seal THEN 1 ELSE 0)
    IN
    /\ Fault /\ runSeq < MaxName
    /\ \/ SealDue(l0) /\ failed(l0, TRUE)
       \/ RamOnTop(l1) /\ l2 # l1 /\ failed(l1, TRUE)
       \/ RamOnTop(l1) /\ failed(l2, FALSE)
    /\ delta' = <<>>
    /\ files' = NewFiles(runs')
    /\ UNCHANGED <<n, dead, pending, manifest, th, crashes>>

-----------------------------------------------------------------------------
(* A crash.  The log gives back the postings after the checkpoint, as far  *)
(* as they were durable, and the deaths likewise; _merge_all makes them a  *)
(* run.                                                                    *)
Replay(rs, from, seq) ==
    \E m \in manifest.n .. n :
        \E D \in SUBSET (dead \cap 1 .. m) :
            LET tail == [k \in 1 .. m - from |-> from + k]
                l == IF tail = <<>> THEN rs ELSE Append(rs, Run(0, tail))
            IN
            /\ manifest.dead \subseteq D
            /\ n' = m /\ dead' = D
            /\ delta' = <<>>
            /\ runs' = Sealed(l, seq)
            /\ runSeq' = seq + (IF SealDue(l) THEN 1 ELSE 0)
            /\ files' = IF SealDue(l) THEN Wrote(seq + 1, l[Len(l)].post) ELSE files

Restarted ==
    /\ crashes < MaxCrashes /\ crashes' = crashes + 1
    /\ pending' = {} /\ th' = [t \in Threads |-> Idle]
    /\ UNCHANGED <<manifest, faults>>

Reopen ==
    /\ Restarted
    /\ Replay([k \in DOMAIN manifest.names |-> Run(manifest.names[k], files[manifest.names[k]])],
              manifest.n, manifest.runSeq)

(* The checkpoint is refused: the whole log, and names no file has.        *)
ReopenRefused == Restarted /\ Replay(<<>>, 0, Max({0} \cup DOMAIN files))

Next ==
    \/ Add \/ \E p \in 1 .. n : Die(p)
    \/ \E t \in Flushers :
          Flush(t) \/ RamPick(t) \/ RamSwap(t) \/ RamDone(t) \/ SealPick(t) \/ SealSwap(t) \/ SealFails(t)
    \/ DiskMergeStart \/ DiskMergeSwap \/ DiskMergeFails
    \/ Save \/ SaveAsserts \/ SaveFails
    \/ Reopen \/ ReopenRefused

Spec == Init /\ [][Next]_vars

-----------------------------------------------------------------------------
(* A reader that walks the runs and then the delta, as `get` does, meets   *)
(* every posting of a live event, once, in order of arrival -- whichever   *)
(* threads merged, sealed or checkpointed what, and after a restart.       *)
PostingsInOrder ==
    /\ \A p \in (1 .. n) \ dead : \E k \in DOMAIN Lists : p \in Range(Lists[k])
    /\ \A j, k \in DOMAIN Lists : \A x \in DOMAIN Lists[j], y \in DOMAIN Lists[k] :
          j < k \/ (j = k /\ x < y) => Lists[j][x] < Lists[k][y]

(* The last checkpoint can be loaded at any moment: its run files are      *)
(* there, untouched by sweeps, merges and reused names, and hold every     *)
(* posting it covers of an event that was live then.                       *)
CheckpointLoadable ==
    /\ Range(manifest.names) \subseteq DOMAIN files
    /\ \A p \in (1 .. manifest.n) \ manifest.dead :
          \E k \in DOMAIN manifest.names : p \in Range(files[manifest.names[k]])

=============================================================================
