---------------------------- MODULE PcdbLogProofs ----------------------------
(***************************************************************************)
(* Proofs about PcdbLog, for any events, segment size and history of       *)
(* writes, compactions, checkpoints, crashes and restarts.                 *)
(*                                                                         *)
(* LogInv says that the three places a record is known from agree: the     *)
(* table in memory, the frames in the segment files, and the checkpoint.   *)
(* It is stated of values (files F, active segment act, n durable frames   *)
(* of it, table rs, checkpoint c), not of the variables, since a restart   *)
(* and a power cut are steps from one such combination to another. After   *)
(* the definitions come: what a replay makes of a log; what a write does   *)
(* to table and log; the log growing; a checkpoint; the log shrinking; the *)
(* restarts; and one lemma per action.                                     *)
(***************************************************************************)
EXTENDS PcdbLog, NatOrder, FiniteSetTheorems, SequenceTheorems, TLAPS

(* Position <<h, j>> of the log is not after <<g, k>>.                     *)
Before(h, j, g, k) == h < g \/ (h = g /\ j <= k)

(* Files F have an `op` frame of event i at <<h, j>>.                      *)
Has(F, op, i, h, j) == h \in DOMAIN F /\ j \in DOMAIN F[h] /\ F[h][j].op = op /\ F[h][j].id = i

(* After <<h, j>> there is no death of i in F; or none up to <<g, k>>.     *)
Clear(F, i, h, j) ==
    \A x \in DOMAIN F : \A y \in DOMAIN F[x] : Has(F, "dead", i, x, y) => Before(x, y, h, j)
Quiet(F, i, h, j, g, k) ==
    \A x \in DOMAIN F : \A y \in DOMAIN F[x] :
        Has(F, "dead", i, x, y) /\ Before(x, y, g, k) => Before(x, y, h, j)

(* A table of records in segments S; a live one has bytes, and is the only *)
(* live one of its id.                                                     *)
Table(rs, S) ==
    /\ rs \in Seq(Rows)
    /\ \A s \in DOMAIN rs : rs[s].seg \in S \cup {0}
    /\ \A s \in LiveRows(rs) :
          rs[s].seg # 0 /\ \A t \in LiveRows(rs) : rs[s].id = rs[t].id => s = t

(* A live record is in the segment the table says, and not killed there.   *)
Logged(rs, F) ==
    \A s \in LiveRows(rs) : \E j \in DOMAIN F[rs[s].seg] :
        Has(F, "put", rs[s].id, rs[s].seg, j) /\ Clear(F, rs[s].id, rs[s].seg, j)
LoggedTo(rs, F, g, k) ==
    \A s \in LiveRows(rs) : \E j \in DOMAIN F[rs[s].seg] :
        /\ Has(F, "put", rs[s].id, rs[s].seg, j)
        /\ Before(rs[s].seg, j, g, k) /\ Quiet(F, rs[s].id, rs[s].seg, j, g, k)

(* A frame of i at <<h, j>> that no marker kills, and that a power cut     *)
(* which keeps n frames of the active segment leaves.                      *)
Survives(F, act, n, i, h, j) == Has(F, "put", i, h, j) /\ Clear(F, i, h, j) /\ (h = act => j <= n)

(* There is one, outside the segment about to be removed; and one that     *)
(* counts from checkpoint c, or c has the record.                          *)
Stays(F, act, n, gone, i) ==
    \E h \in DOMAIN F : \E j \in DOMAIN F[h] : h # gone /\ Survives(F, act, n, i, h, j)
Resumes(F, act, n, c, i) ==
    \/ c = NoCkpt
    \/ i \in LiveIds(c.rows) /\ Clear(F, i, c.at, c.len)
    \/ \E h \in DOMAIN F : \E j \in DOMAIN F[h] : ~Before(h, j, c.at, c.len) /\ Survives(F, act, n, i, h, j)

(* The segment files, the last of them active.                             *)
LogFiles(F, act) ==
    act \in DOMAIN F /\ DOMAIN F \subseteq 1 .. act /\ act \in Nat /\ \A sid \in DOMAIN F : F[sid] \in Seq(Frames)

(* A checkpoint describes a place in the files that is durable; what it    *)
(* lists is there, and of what it has deleted at most segment gone.        *)
Fits(c, F, act, n, gone) ==
    /\ c.at \in DOMAIN F /\ c.len \in 0 .. Len(F[c.at]) /\ (c.at = act => c.len <= n)
    /\ Table(c.rows, c.listed) /\ LoggedTo(c.rows, F, c.at, c.len)
    /\ c.listed \cap c.deleted = {} /\ c.deleted \subseteq 1 .. act - 1
    /\ c.deleted \cap DOMAIN F \subseteq {gone}

(* The files, the table and the checkpoint agree: the table's live records *)
(* would be live after a restart, whichever way it goes; and what was      *)
(* answered after any power cut, too.                                      *)
Agree(F, act, n, rs, c, gone, ak) ==
    /\ LogFiles(F, act) /\ n \in 0 .. Len(F[act])
    /\ c # NoCkpt => Fits(c, F, act, n, gone)
    /\ Table(rs, DOMAIN F) /\ Logged(rs, F)
    /\ \A i \in LiveIds(rs) : Resumes(F, act, Len(F[act]), c, i)
    /\ \A i \in ak : ~IsVersioned(i) =>
          i \in LiveIds(rs) /\ Stays(F, act, n, gone, i) /\ Resumes(F, act, n, c, i)

(* The segment a compaction has finished with and not yet removed, 0 if    *)
(* none.                                                                   *)
Gone == IF comp.pc = "remove" THEN comp.sid ELSE 0

(* A compaction works on a sealed segment. While it copies, what is live   *)
(* in the segment is still to do; when only the file is left to remove, no *)
(* record is in it and the checkpoint calls it deleted.                    *)
CompOK ==
    /\ comp.pc \in {"idle", "copy", "remove"}
    /\ comp.pc # "idle" => comp.sid \in DOMAIN segs \ {active}
    /\ comp.pc = "copy" =>
          comp.todo \subseteq DOMAIN rows /\ \A s \in LiveRows(rows) : rows[s].seg = comp.sid => s \in comp.todo
    /\ comp.pc = "remove" =>
          /\ \A s \in DOMAIN rows : rows[s].seg # comp.sid
          /\ ckpt # NoCkpt /\ ckpt.at = active /\ comp.sid \in ckpt.deleted

(* The inductive invariant.                                                *)
LogInv ==
    /\ Agree(segs, active, synced, rows, ckpt, Gone, acked)
    /\ CompOK
    /\ acked \subseteq Ids /\ purged \subseteq Ids

-----------------------------------------------------------------------------
(* Pieces: picked frames, the record found for an id.                      *)

(* What is picked from a sequence are its elements at the given places.    *)
LEMMA PickedIn ==
    ASSUME NEW X, NEW q \in Seq(X), NEW K
    PROVE  Picked(q, K) \in Seq({q[k] : k \in K \cap DOMAIN q})
<1> DEFINE N == Len(q)
           Y == {q[k] : k \in K \cap DOMAIN q}
           S == Seq(Y)
           F == [k \in 1 .. N |-> [v \in S |-> IF k \in K THEN Append(v, q[k]) ELSE v]]
           G(h) == [k \in 0 .. N |->
                      IF k = 0 THEN <<>> ELSE IF k \in K THEN Append(h[k - 1], q[k]) ELSE h[k - 1]]
<1>1. N \in Nat /\ DOMAIN q = 1 .. N
  OBVIOUS
<1>2. <<>> \in S
  OBVIOUS
<1>3. ASSUME NEW k \in 1 .. N, NEW v \in S PROVE (IF k \in K THEN Append(v, q[k]) ELSE v) \in S
  <2>1. k \in K => q[k] \in Y
    BY <1>1
  <2> HIDE DEF Y
  <2> QED BY <2>1
<1>4. Closed(F, N, S)
  <2> HIDE DEF S, N
  <2> QED BY <1>3 DEF Closed
<1>5. PICK g \in [0 .. N -> S] : Follows(g, <<>>, F, N)
  <2> HIDE DEF F, S, N
  <2> QED BY <1>1, <1>2, <1>4, Recursion
<1>6. g = G(g)
  <2> HIDE DEF S, N
  <2>1. ASSUME NEW k \in 0 .. N PROVE g[k] = G(g)[k]
    <3>1. CASE k = 0
      BY <3>1, <1>5 DEF Follows
    <3>2. CASE k # 0
      <4>1. k \in 1 .. N /\ k - 1 \in 0 .. N
        BY <3>2, <1>1
      <4>2. g[k] = F[k][g[k - 1]] /\ g[k - 1] \in S
        BY <4>1, <1>5 DEF Follows
      <4> QED BY <4>1, <4>2, <3>2
    <3> QED BY <3>1, <3>2
  <2> QED BY <2>1
<1>7. PICK f : f = G(f) /\ Picked(q, K) = f[N]
  BY <1>6 DEF Picked
<1>8. 0 .. N \subseteq {k \in 0 .. N : f[k] \in S}
  <2>1. 0 \in {k \in 0 .. N : f[k] \in S}
    BY <1>7, <1>2, <1>1
  <2>2. ASSUME NEW k \in 1 .. N, k - 1 \in {m \in 0 .. N : f[m] \in S}
        PROVE  k \in {m \in 0 .. N : f[m] \in S}
    <3>1. k \in 0 .. N /\ k # 0 /\ f[k - 1] \in S
      BY <2>2, <1>1
    <3>2. f[k] = IF k \in K THEN Append(f[k - 1], q[k]) ELSE f[k - 1]
      BY <3>1, <1>7
    <3> HIDE DEF S
    <3> QED BY <3>1, <3>2, <1>3
  <2> HIDE DEF N, S
  <2> QED BY <2>1, <2>2, <1>1, UpTo
<1>9. Picked(q, K) \in S
  <2> HIDE DEF N, S
  <2> QED BY <1>1, <1>7, <1>8
<1> QED BY <1>9

(* SetToSeq lists the elements of a finite set.                            *)
LEMMA SetToSeqIn ==
    ASSUME NEW S, IsFiniteSet(S)
    PROVE  SetToSeq(S) \in Seq(S)
<1>1. Cardinality(S) \in Nat
  BY FS_CardinalityType
<1>2. PICK f : f \in [1 .. Cardinality(S) -> S] /\ IsInjective(f)
  BY FS_CardinalityType, FS_NatBijection DEF ExistsBijection, Bijection, Injection, IsInjective
<1>3. SetToSeq(S) \in [1 .. Cardinality(S) -> S]
  BY <1>2 DEF SetToSeq
<1> QED BY <1>1, <1>3

(* The frames, by what they are.                                           *)
LEMMA FramesAre ==
    /\ \A f \in Frames :
          /\ f.op \in {"put", "dead", "tag"} /\ f.id \in Ids
          /\ f.op = "put" => f.origin \in Origins
          /\ f.op = "tag" => f.value \in Range(Author)
    /\ \A i \in Ids, o \in Origins :
          PutFrame(i, o) \in Frames /\ PutFrame(i, o).op = "put" /\ PutFrame(i, o).id = i
          /\ PutFrame(i, o).origin = o
    /\ \A i \in Ids : DeadFrame(i) \in Frames /\ DeadFrame(i).op = "dead" /\ DeadFrame(i).id = i
    /\ \A i \in Ids, v \in Range(Author) :
          TagFrame(i, v) \in Frames /\ TagFrame(i, v).op = "tag" /\ TagFrame(i, v).id = i
<1>1. ASSUME NEW f \in Frames
      PROVE /\ f.op \in {"put", "dead", "tag"} /\ f.id \in Ids
            /\ f.op = "put" => f.origin \in Origins
            /\ f.op = "tag" => f.value \in Range(Author)
  <2>1. CASE \E i \in Ids, o \in Origins : f = PutFrame(i, o)
    BY <2>1 DEF PutFrame
  <2>2. CASE \E i \in Ids : f = DeadFrame(i)
    BY <2>2 DEF DeadFrame
  <2>3. CASE \E i \in Ids, v \in Range(Author) : f = TagFrame(i, v)
    BY <2>3 DEF TagFrame
  <2> QED BY <2>1, <2>2, <2>3 DEF Frames
<1>2. \A i \in Ids, o \in Origins :
          PutFrame(i, o) \in Frames /\ PutFrame(i, o).op = "put" /\ PutFrame(i, o).id = i
          /\ PutFrame(i, o).origin = o
  BY DEF Frames, PutFrame
<1>3. \A i \in Ids : DeadFrame(i) \in Frames /\ DeadFrame(i).op = "dead" /\ DeadFrame(i).id = i
  BY DEF Frames, DeadFrame
<1>4. \A i \in Ids, v \in Range(Author) :
          TagFrame(i, v) \in Frames /\ TagFrame(i, v).op = "tag" /\ TagFrame(i, v).id = i
  BY DEF Frames, TagFrame
<1> QED BY <1>1, <1>2, <1>3, <1>4

(* _seq_of answers a record of the id that has bytes; in a table it is the *)
(* live one if there is one.                                               *)
LEMMA SeqOfIdIs ==
    ASSUME NEW rs \in Seq(Rows), NEW i
    PROVE  LET s == SeqOfId(rs, i) IN
           /\ s = 0 \/ (s \in DOMAIN rs /\ rs[s].id = i /\ rs[s].seg # 0)
           /\ \A t \in LiveRows(rs) : rs[t].id = i /\ rs[t].seg # 0 => s \in LiveRows(rs)
<1> DEFINE hits == {s \in DOMAIN rs : rs[s].id = i /\ rs[s].seg # 0}
           live == hits \cap LiveRows(rs)
<1>1. hits \subseteq 1 .. Len(rs) /\ Len(rs) \in Nat /\ DOMAIN rs = 1 .. Len(rs)
  OBVIOUS
<1>2. SeqOfId(rs, i) = IF live # {} THEN Min(live) ELSE IF hits # {} THEN Max(hits) ELSE 0
  BY DEF SeqOfId
<1>3. live # {} => Min(live) \in live
  <2>1. live \subseteq Nat
    BY <1>1
  <2> HIDE DEF live
  <2> QED BY <2>1, MinIs
<1>4. hits # {} => Max(hits) \in hits
  <2>1. hits \subseteq 0 .. Len(rs)
    BY <1>1
  <2> HIDE DEF hits
  <2> QED BY <2>1, <1>1, MaxIs
<1>5. live # {} => SeqOfId(rs, i) \in live
  BY <1>2, <1>3
<1>6. SeqOfId(rs, i) = 0 \/ SeqOfId(rs, i) \in hits
  BY <1>2, <1>3, <1>4
<1>7. ASSUME NEW t \in LiveRows(rs), rs[t].id = i, rs[t].seg # 0 PROVE t \in live
  BY <1>7 DEF LiveRows
<1> QED BY <1>5, <1>6, <1>7

(* The record _seq_of finds: an event is live exactly when that record is, *)
(* and no other live record has its id.                                    *)
LEMMA Found ==
    ASSUME NEW S, NEW rs, Table(rs, S), NEW i
    PROVE  LET s == SeqOfId(rs, i) IN
           /\ rs \in Seq(Rows)
           /\ s = 0 \/ (s \in DOMAIN rs /\ rs[s].id = i /\ rs[s].seg # 0)
           /\ i \in LiveIds(rs) <=> s # 0 /\ ~rs[s].dead
           /\ \A t \in LiveRows(rs) : rs[t].id = i => t = s
<1>1. rs \in Seq(Rows) /\ 0 \notin DOMAIN rs
  BY DEF Table
<1>2. \A t \in LiveRows(rs) : rs[t].seg # 0 /\ \A u \in LiveRows(rs) : rs[t].id = rs[u].id => t = u
  BY DEF Table
<1>3. LET s == SeqOfId(rs, i) IN
           /\ s = 0 \/ (s \in DOMAIN rs /\ rs[s].id = i /\ rs[s].seg # 0)
           /\ \A t \in LiveRows(rs) : rs[t].id = i /\ rs[t].seg # 0 => s \in LiveRows(rs)
  BY <1>1, SeqOfIdIs
<1>4. ASSUME NEW t \in LiveRows(rs), rs[t].id = i PROVE t = SeqOfId(rs, i)
  <2>1. SeqOfId(rs, i) \in LiveRows(rs)
    BY <1>2, <1>3, <1>4
  <2>2. SeqOfId(rs, i) \in DOMAIN rs
    BY <2>1 DEF LiveRows
  <2> QED BY <1>1, <1>2, <1>3, <1>4, <2>1, <2>2
<1>5. i \in LiveIds(rs) <=> \E t \in LiveRows(rs) : rs[t].id = i
  BY DEF LiveIds
<1>6. ASSUME i \in LiveIds(rs) PROVE SeqOfId(rs, i) # 0 /\ ~rs[SeqOfId(rs, i)].dead
  <2>1. PICK t \in LiveRows(rs) : rs[t].id = i
    BY <1>5, <1>6
  <2> QED BY <2>1, <1>4, <1>1 DEF LiveRows
<1>7. ASSUME SeqOfId(rs, i) # 0, ~rs[SeqOfId(rs, i)].dead PROVE i \in LiveIds(rs)
  <2>1. SeqOfId(rs, i) \in LiveRows(rs) /\ rs[SeqOfId(rs, i)].id = i
    BY <1>7, <1>3 DEF LiveRows
  <2> QED BY <2>1, <1>5
<1> QED BY <1>1, <1>3, <1>4, <1>6, <1>7

-----------------------------------------------------------------------------
(* What changes a table.                                                   *)

(* Table r has the records of rs, dead or alive.                           *)
Alike(rs, r) == DOMAIN r = DOMAIN rs /\ \A s \in DOMAIN rs : r[s].id = rs[s].id /\ r[s].seg = rs[s].seg

(* Death: the records in K leave the live ones.                            *)
LEMMA KilledIs ==
    ASSUME NEW S, NEW rs, Table(rs, S), NEW K
    PROVE  LET r == Killed(rs, K) IN
           /\ Table(r, S) /\ Alike(rs, r)
           /\ LiveRows(r) = LiveRows(rs) \ K
           /\ \A i : i \in LiveIds(r) <=> i \in LiveIds(rs) /\ ~\E s \in K \cap LiveRows(rs) : rs[s].id = i
<1> DEFINE r == Killed(rs, K)
<1>1. rs \in Seq(Rows)
  BY DEF Table
<1>2. DOMAIN r = DOMAIN rs /\ DOMAIN rs = 1 .. Len(rs) /\ Len(rs) \in Nat
  BY <1>1 DEF Killed
<1>3. ASSUME NEW s \in DOMAIN rs
      PROVE  /\ r[s] \in Rows /\ r[s].id = rs[s].id /\ r[s].seg = rs[s].seg
             /\ r[s].dead = (rs[s].dead \/ s \in K)
  <2>1. rs[s] \in Rows
    BY <1>1
  <2>2. r[s] = IF s \in K THEN [rs[s] EXCEPT !.dead = TRUE] ELSE rs[s]
    BY DEF Killed
  <2>3. CASE s \in K
    BY <2>1, <2>2, <2>3 DEF Rows
  <2>4. CASE s \notin K
    BY <2>1, <2>2, <2>4 DEF Rows
  <2> QED BY <2>3, <2>4
<1>4. r \in Seq(Rows)
  <2>1. r = [s \in 1 .. Len(rs) |-> r[s]]
    BY <1>2 DEF Killed
  <2> HIDE DEF r
  <2>2. \A s \in 1 .. Len(rs) : r[s] \in Rows
    BY <1>2, <1>3
  <2> QED BY <1>2, <2>1, <2>2, IsASeq
<1> HIDE DEF r
<1>5. Alike(rs, r)
  BY <1>2, <1>3 DEF Alike
<1>6. LiveRows(r) = LiveRows(rs) \ K
  BY <1>2, <1>3 DEF LiveRows
<1>7. Table(r, S)
  BY <1>2, <1>3, <1>4, <1>6 DEF Table, LiveRows
<1>8. ASSUME NEW i
      PROVE  i \in LiveIds(r) <=> i \in LiveIds(rs) /\ ~\E s \in K \cap LiveRows(rs) : rs[s].id = i
  <2>1. i \in LiveIds(r) <=> \E s \in LiveRows(rs) \ K : rs[s].id = i
    BY <1>6, <1>3 DEF LiveIds, LiveRows
  <2>2. i \in LiveIds(rs) <=> \E s \in LiveRows(rs) : rs[s].id = i
    BY DEF LiveIds
  <2>3. \A s, t \in LiveRows(rs) : rs[s].id = rs[t].id => s = t
    BY DEF Table
  <2> QED BY <2>1, <2>2, <2>3
<1> QED BY <1>5, <1>6, <1>7, <1>8 DEF r

(* A tag changes nothing else.                                             *)
LEMMA TaggedIs ==
    ASSUME NEW S, NEW rs, Table(rs, S), NEW K, NEW V, V \subseteq Range(Author)
    PROVE  LET r == Tagged(rs, K, V) IN
           Table(r, S) /\ Alike(rs, r) /\ LiveRows(r) = LiveRows(rs) /\ LiveIds(r) = LiveIds(rs)
<1> DEFINE r == Tagged(rs, K, V)
<1>1. rs \in Seq(Rows)
  BY DEF Table
<1>2. DOMAIN r = DOMAIN rs /\ DOMAIN rs = 1 .. Len(rs) /\ Len(rs) \in Nat
  BY <1>1 DEF Tagged
<1>3. ASSUME NEW s \in DOMAIN rs
      PROVE  r[s] \in Rows /\ r[s].id = rs[s].id /\ r[s].seg = rs[s].seg /\ r[s].dead = rs[s].dead
  <2>1. rs[s] \in Rows
    BY <1>1
  <2>2. r[s] = IF s \in K THEN [rs[s] EXCEPT !.tags = @ \cup V] ELSE rs[s]
    BY DEF Tagged
  <2>3. CASE s \in K
    BY <2>1, <2>2, <2>3 DEF Rows
  <2>4. CASE s \notin K
    BY <2>1, <2>2, <2>4 DEF Rows
  <2> QED BY <2>3, <2>4
<1>4. r \in Seq(Rows)
  <2>1. r = [s \in 1 .. Len(rs) |-> r[s]]
    BY <1>2 DEF Tagged
  <2> HIDE DEF r
  <2>2. \A s \in 1 .. Len(rs) : r[s] \in Rows
    BY <1>2, <1>3
  <2> QED BY <1>2, <2>1, <2>2, IsASeq
<1> HIDE DEF r
<1>5. Alike(rs, r)
  BY <1>2, <1>3 DEF Alike
<1>6. LiveRows(r) = LiveRows(rs)
  BY <1>2, <1>3 DEF LiveRows
<1>7. Table(r, S)
  BY <1>2, <1>3, <1>4, <1>6 DEF Table, LiveRows
<1>8. LiveIds(r) = LiveIds(rs)
  BY <1>6, <1>3 DEF LiveIds, LiveRows
<1> QED BY <1>5, <1>6, <1>7, <1>8 DEF r

(* Table r is rs and one more, live record of i in segment sid.            *)
Appended(rs, r, i, sid) ==
    /\ LiveIds(r) = LiveIds(rs) \cup {i}
    /\ LiveRows(r) = LiveRows(rs) \cup {Len(rs) + 1}
    /\ \A s \in LiveRows(rs) : r[s] = rs[s]
    /\ r[Len(rs) + 1].id = i /\ r[Len(rs) + 1].seg = sid

(* A record of an id that has no live one.                                 *)
LEMMA AppendIs ==
    ASSUME NEW S, NEW rs, Table(rs, S), NEW i \in Ids, NEW o \in Origins,
           NEW sid \in S \cap (Nat \ {0}), i \notin LiveIds(rs),
           NEW r, r = Append(rs, NewRow(i, o, sid))
    PROVE  Table(r, S) /\ Appended(rs, r, i, sid)
<1> DEFINE row == NewRow(i, o, sid)
<1>0. r = Append(rs, row)
  OBVIOUS
<1>1. rs \in Seq(Rows) /\ Len(rs) \in Nat /\ DOMAIN rs = 1 .. Len(rs)
  BY DEF Table
<1>2. row \in Rows /\ row.id = i /\ row.seg = sid /\ ~row.dead
  BY DEF NewRow, Rows
<1> HIDE DEF row
<1>3. /\ r \in Seq(Rows) /\ DOMAIN r = 1 .. Len(rs) + 1
      /\ r[Len(rs) + 1] = row /\ \A s \in 1 .. Len(rs) : r[s] = rs[s]
  BY <1>0, <1>1, <1>2
<1>4. \A s \in 1 .. Len(rs) + 1 : s \in 1 .. Len(rs) \/ s = Len(rs) + 1
  BY <1>1
<1>5. LiveRows(r) = LiveRows(rs) \cup {Len(rs) + 1}
  BY <1>1, <1>2, <1>3, <1>4 DEF LiveRows
<1>6. \A s \in LiveRows(rs) : s \in 1 .. Len(rs) /\ r[s] = rs[s] /\ rs[s].id # i
  BY <1>1, <1>3 DEF LiveRows, LiveIds
<1>7. LiveIds(r) = LiveIds(rs) \cup {i}
  BY <1>2, <1>3, <1>5, <1>6 DEF LiveIds
<1>8. Table(r, S)
  <2>1. \A s \in DOMAIN r : r[s].seg \in S \cup {0}
    BY <1>1, <1>2, <1>3, <1>4 DEF Table
  <2>2. ASSUME NEW s \in LiveRows(r)
        PROVE  r[s].seg # 0 /\ \A t \in LiveRows(r) : r[s].id = r[t].id => s = t
    BY <1>2, <1>3, <1>5, <1>6 DEF Table
  <2> QED BY <1>3, <2>1, <2>2 DEF Table
<1> QED BY <1>2, <1>3, <1>5, <1>6, <1>7, <1>8 DEF Appended

-----------------------------------------------------------------------------
(* Replay.                                                                 *)

(* Table r is rs after one more frame f of segment sid.                    *)
Replayed(rs, r, sid, f) ==
    /\ \A i : i \in LiveIds(r) <=> \/ f.op = "put" /\ i = f.id
                                   \/ i \in LiveIds(rs) /\ ~(f.op = "dead" /\ i = f.id)
    /\ \A s \in LiveRows(r) :
          \/ /\ s \in LiveRows(rs) /\ rs[s].id = r[s].id /\ rs[s].seg = r[s].seg
             /\ ~(f.op = "dead" /\ r[s].id = f.id)
          \/ f.op = "put" /\ r[s].id = f.id /\ r[s].seg = sid

(* One frame replayed into a table leaves a table, with the records        *)
(* Replayed says.                                                          *)
LEMMA FrameReplayed ==
    ASSUME NEW S, NEW rs, Table(rs, S), NEW sid \in S \cap (Nat \ {0}), NEW f \in Frames
    PROVE  Table(ReplayFrame(rs, sid, f), S) /\ Replayed(rs, ReplayFrame(rs, sid, f), sid, f)
<1> DEFINE s == SeqOfId(rs, f.id)
           r == ReplayFrame(rs, sid, f)
<1>1. /\ rs \in Seq(Rows)
      /\ s = 0 \/ (s \in DOMAIN rs /\ rs[s].id = f.id /\ rs[s].seg # 0)
      /\ f.id \in LiveIds(rs) <=> s # 0 /\ ~rs[s].dead
      /\ \A t \in LiveRows(rs) : rs[t].id = f.id => t = s
  BY Found
<1> HIDE DEF s
<1>2. f.id \in Ids /\ (f.op = "put" => f.origin \in Origins) /\ (f.op = "tag" => f.value \in Range(Author))
      /\ f.op \in {"put", "dead", "tag"}
  BY FramesAre
<1>3. CASE f.op = "put" /\ f.id \notin LiveIds(rs)
  <2>1. r = Append(rs, NewRow(f.id, f.origin, sid))
    BY <1>1, <1>3 DEF ReplayFrame, s
  <2>2. Table(r, S) /\ Appended(rs, r, f.id, sid)
    <3>1. PICK i \in Ids, o \in Origins : i = f.id /\ o = f.origin
      BY <1>2, <1>3
    <3>2. i \notin LiveIds(rs) /\ r = Append(rs, NewRow(i, o, sid))
      BY <2>1, <3>1, <1>3
    <3> HIDE DEF r
    <3>3. Table(r, S) /\ Appended(rs, r, i, sid)
      BY <3>2, AppendIs
    <3> QED BY <3>1, <3>3
  <2> HIDE DEF r
  <2> QED BY <2>2, <1>3 DEF Replayed, Appended, r
<1>4. CASE f.op = "put" /\ f.id \in LiveIds(rs)
  <2>1. r = rs
    BY <1>1, <1>4 DEF ReplayFrame, s
  <2> HIDE DEF r
  <2> QED BY <2>1, <1>4 DEF Replayed, r
<1>5. CASE f.op = "dead"
  <2>1. r = Killed(rs, {s})
    BY <1>5 DEF ReplayFrame, s
  <2>2. /\ Table(r, S) /\ Alike(rs, r) /\ LiveRows(r) = LiveRows(rs) \ {s}
        /\ \A i : i \in LiveIds(r) <=> i \in LiveIds(rs) /\ ~\E t \in {s} \cap LiveRows(rs) : rs[t].id = i
    BY <2>1, KilledIs
  <2> HIDE DEF r
  <2>3. ASSUME NEW i PROVE i \in LiveIds(r) <=> i \in LiveIds(rs) /\ i # f.id
    <3>1. f.id \in LiveIds(rs) => s \in LiveRows(rs)
      BY <1>1 DEF LiveRows
    <3>2. s \in LiveRows(rs) => rs[s].id = f.id
      BY <1>1 DEF LiveRows, Table
    <3> QED BY <2>2, <3>1, <3>2
  <2>4. \A t \in LiveRows(r) : /\ t \in LiveRows(rs) /\ rs[t].id = r[t].id /\ rs[t].seg = r[t].seg
                               /\ r[t].id # f.id
    BY <1>1, <2>2 DEF Alike, LiveRows
  <2> QED BY <1>5, <2>2, <2>3, <2>4 DEF Replayed, r
<1>6. CASE f.op = "tag"
  <2>1. r = Tagged(rs, {s}, {f.value})
    BY <1>6 DEF ReplayFrame, s
  <2>2. Table(r, S) /\ Alike(rs, r) /\ LiveRows(r) = LiveRows(rs) /\ LiveIds(r) = LiveIds(rs)
    BY <2>1, <1>2, <1>6, TaggedIs
  <2> HIDE DEF r
  <2> QED BY <2>2, <1>6 DEF Replayed, Alike, LiveRows, r
<1> QED BY <1>2, <1>3, <1>4, <1>5, <1>6

(* For the recursion: any table stays a sequence of rows.                  *)
LEMMA FrameTyped ==
    ASSUME NEW rs \in Seq(Rows), NEW sid \in Nat, NEW f \in Frames
    PROVE  ReplayFrame(rs, sid, f) \in Seq(Rows)
<1> DEFINE s == SeqOfId(rs, f.id)
           r == ReplayFrame(rs, sid, f)
<1>1. f.id \in Ids /\ (f.op = "put" => f.origin \in Origins) /\ (f.op = "tag" => f.value \in Range(Author))
      /\ f.op \in {"put", "dead", "tag"}
  BY FramesAre
<1>2. CASE f.op = "put"
  <2>1. NewRow(f.id, f.origin, sid) \in Rows
    BY <1>1, <1>2 DEF NewRow, Rows
  <2>2. r = rs \/ r = Append(rs, NewRow(f.id, f.origin, sid))
    BY <1>2 DEF ReplayFrame
  <2> QED BY <2>1, <2>2
<1>3. ASSUME NEW x, DOMAIN x = DOMAIN rs, \A t \in DOMAIN rs : x[t] \in Rows, x = [t \in DOMAIN rs |-> x[t]]
      PROVE  x \in Seq(Rows)
  <2>1. DOMAIN rs = 1 .. Len(rs) /\ Len(rs) \in Nat
    OBVIOUS
  <2> QED BY <1>3, <2>1, IsASeq
<1>4. CASE f.op = "dead"
  <2>1. r = Killed(rs, {s})
    BY <1>4 DEF ReplayFrame
  <2>2. \A t \in DOMAIN rs : rs[t] \in Rows
    OBVIOUS
  <2>3. ASSUME NEW t \in DOMAIN rs PROVE [rs[t] EXCEPT !.dead = TRUE] \in Rows
    BY <2>2 DEF Rows
  <2>4. DOMAIN r = DOMAIN rs /\ r = [t \in DOMAIN rs |-> r[t]] /\ \A t \in DOMAIN rs : r[t] \in Rows
    <3> HIDE DEF s
    <3> QED BY <2>1, <2>2, <2>3 DEF Killed
  <2> HIDE DEF r
  <2> QED BY <2>4, <1>3 DEF r
<1>5. CASE f.op = "tag"
  <2>1. r = Tagged(rs, {s}, {f.value})
    BY <1>5 DEF ReplayFrame
  <2>2. \A t \in DOMAIN rs : rs[t] \in Rows
    OBVIOUS
  <2>3. ASSUME NEW t \in DOMAIN rs PROVE [rs[t] EXCEPT !.tags = @ \cup {f.value}] \in Rows
    BY <2>2, <1>1, <1>5 DEF Rows
  <2>4. DOMAIN r = DOMAIN rs /\ r = [t \in DOMAIN rs |-> r[t]] /\ \A t \in DOMAIN rs : r[t] \in Rows
    <3> HIDE DEF s
    <3> QED BY <2>1, <2>2, <2>3 DEF Tagged
  <2> HIDE DEF r
  <2> QED BY <2>4, <1>3 DEF r
<1> QED BY <1>1, <1>2, <1>4, <1>5

(* Files of frames, numbered from 1.                                       *)
Files(F) == DOMAIN F \subseteq Nat \ {0} /\ \A x \in DOMAIN F : F[x] \in Seq(Frames)

(* Event i is live at <<g, k>>, if those in L are at <<a, b>>.             *)
Alive(F, L, a, b, g, k, i) ==
    \/ i \in L /\ Quiet(F, i, a, b, g, k)
    \/ \E h \in DOMAIN F : \E j \in DOMAIN F[h] :
          /\ Has(F, "put", i, h, j) /\ ~Before(h, j, a, b) /\ Before(h, j, g, k)
          /\ Quiet(F, i, h, j, g, k)

(* Table rs is what the frames up to <<g, k>> make of one with live ids L. *)
GoodAt(rs, F, L, a, b, g, k) ==
    /\ Table(rs, DOMAIN F) /\ LoggedTo(rs, F, g, k)
    /\ \A i : i \in LiveIds(rs) <=> Alive(F, L, a, b, g, k, i)

(* Positions with the same positions before them are the same.             *)
LEMMA Gap ==
    ASSUME NEW F, NEW rs, NEW L, NEW a, NEW b, NEW g, NEW k, NEW g2, NEW k2,
           GoodAt(rs, F, L, a, b, g, k),
           \A x \in DOMAIN F : \A y \in DOMAIN F[x] : Before(x, y, g, k) <=> Before(x, y, g2, k2)
    PROVE  GoodAt(rs, F, L, a, b, g2, k2)
<1>1. \A i, h, j : Quiet(F, i, h, j, g, k) <=> Quiet(F, i, h, j, g2, k2)
  BY DEF Quiet
<1>2. \A i : Alive(F, L, a, b, g, k, i) <=> Alive(F, L, a, b, g2, k2, i)
  BY <1>1 DEF Alive
<1>3. LoggedTo(rs, F, g2, k2)
  BY <1>1 DEF LoggedTo, GoodAt, Has
<1> QED BY <1>2, <1>3 DEF GoodAt

(* One frame more.                                                         *)
LEMMA OneMore ==
    ASSUME NEW F, Files(F), NEW rs, NEW L, NEW a \in Nat, NEW b \in Nat, NEW g \in DOMAIN F, NEW k \in Nat,
           GoodAt(rs, F, L, a, b, g, k), k + 1 \in DOMAIN F[g], ~Before(g, k + 1, a, b)
    PROVE  GoodAt(ReplayFrame(rs, g, F[g][k + 1]), F, L, a, b, g, k + 1)
<1> DEFINE f == F[g][k + 1]
           r == ReplayFrame(rs, g, f)
<1>1. g \in DOMAIN F \cap (Nat \ {0}) /\ f \in Frames
  BY DEF Files
<1>2. Table(r, DOMAIN F) /\ Replayed(rs, r, g, f)
  BY <1>1, FrameReplayed DEF GoodAt
<1> HIDE DEF r
<1>3. ASSUME NEW x \in DOMAIN F, NEW y \in DOMAIN F[x]
      PROVE  x \in Nat /\ y \in Nat /\ (Before(x, y, g, k + 1) <=> Before(x, y, g, k) \/ (x = g /\ y = k + 1))
  <2>1. x \in Nat /\ y \in Nat /\ g \in Nat
    BY DEF Files
  <2> QED BY <2>1 DEF Before
<1>4. ASSUME NEW h \in Nat, NEW j \in Nat, Before(h, j, g, k)
      PROVE  ~Before(g, k + 1, h, j) /\ Before(h, j, g, k + 1)
  BY <1>1, <1>4 DEF Before
<1>5. ~Before(g, k + 1, g, k) /\ Before(g, k + 1, g, k + 1)
  BY <1>1 DEF Before
<1>6. ASSUME NEW i, NEW h, NEW j, ~Before(g, k + 1, h, j)
      PROVE  Quiet(F, i, h, j, g, k + 1) <=> Quiet(F, i, h, j, g, k) /\ ~(f.op = "dead" /\ f.id = i)
  BY <1>3, <1>6 DEF Quiet, Has
<1>7. ASSUME NEW i PROVE Quiet(F, i, g, k + 1, g, k + 1)
  BY DEF Quiet
<1>8. LoggedTo(r, F, g, k + 1)
  <2> SUFFICES ASSUME NEW s \in LiveRows(r)
               PROVE  \E j \in DOMAIN F[r[s].seg] :
                        /\ Has(F, "put", r[s].id, r[s].seg, j)
                        /\ Before(r[s].seg, j, g, k + 1) /\ Quiet(F, r[s].id, r[s].seg, j, g, k + 1)
    BY DEF LoggedTo
  <2>1. CASE f.op = "put" /\ r[s].id = f.id /\ r[s].seg = g
    BY <2>1, <1>5, <1>7 DEF Has
  <2>2. CASE /\ s \in LiveRows(rs) /\ rs[s].id = r[s].id /\ rs[s].seg = r[s].seg
             /\ ~(f.op = "dead" /\ r[s].id = f.id)
    <3>1. PICK j \in DOMAIN F[r[s].seg] :
                /\ Has(F, "put", r[s].id, r[s].seg, j)
                /\ Before(r[s].seg, j, g, k) /\ Quiet(F, r[s].id, r[s].seg, j, g, k)
      BY <2>2 DEF GoodAt, LoggedTo
    <3>2. r[s].seg \in DOMAIN F
      BY <3>1 DEF Has
    <3>3. r[s].seg \in Nat /\ j \in Nat
      BY <3>2, <1>3
    <3>4. ~Before(g, k + 1, r[s].seg, j) /\ Before(r[s].seg, j, g, k + 1)
      BY <3>1, <3>3, <1>4
    <3>5. Quiet(F, r[s].id, r[s].seg, j, g, k + 1)
      BY <3>1, <3>4, <1>6, <2>2
    <3> QED BY <3>1, <3>4, <3>5
  <2> QED BY <1>2, <2>1, <2>2 DEF Replayed
<1>9. ASSUME NEW i PROVE i \in LiveIds(r) <=> Alive(F, L, a, b, g, k + 1, i)
  <2>1. i \in LiveIds(r) <=> \/ f.op = "put" /\ i = f.id
                             \/ Alive(F, L, a, b, g, k, i) /\ ~(f.op = "dead" /\ i = f.id)
    BY <1>2 DEF Replayed, GoodAt
  <2>2. Quiet(F, i, a, b, g, k + 1) <=> Quiet(F, i, a, b, g, k) /\ ~(f.op = "dead" /\ f.id = i)
    BY <1>6
  <2>3. ASSUME f.op = "put", i = f.id PROVE Alive(F, L, a, b, g, k + 1, i)
    BY <2>3, <1>5, <1>7 DEF Alive, Has
  <2>4. ASSUME Alive(F, L, a, b, g, k, i), ~(f.op = "dead" /\ i = f.id)
        PROVE  Alive(F, L, a, b, g, k + 1, i)
    <3>1. CASE i \in L /\ Quiet(F, i, a, b, g, k)
      BY <3>1, <2>2, <2>4 DEF Alive
    <3>2. ASSUME NEW h \in DOMAIN F, NEW j \in DOMAIN F[h],
                 Has(F, "put", i, h, j), ~Before(h, j, a, b), Before(h, j, g, k), Quiet(F, i, h, j, g, k)
          PROVE  Alive(F, L, a, b, g, k + 1, i)
      <4>1. ~Before(g, k + 1, h, j) /\ Before(h, j, g, k + 1)
        BY <3>2, <1>3, <1>4
      <4> QED BY <4>1, <3>2, <1>6, <2>4 DEF Alive
    <3> QED BY <3>1, <3>2, <2>4 DEF Alive
  <2>5. ASSUME Alive(F, L, a, b, g, k + 1, i), ~(f.op = "put" /\ i = f.id)
        PROVE  Alive(F, L, a, b, g, k, i) /\ ~(f.op = "dead" /\ i = f.id)
    <3>1. CASE i \in L /\ Quiet(F, i, a, b, g, k + 1)
      BY <3>1, <2>2 DEF Alive
    <3>2. ASSUME NEW h \in DOMAIN F, NEW j \in DOMAIN F[h],
                 Has(F, "put", i, h, j), ~Before(h, j, a, b), Before(h, j, g, k + 1), Quiet(F, i, h, j, g, k + 1)
          PROVE  Alive(F, L, a, b, g, k, i) /\ ~(f.op = "dead" /\ i = f.id)
      <4>1. ~(h = g /\ j = k + 1)
        BY <3>2, <2>5 DEF Has
      <4>2. Before(h, j, g, k)
        BY <4>1, <3>2, <1>3
      <4>3. ~Before(g, k + 1, h, j)
        BY <4>2, <1>3, <1>4
      <4> QED BY <4>2, <4>3, <3>2, <1>6 DEF Alive
    <3> QED BY <3>1, <3>2, <2>5 DEF Alive
  <2> QED BY <2>1, <2>3, <2>4, <2>5
<1> QED BY <1>2, <1>8, <1>9 DEF GoodAt, r

(* The recursion of ReplaySegment has the tables f.                        *)
Steps(f, rs, sid, frames) ==
    /\ f[0] = rs /\ ReplaySegment(rs, sid, frames) = f[Len(frames)]
    /\ \A k \in 0 .. Len(frames) : f[k] \in Seq(Rows)
    /\ \A k \in 1 .. Len(frames) : f[k] = ReplayFrame(f[k - 1], sid, frames[k])

(* The recursion by which ReplaySegment is computed exists, and all its    *)
(* tables are sequences of rows.                                           *)
LEMMA SegmentSteps ==
    ASSUME NEW rs \in Seq(Rows), NEW sid \in Nat, NEW frames \in Seq(Frames)
    PROVE  \E f : Steps(f, rs, sid, frames)
<1> DEFINE N == Len(frames)
           S == Seq(Rows)
           F == [k \in 1 .. N |-> [v \in S |-> ReplayFrame(v, sid, frames[k])]]
           G(h) == [k \in 0 .. N |-> IF k = 0 THEN rs ELSE ReplayFrame(h[k - 1], sid, frames[k])]
<1>1. N \in Nat /\ \A k \in 1 .. N : frames[k] \in Frames
  OBVIOUS
<1>2. rs \in S
  OBVIOUS
<1>3. ASSUME NEW k \in 1 .. N, NEW v \in S PROVE ReplayFrame(v, sid, frames[k]) \in S
  BY <1>1, FrameTyped
<1> HIDE DEF N, S
<1>4. Closed(F, N, S)
  BY <1>3 DEF Closed
<1>5. PICK g \in [0 .. N -> S] : Follows(g, rs, F, N)
  <2> HIDE DEF F
  <2> QED BY <1>1, <1>2, <1>4, Recursion
<1>6. g = G(g)
  <2>1. ASSUME NEW k \in 0 .. N PROVE g[k] = G(g)[k]
    <3>1. CASE k = 0
      BY <3>1, <1>5 DEF Follows
    <3>2. CASE k # 0
      <4>1. k \in 1 .. N /\ k - 1 \in 0 .. N
        BY <3>2, <1>1
      <4>2. g[k] = F[k][g[k - 1]] /\ g[k - 1] \in S
        BY <4>1, <1>5 DEF Follows
      <4> QED BY <4>1, <4>2, <3>2
    <3> QED BY <3>1, <3>2
  <2> QED BY <2>1
<1>7. PICK f : f = G(f) /\ ReplaySegment(rs, sid, frames) = f[N]
  BY <1>6 DEF ReplaySegment, N
<1>8. f[0] = rs /\ \A k \in 1 .. N : k - 1 \in 0 .. N /\ f[k] = ReplayFrame(f[k - 1], sid, frames[k])
  <2>1. f[0] = rs
    BY <1>7, <1>1
  <2>2. ASSUME NEW k \in 1 .. N PROVE k - 1 \in 0 .. N /\ f[k] = ReplayFrame(f[k - 1], sid, frames[k])
    <3>1. k \in 0 .. N /\ k # 0 /\ k - 1 \in 0 .. N
      BY <1>1
    <3> QED BY <3>1, <1>7
  <2> QED BY <2>1, <2>2
<1>9. 0 .. N \subseteq {k \in 0 .. N : f[k] \in S}
  <2>1. 0 \in {k \in 0 .. N : f[k] \in S}
    BY <1>8, <1>2, <1>1
  <2>2. ASSUME NEW k \in 1 .. N, k - 1 \in {m \in 0 .. N : f[m] \in S}
        PROVE  k \in {m \in 0 .. N : f[m] \in S}
    BY <2>2, <1>1, <1>3, <1>8
  <2> QED BY <2>1, <2>2, <1>1, UpTo
<1> QED BY <1>7, <1>8, <1>9 DEF N, S, Steps

(* The rest of a segment.                                                  *)
LEMMA SegmentReplayed ==
    ASSUME NEW F, Files(F), NEW rs, NEW L, NEW a \in Nat, NEW b \in Nat,
           NEW g \in DOMAIN F, NEW m \in 0 .. Len(F[g]), a <= g, g = a => b <= m,
           GoodAt(rs, F, L, a, b, g, m),
           NEW frames \in Seq(Frames), Len(frames) = Len(F[g]) - m,
           \A k \in 1 .. Len(frames) : frames[k] = F[g][m + k]
    PROVE  GoodAt(ReplaySegment(rs, g, frames), F, L, a, b, g + 1, 0)
<1>1. g \in Nat /\ F[g] \in Seq(Frames) /\ Len(F[g]) \in Nat /\ m \in Nat /\ DOMAIN F[g] = 1 .. Len(F[g])
  BY DEF Files
<1>2. rs \in Seq(Rows)
  BY DEF GoodAt, Table
<1>0. PICK f : Steps(f, rs, g, frames)
  BY <1>1, <1>2, SegmentSteps
<1>3. /\ f[0] = rs /\ ReplaySegment(rs, g, frames) = f[Len(frames)]
      /\ \A k \in 1 .. Len(frames) : f[k] = ReplayFrame(f[k - 1], g, frames[k])
  BY <1>0 DEF Steps
<1> DEFINE N == Len(frames)
           P == {k \in 0 .. N : GoodAt(f[k], F, L, a, b, g, m + k)}
<1>4. N \in Nat /\ m + N = Len(F[g])
  BY <1>1
<1>5. 0 \in P
  BY <1>3, <1>4, <1>1
<1>6. ASSUME NEW k \in 1 .. N, k - 1 \in P PROVE k \in P
  <2>1. PICK j \in Nat : j = m + (k - 1) /\ m + k = j + 1
    BY <1>1, <1>4
  <2>2. GoodAt(f[k - 1], F, L, a, b, g, j)
    BY <1>6, <2>1
  <2>3. j + 1 \in DOMAIN F[g] /\ frames[k] = F[g][j + 1]
    BY <1>1, <1>4, <2>1
  <2>4. ~Before(g, j + 1, a, b)
    BY <1>1, <1>4, <2>1 DEF Before
  <2>5. GoodAt(ReplayFrame(f[k - 1], g, F[g][j + 1]), F, L, a, b, g, j + 1)
    BY <2>2, <2>3, <2>4, OneMore
  <2>6. GoodAt(f[k], F, L, a, b, g, m + k) /\ k \in 0 .. N
    BY <2>1, <2>3, <2>5, <1>3, <1>4
  <2> QED BY <2>6
<1>7. N \in P
  <2> HIDE DEF P, N
  <2>1. 0 .. N \subseteq P
    BY <1>4, <1>5, <1>6, UpTo
  <2> QED BY <2>1, <1>4
<1>8. GoodAt(f[N], F, L, a, b, g, Len(F[g]))
  BY <1>7, <1>4
<1>9. ASSUME NEW x \in DOMAIN F, NEW y \in DOMAIN F[x]
      PROVE  Before(x, y, g, Len(F[g])) <=> Before(x, y, g + 1, 0)
  <2>1. x \in Nat /\ F[x] \in Seq(Frames)
    BY DEF Files
  <2>2. y \in Nat /\ y > 0 /\ (x = g => y <= Len(F[g]))
    BY <2>1
  <2> QED BY <1>1, <2>1, <2>2 DEF Before
<1>10. GoodAt(f[N], F, L, a, b, g + 1, 0)
  <2> HIDE DEF N
  <2> QED BY <1>8, <1>9, Gap
<1> QED BY <1>3, <1>10

(* Where segment sid is replayed from.                                     *)
Rest(F, first, from, sid) == IF sid = first THEN SubSeq(F[sid], from + 1, Len(F[sid])) ELSE F[sid]

(* Frames q are those of segment g after the first m.                      *)
After(q, F, g, m) ==
    /\ m \in 0 .. Len(F[g]) /\ q \in Seq(Frames) /\ Len(q) = Len(F[g]) - m
    /\ \A k \in 1 .. Len(q) : q[k] = F[g][m + k]

(* What ReplayFrom hands to ReplaySegment are the frames behind the place  *)
(* the replay starts at.                                                   *)
LEMMA RestIs ==
    ASSUME NEW F, Files(F), NEW a \in Nat, NEW b \in Nat, NEW g \in DOMAIN F, g = a => b <= Len(F[g])
    PROVE  After(Rest(F, a, b, g), F, g, IF g = a THEN b ELSE 0)
<1>1. F[g] \in Seq(Frames) /\ Len(F[g]) \in Nat
  BY DEF Files
<1>2. CASE g = a
  <2>1. b \in 0 .. Len(F[g])
    BY <1>1, <1>2
  <2>2. PICK s \in Seq(Frames) : s = F[g]
    BY <1>1
  <2>3. /\ SubSeq(s, b + 1, Len(s)) \in Seq(Frames) /\ Len(SubSeq(s, b + 1, Len(s))) = Len(s) - b
        /\ \A k \in 1 .. Len(s) - b : SubSeq(s, b + 1, Len(s))[k] = s[b + k]
    <3>1. b \in Nat /\ b <= Len(s) /\ Len(s) \in Nat
      BY <2>1, <2>2
    <3>2. \A k \in b + 1 .. Len(s) : s[k] \in Frames
      BY <3>1
    <3>3. SubSeq(s, b + 1, Len(s)) \in Seq(Frames)
      BY <3>1, <3>2, SubSeqProperties
    <3>4. Len(SubSeq(s, b + 1, Len(s))) = Len(s) - b
      BY <3>1, SubSeqProperties
    <3>5. ASSUME NEW k \in 1 .. Len(s) - b PROVE SubSeq(s, b + 1, Len(s))[k] = s[b + k]
      BY <3>1
    <3> QED BY <3>3, <3>4, <3>5
  <2> QED BY <1>2, <2>1, <2>2, <2>3 DEF Rest, After
<1>3. CASE g # a
  BY <1>1, <1>3 DEF Rest, After
<1> QED BY <1>2, <1>3

(* The recursion of ReplayFrom has the tables f.                           *)
Walk(f, rs, F, a, b, N) ==
    /\ f[0] = rs /\ ReplayFrom(rs, F, a, b) = f[N]
    /\ \A g \in 1 .. N : f[g] = IF g \in DOMAIN F /\ g >= a
                                THEN ReplaySegment(f[g - 1], g, Rest(F, a, b, g)) ELSE f[g - 1]

(* The recursion by which ReplayFrom is computed exists.                   *)
LEMMA LogWalk ==
    ASSUME NEW F, Files(F), NEW N \in Nat, N = Max({0} \cup DOMAIN F), NEW rs \in Seq(Rows),
           NEW a \in Nat, NEW b \in Nat, a \in DOMAIN F => b <= Len(F[a])
    PROVE  \E f : Walk(f, rs, F, a, b, N)
<1> DEFINE S == Seq(Rows)
           body(g, v) == IF g \in DOMAIN F /\ g >= a THEN ReplaySegment(v, g, Rest(F, a, b, g)) ELSE v
           H == [k \in 1 .. N |-> [v \in S |-> body(k, v)]]
           G(h) == [g \in 0 .. N |-> IF g = 0 THEN rs ELSE body(g, h[g - 1])]
<1>1. ASSUME NEW k \in 1 .. N, NEW v \in S PROVE body(k, v) \in S
  <2>1. CASE k \in DOMAIN F /\ k >= a
    <3>0. After(Rest(F, a, b, k), F, k, IF k = a THEN b ELSE 0)
      BY <2>1, RestIs
    <3>1. PICK q : q = Rest(F, a, b, k) /\ q \in Seq(Frames) /\ k \in Nat
      BY <3>0 DEF After
    <3>2. PICK f : Steps(f, v, k, q)
      BY <3>1, SegmentSteps
    <3>3. ReplaySegment(v, k, q) \in S
      BY <3>1, <3>2 DEF Steps
    <3> QED BY <3>1, <3>3
  <2> QED BY <2>1
<1>2. rs \in S
  OBVIOUS
<1> HIDE DEF S, body
<1>3. Closed(H, N, S)
  BY <1>1 DEF Closed
<1>4. PICK g \in [0 .. N -> S] : Follows(g, rs, H, N)
  <2> HIDE DEF H
  <2> QED BY <1>2, <1>3, Recursion
<1>5. g = G(g)
  <2>1. ASSUME NEW k \in 0 .. N PROVE g[k] = G(g)[k]
    <3>1. CASE k = 0
      BY <3>1, <1>4 DEF Follows
    <3>2. CASE k # 0
      <4>1. k \in 1 .. N /\ k - 1 \in 0 .. N
        BY <3>2
      <4>2. g[k] = H[k][g[k - 1]] /\ g[k - 1] \in S
        BY <4>1, <1>4 DEF Follows
      <4> QED BY <4>1, <4>2, <3>2
    <3> QED BY <3>1, <3>2
  <2> QED BY <2>1
<1>6. PICK f : f = G(f) /\ ReplayFrom(rs, F, a, b) = f[N]
  BY <1>5 DEF ReplayFrom, body, Rest
<1>7. f[0] = rs
  BY <1>6
<1>8. ASSUME NEW k \in 1 .. N PROVE f[k] = body(k, f[k - 1])
  <2>1. k \in 0 .. N /\ k # 0
    OBVIOUS
  <2> QED BY <2>1, <1>6
<1> QED BY <1>6, <1>7, <1>8 DEF Walk, body

(* Table r is what the frames of F after <<a, b>> make of one with live    *)
(* ids L.                                                                  *)
ReplayOf(r, F, L, a, b) ==
    /\ Table(r, DOMAIN F) /\ Logged(r, F)
    /\ \A i : i \in LiveIds(r) <=>
          \/ i \in L /\ Clear(F, i, a, b)
          \/ \E h \in DOMAIN F : \E j \in DOMAIN F[h] :
                Has(F, "put", i, h, j) /\ ~Before(h, j, a, b) /\ Clear(F, i, h, j)

(* A replay of all that is behind <<a, b>>, into a table that agrees with  *)
(* what is before: the result agrees with all the files. Segment after     *)
(* segment, by SegmentReplayed.                                            *)
LEMMA LogReplayed ==
    ASSUME NEW F, Files(F), NEW B \in Nat, DOMAIN F \subseteq 0 .. B,
           NEW rs, Table(rs, DOMAIN F),
           NEW a \in Nat, NEW b \in Nat, LoggedTo(rs, F, a, b),
           (a = 0 /\ b = 0) \/ (a \in DOMAIN F /\ b <= Len(F[a]))
    PROVE  ReplayOf(ReplayFrom(rs, F, a, b), F, LiveIds(rs), a, b)
<1>1. PICK N \in Nat : N = Max({0} \cup DOMAIN F) /\ \A x \in DOMAIN F : x <= N
  <2>1. {0} \cup DOMAIN F \subseteq 0 .. B /\ {0} \cup DOMAIN F # {}
    OBVIOUS
  <2>2. Max({0} \cup DOMAIN F) \in {0} \cup DOMAIN F /\ \A x \in {0} \cup DOMAIN F : x <= Max({0} \cup DOMAIN F)
    BY <2>1, MaxIs
  <2>3. PICK N : N = Max({0} \cup DOMAIN F)
    OBVIOUS
  <2>4. N \in 0 .. B /\ \A x \in DOMAIN F : x <= N
    <3>1. N \in {0} \cup DOMAIN F /\ \A x \in {0} \cup DOMAIN F : x <= N
      BY <2>2, <2>3
    <3> QED BY <3>1
  <2>5. N \in Nat
    BY <2>4
  <2> QED BY <2>3, <2>4, <2>5, Zenon
<1>0. \A x \in DOMAIN F : x <= N
  BY <1>1
<1>2. rs \in Seq(Rows)
  BY DEF Table
<1>3. a \in DOMAIN F => b <= Len(F[a])
  BY DEF Files
<1>4. PICK f : Walk(f, rs, F, a, b, N)
  BY <1>1, <1>2, <1>3, LogWalk
<1>5. f[0] = rs /\ ReplayFrom(rs, F, a, b) = f[N]
  BY <1>4 DEF Walk
<1>6. \A g \in 1 .. N : f[g] = IF g \in DOMAIN F /\ g >= a
                               THEN ReplaySegment(f[g - 1], g, Rest(F, a, b, g)) ELSE f[g - 1]
  BY <1>4 DEF Walk
<1> DEFINE L == LiveIds(rs)
           P == {g \in 0 .. N : /\ g < a => f[g] = rs
                                /\ g >= a => GoodAt(f[g], F, L, a, b, g + 1, 0)}
<1>7. GoodAt(rs, F, L, a, b, a, b)
  <2>1. \A i : Quiet(F, i, a, b, a, b)
    BY DEF Quiet
  <2>2. \A i : i \in LiveIds(rs) <=> Alive(F, L, a, b, a, b, i)
    BY <2>1 DEF Alive
  <2> HIDE DEF L
  <2> QED BY <2>2 DEF GoodAt
<1> HIDE DEF L
<1>8. \A x \in DOMAIN F : \A y \in DOMAIN F[x] : x \in Nat \ {0} /\ y \in Nat \ {0}
  BY DEF Files
<1>9. 0 \in P
  <2>1. ASSUME a = 0 PROVE GoodAt(rs, F, L, a, b, 0 + 1, 0)
    <3>1. \A x \in DOMAIN F : \A y \in DOMAIN F[x] : Before(x, y, a, b) <=> Before(x, y, 0 + 1, 0)
      BY <1>8, <2>1 DEF Before
    <3> QED BY <3>1, <1>7, Gap
  <2> QED BY <2>1, <1>5, <1>1
<1>10. ASSUME NEW g \in 1 .. N, g - 1 \in P PROVE g \in P
  <2>1. g \in 0 .. N /\ g \in Nat /\ g - 1 \in Nat /\ (g - 1) + 1 = g
    BY <1>1
  <2>2. CASE g < a
    <3>1. f[g] = f[g - 1] /\ g - 1 < a
      BY <1>6, <2>1, <2>2
    <3> QED BY <3>1, <1>10, <2>1, <2>2
  <2>3. CASE g >= a /\ g \notin DOMAIN F
    <3>1. f[g] = f[g - 1] /\ g # a
      BY <1>6, <2>1, <2>3
    <3>2. GoodAt(f[g - 1], F, L, a, b, g, 0)
      BY <1>10, <2>1, <2>3, <3>1
    <3>3. \A x \in DOMAIN F : \A y \in DOMAIN F[x] : Before(x, y, g, 0) <=> Before(x, y, g + 1, 0)
      BY <1>8, <2>1, <2>3 DEF Before
    <3>4. GoodAt(f[g], F, L, a, b, g + 1, 0)
      BY <3>1, <3>2, <3>3, Gap
    <3> QED BY <3>4, <2>1, <2>3
  <2>4. CASE g >= a /\ g \in DOMAIN F
    <3>1. f[g] = ReplaySegment(f[g - 1], g, Rest(F, a, b, g))
      BY <1>6, <2>4
    <3>2. PICK m : m = IF g = a THEN b ELSE 0
      OBVIOUS
    <3>3. After(Rest(F, a, b, g), F, g, m)
      BY <3>2, <2>4, <1>3, RestIs
    <3>4. PICK q : q = Rest(F, a, b, g)
      OBVIOUS
    <3>5. /\ m \in 0 .. Len(F[g]) /\ q \in Seq(Frames) /\ Len(q) = Len(F[g]) - m
          /\ \A k \in 1 .. Len(q) : q[k] = F[g][m + k]
      BY <3>3, <3>4 DEF After
    <3>6. GoodAt(f[g - 1], F, L, a, b, g, m)
      <4>1. CASE g = a
        <5>1. f[g - 1] = rs /\ m = b
          BY <4>1, <1>10, <2>1, <3>2
        <5> QED BY <5>1, <4>1, <1>7
      <4>2. CASE g # a
        <5>1. m = 0 /\ g - 1 >= a
          BY <4>2, <2>4, <2>1, <3>2
        <5> QED BY <5>1, <1>10, <2>1
      <4> QED BY <4>1, <4>2
    <3>7. a <= g /\ (g = a => b <= m)
      BY <2>4, <2>1, <3>2
    <3>8. GoodAt(ReplaySegment(f[g - 1], g, q), F, L, a, b, g + 1, 0)
      BY <2>4, <3>5, <3>6, <3>7, SegmentReplayed
    <3> QED BY <3>1, <3>4, <3>8, <2>1, <2>4
  <2> QED BY <2>1, <2>2, <2>3, <2>4
<1>11. N \in P
  <2> HIDE DEF P
  <2>1. 0 .. N \subseteq P
    BY <1>9, <1>10, UpTo
  <2> QED BY <2>1, <1>1
<1>12. a <= N
  BY <1>0
<1>13. GoodAt(f[N], F, L, a, b, N + 1, 0)
  BY <1>11, <1>12
<1>14. \A x \in DOMAIN F : \A y \in DOMAIN F[x] : Before(x, y, N + 1, 0)
  BY <1>0, <1>8 DEF Before
<1>15. \A i, h, j : Quiet(F, i, h, j, N + 1, 0) <=> Clear(F, i, h, j)
  BY <1>14 DEF Quiet, Clear
<1>16. PICK r : r = f[N]
  OBVIOUS
<1>17. Table(r, DOMAIN F) /\ LoggedTo(r, F, N + 1, 0) /\ \A i : i \in LiveIds(r) <=> Alive(F, L, a, b, N + 1, 0, i)
  BY <1>13, <1>16 DEF GoodAt
<1>18. Logged(r, F)
  BY <1>15, <1>17 DEF LoggedTo, Logged
<1>19. ASSUME NEW i
       PROVE  i \in LiveIds(r) <=>
                \/ i \in L /\ Clear(F, i, a, b)
                \/ \E h \in DOMAIN F : \E j \in DOMAIN F[h] :
                      Has(F, "put", i, h, j) /\ ~Before(h, j, a, b) /\ Clear(F, i, h, j)
  BY <1>14, <1>15, <1>17 DEF Alive
<1>20. ReplayOf(r, F, L, a, b)
  BY <1>17, <1>18, <1>19 DEF ReplayOf
<1> QED BY <1>5, <1>16, <1>20 DEF L

-----------------------------------------------------------------------------
(* What a write does to the table and the log.                             *)

(* Frames fr kill event i.                                                 *)
DeadIn(fr, i) == \E k \in DOMAIN fr : fr[k].op = "dead" /\ fr[k].id = i

(* Table r and frames fr, appended to segment sid, follow table rs: a live *)
(* record was live in rs or its frame is in fr; and what is live in both   *)
(* was not killed between.                                                 *)
Follow(r, fr, rs, sid, S) ==
    /\ Table(r, S) /\ fr \in Seq(Frames) /\ DOMAIN rs \subseteq DOMAIN r
    /\ \A s \in LiveRows(r) :
          \/ s \in LiveRows(rs) /\ rs[s].id = r[s].id /\ rs[s].seg = r[s].seg
          \/ /\ r[s].seg = sid
             /\ \E j \in DOMAIN fr : /\ fr[j].op = "put" /\ fr[j].id = r[s].id
                                     /\ \A k \in DOMAIN fr : fr[k].op = "dead" /\ fr[k].id = r[s].id => k <= j
    /\ \A i \in LiveIds(rs) \cap LiveIds(r) : ~DeadIn(fr, i)

(* The same of a write w in progress.                                      *)
FollowsW(w, rs, sid, S) == Follow(w.rows, w.frames, rs, sid, S)

(* Frames that kill nothing which is still live after them.                *)
LEMMA MoreFrames ==
    ASSUME NEW S, NEW sid, NEW rs, NEW r, NEW fr, Follow(r, fr, rs, sid, S),
           NEW t, Table(t, S), Alike(r, t), LiveRows(t) \subseteq LiveRows(r),
           NEW q \in Seq(Frames), \A i \in LiveIds(t) : ~DeadIn(q, i)
    PROVE  Follow(t, fr \o q, rs, sid, S)
<1>1. fr \in Seq(Frames)
  BY DEF Follow
<1> DEFINE f == fr \o q
<1>2. /\ f \in Seq(Frames) /\ Len(fr) \in Nat /\ DOMAIN fr = 1 .. Len(fr)
      /\ \A k \in DOMAIN fr : k \in DOMAIN f /\ f[k] = fr[k]
      /\ \A k \in DOMAIN f : k \in DOMAIN fr \/ \E m \in DOMAIN q : f[k] = q[m]
  <2>1. /\ Len(fr) \in Nat /\ Len(q) \in Nat /\ DOMAIN fr = 1 .. Len(fr) /\ DOMAIN q = 1 .. Len(q)
        /\ f \in Seq(Frames) /\ DOMAIN f = 1 .. Len(fr) + Len(q)
    BY <1>1
  <2>2. \A k \in 1 .. Len(fr) + Len(q) : f[k] = IF k <= Len(fr) THEN fr[k] ELSE q[k - Len(fr)]
    BY <1>1
  <2> HIDE DEF f
  <2>3. \A k \in 1 .. Len(fr) + Len(q) : k \in 1 .. Len(fr) \/ (k > Len(fr) /\ k - Len(fr) \in 1 .. Len(q))
    BY <2>1
  <2> QED BY <2>1, <2>2, <2>3
<1> HIDE DEF f
<1>3. ASSUME NEW s \in LiveRows(t)
      PROVE  /\ s \in LiveRows(r) /\ t[s].id = r[s].id /\ t[s].seg = r[s].seg
             /\ t[s].id \in LiveIds(t) /\ ~DeadIn(q, t[s].id)
  BY DEF Alike, LiveRows, LiveIds
<1>4. ASSUME NEW i \in LiveIds(t) PROVE i \in LiveIds(r)
  BY <1>3, <1>4 DEF LiveIds
<1>5. ASSUME NEW s \in LiveRows(t)
      PROVE  \/ s \in LiveRows(rs) /\ rs[s].id = t[s].id /\ rs[s].seg = t[s].seg
             \/ /\ t[s].seg = sid
                /\ \E j \in DOMAIN f : /\ f[j].op = "put" /\ f[j].id = t[s].id
                                       /\ \A k \in DOMAIN f : f[k].op = "dead" /\ f[k].id = t[s].id => k <= j
  <2>1. CASE s \in LiveRows(rs) /\ rs[s].id = r[s].id /\ rs[s].seg = r[s].seg
    BY <2>1, <1>3
  <2>2. ASSUME r[s].seg = sid, NEW j \in DOMAIN fr, fr[j].op = "put", fr[j].id = r[s].id,
               \A k \in DOMAIN fr : fr[k].op = "dead" /\ fr[k].id = r[s].id => k <= j
        PROVE  /\ j \in DOMAIN f /\ f[j].op = "put" /\ f[j].id = t[s].id
               /\ \A k \in DOMAIN f : f[k].op = "dead" /\ f[k].id = t[s].id => k <= j
    BY <2>2, <1>2, <1>3 DEF DeadIn
  <2> QED BY <2>1, <2>2, <1>3 DEF Follow
<1>6. ASSUME NEW i \in LiveIds(rs) \cap LiveIds(t) PROVE ~DeadIn(f, i)
  BY <1>2, <1>4 DEF Follow, DeadIn
<1>7. DOMAIN rs \subseteq DOMAIN t
  BY DEF Follow, Alike
<1> QED BY <1>2, <1>5, <1>6, <1>7 DEF Follow, f

(* Records killed by a deletion, by a newer version or by a prune: each    *)
(* death has its marker.                                                   *)
LEMMA KillFollows ==
    ASSUME NEW S, NEW sid, NEW rs, NEW w, FollowsW(w, rs, sid, S),
           NEW K, K \subseteq LiveRows(w.rows)
    PROVE  FollowsW(Kill(w, K), rs, sid, S) /\ Kill(w, K).rows = Killed(w.rows, K)
<1> USE DEF FollowsW
<1> DEFINE x == Kill(w, K)
           d == [s \in DOMAIN w.rows |-> DeadFrame(w.rows[s].id)]
           q == Picked(d, K)
<1>1. x.rows = Killed(w.rows, K) /\ x.frames = w.frames \o q
  BY DEF Kill
<1>2. Table(w.rows, S) /\ w.rows \in Seq(Rows)
  BY DEF Follow, Table
<1>3. d \in Seq(Frames) /\ DOMAIN d = DOMAIN w.rows
  <2>1. DOMAIN w.rows = 1 .. Len(w.rows) /\ Len(w.rows) \in Nat
    BY <1>2
  <2>2. ASSUME NEW s \in 1 .. Len(w.rows) PROVE DeadFrame(w.rows[s].id) \in Frames
    <3>1. w.rows[s] \in Rows
      BY <1>2, <2>1
    <3>2. w.rows[s].id \in Ids
      BY <3>1 DEF Rows
    <3> QED BY <3>2, FramesAre
  <2> QED BY <2>1, <2>2, IsASeq
<1>4. ASSUME NEW s \in DOMAIN d PROVE d[s].op = "dead" /\ d[s].id = w.rows[s].id
  BY <1>3 DEF DeadFrame
<1> HIDE DEF d
<1>5. q \in Seq({d[s] : s \in K \cap DOMAIN d})
  BY <1>3, PickedIn
<1>6. /\ q \in Seq(Frames)
      /\ \A k \in DOMAIN q : \E s \in K \cap DOMAIN w.rows : q[k] = d[s]
  <2> HIDE DEF q
  <2>1. \A k \in DOMAIN q : q[k] \in {d[s] : s \in K \cap DOMAIN d}
    BY <1>5
  <2>2. {d[s] : s \in K \cap DOMAIN d} \subseteq Frames
    BY <1>3
  <2>3. q \in Seq(Frames)
    BY <1>5, <2>2
  <2> QED BY <2>1, <2>3, <1>3
<1> HIDE DEF q
<1> DEFINE t == Killed(w.rows, K)
<1>7. /\ Table(t, S) /\ Alike(w.rows, t)
      /\ LiveRows(t) = LiveRows(w.rows) \ K
      /\ \A i : i \in LiveIds(t) <=> i \in LiveIds(w.rows) /\ ~\E s \in K \cap LiveRows(w.rows) : w.rows[s].id = i
  BY <1>2, KilledIs
<1> HIDE DEF t
<1>8. ASSUME NEW i \in LiveIds(t) PROVE ~DeadIn(q, i)
  BY <1>3, <1>4, <1>6, <1>7 DEF DeadIn
<1>9. Follow(t, w.frames \o q, rs, sid, S)
  <2>1. LiveRows(t) \subseteq LiveRows(w.rows)
    BY <1>7
  <2> QED BY <1>6, <1>7, <1>8, <2>1, MoreFrames
<1> HIDE DEF x
<1> QED BY <1>1, <1>9 DEF t, x

(* add_derived_tag: new tags, their markers, and no record comes or goes.  *)
LEMMA TagsFollow ==
    ASSUME NEW S, NEW sid, NEW rs, NEW w, FollowsW(w, rs, sid, S),
           NEW K, K \subseteq DOMAIN w.rows, NEW V, V \subseteq Range(Author)
    PROVE  FollowsW(AddTags(w, K, V), rs, sid, S) /\ AddTags(w, K, V).rows = Tagged(w.rows, K, V)
<1> USE DEF FollowsW
<1> DEFINE x == AddTags(w, K, V)
           new == {p \in K \X V : p[2] \notin w.rows[p[1]].tags}
           order == SetToSeq(new)
           q == [k \in DOMAIN order |-> TagFrame(w.rows[order[k][1]].id, order[k][2])]
           t == Tagged(w.rows, K, V)
<1>1. x.rows = t /\ x.frames = w.frames \o q
  BY DEF AddTags
<1>2. Table(w.rows, S) /\ w.rows \in Seq(Rows)
  BY DEF Follow, Table
<1>3. IsFiniteSet(new)
  <2>1. IsFiniteSet(DOMAIN w.rows)
    <3>1. DOMAIN w.rows = 1 .. Len(w.rows) /\ Len(w.rows) \in Nat
      BY <1>2
    <3> QED BY <3>1, FS_Interval
  <2>2. IsFiniteSet(Range(Author))
    <3>1. Range(Author) = {Author[i] : i \in Ids}
      BY EventsAssumption DEF Range
    <3>2. IsFiniteSet(Ids)
      BY EventsAssumption
    <3>3. [i \in Ids |-> Author[i]] \in Surjection(Ids, Range(Author))
      BY <3>1 DEF Surjection
    <3> QED BY <3>2, <3>3, FS_Surjection
  <2>3. IsFiniteSet(K) /\ IsFiniteSet(V)
    BY <2>1, <2>2, FS_Subset
  <2>4. IsFiniteSet(K \X V)
    BY <2>3, FS_Product
  <2> QED BY <2>4, FS_Subset
<1>4. order \in Seq(new)
  BY <1>3, SetToSeqIn
<1> HIDE DEF order
<1>5. ASSUME NEW p \in new PROVE TagFrame(w.rows[p[1]].id, p[2]) \in Frames
  <2>1. p[1] \in DOMAIN w.rows /\ p[2] \in Range(Author)
    OBVIOUS
  <2>2. w.rows[p[1]] \in Rows
    BY <1>2, <2>1
  <2>3. w.rows[p[1]].id \in Ids
    BY <2>2 DEF Rows
  <2> QED BY <2>1, <2>3, FramesAre
<1> HIDE DEF new
<1>6. DOMAIN order = 1 .. Len(order) /\ Len(order) \in Nat /\ \A k \in DOMAIN order : order[k] \in new
  BY <1>4
<1>7. q \in Seq(Frames)
  <2>1. ASSUME NEW k \in 1 .. Len(order)
        PROVE  TagFrame(w.rows[order[k][1]].id, order[k][2]) \in Frames
    BY <1>5, <1>6
  <2> QED BY <1>6, <2>1, IsASeq
<1>8. \A k \in DOMAIN q : q[k].op = "tag"
  BY DEF TagFrame
<1> HIDE DEF q
<1>9. Table(t, S) /\ Alike(w.rows, t) /\ LiveRows(t) = LiveRows(w.rows) /\ LiveIds(t) = LiveIds(w.rows)
  BY <1>2, TaggedIs
<1> HIDE DEF t
<1>10. Follow(t, w.frames \o q, rs, sid, S)
  <2>1. LiveRows(t) \subseteq LiveRows(w.rows)
    BY <1>9
  <2>2. \A i \in LiveIds(t) : ~DeadIn(q, i)
    BY <1>8 DEF DeadIn
  <2> QED BY <1>7, <1>9, <2>1, <2>2, MoreFrames
<1> HIDE DEF x
<1> QED BY <1>1, <1>10 DEF t, x

(* The new record, of an id that was not live.                             *)
LEMMA PutFollows ==
    ASSUME NEW S, NEW sid \in S \cap (Nat \ {0}), NEW rs, NEW r, NEW fr, Follow(r, fr, rs, sid, S),
           NEW i \in Ids, NEW o \in Origins, i \notin LiveIds(rs), i \notin LiveIds(r),
           NEW t, t = Append(r, NewRow(i, o, sid))
    PROVE  Follow(t, Append(fr, PutFrame(i, o)), rs, sid, S) /\ Appended(r, t, i, sid)
<1>1. Table(t, S) /\ Appended(r, t, i, sid)
  BY AppendIs DEF Follow
<1>2. fr \in Seq(Frames)
  BY DEF Follow
<1>3. PICK p \in Frames : p = PutFrame(i, o) /\ p.op = "put" /\ p.id = i
  BY FramesAre
<1> DEFINE f == Append(fr, p)
<1>4. /\ f \in Seq(Frames) /\ Len(fr) + 1 \in DOMAIN f /\ f[Len(fr) + 1] = p
      /\ \A k \in DOMAIN fr : k \in DOMAIN f /\ f[k] = fr[k] /\ k <= Len(fr) + 1
      /\ \A k \in DOMAIN f : k \in DOMAIN fr \/ k = Len(fr) + 1
      /\ Len(fr) + 1 \in Nat
  <2>1. /\ Len(fr) \in Nat /\ DOMAIN fr = 1 .. Len(fr)
        /\ f \in Seq(Frames) /\ DOMAIN f = 1 .. Len(fr) + 1 /\ f[Len(fr) + 1] = p
        /\ \A k \in 1 .. Len(fr) : f[k] = fr[k]
    BY <1>2
  <2> HIDE DEF f
  <2> QED BY <2>1
<1> HIDE DEF f
<1>5. ASSUME NEW s \in LiveRows(t)
      PROVE  \/ s \in LiveRows(rs) /\ rs[s].id = t[s].id /\ rs[s].seg = t[s].seg
             \/ /\ t[s].seg = sid
                /\ \E j \in DOMAIN f : /\ f[j].op = "put" /\ f[j].id = t[s].id
                                       /\ \A k \in DOMAIN f : f[k].op = "dead" /\ f[k].id = t[s].id => k <= j
  <2>1. CASE s = Len(r) + 1
    <3>1. t[s].seg = sid /\ t[s].id = i
      BY <1>1, <2>1 DEF Appended
    <3>2. \A k \in DOMAIN f : k <= Len(fr) + 1
      BY <1>4
    <3> QED BY <3>1, <3>2, <1>3, <1>4
  <2>2. CASE s \in LiveRows(r)
    <3>1. t[s] = r[s]
      BY <1>1, <2>2 DEF Appended
    <3>2. CASE s \in LiveRows(rs) /\ rs[s].id = r[s].id /\ rs[s].seg = r[s].seg
      BY <3>1, <3>2
    <3>3. ASSUME r[s].seg = sid, NEW j \in DOMAIN fr, fr[j].op = "put", fr[j].id = r[s].id,
                 \A k \in DOMAIN fr : fr[k].op = "dead" /\ fr[k].id = r[s].id => k <= j
          PROVE  /\ j \in DOMAIN f /\ f[j].op = "put" /\ f[j].id = r[s].id
                 /\ \A k \in DOMAIN f : f[k].op = "dead" /\ f[k].id = r[s].id => k <= j
      BY <3>3, <1>3, <1>4
    <3> QED BY <2>2, <3>1, <3>2, <3>3 DEF Follow
  <2> QED BY <1>1, <2>1, <2>2 DEF Appended
<1>6. ASSUME NEW x \in LiveIds(rs) \cap LiveIds(t) PROVE ~DeadIn(f, x)
  <2>1. x \in LiveIds(r)
    BY <1>1 DEF Appended
  <2> QED BY <2>1, <1>3, <1>4 DEF Follow, DeadIn
<1>8. DOMAIN rs \subseteq DOMAIN t
  <2>1. r \in Seq(Rows) /\ DOMAIN rs \subseteq DOMAIN r /\ NewRow(i, o, sid) \in Rows
    BY DEF Follow, Table, NewRow, Rows
  <2>2. DOMAIN r \subseteq DOMAIN t
    BY <2>1
  <2> QED BY <2>1, <2>2
<1>7. Follow(t, f, rs, sid, S)
  BY <1>1, <1>4, <1>5, <1>6, <1>8 DEF Follow
<1> QED BY <1>1, <1>3, <1>7 DEF f

(* A deletion kills what it names, each with its marker.                   *)
LEMMA DeletionFollows ==
    ASSUME NEW S, NEW sid, NEW rs, NEW w, FollowsW(w, rs, sid, S), NEW i
    PROVE  FollowsW(ApplyDeletion(w, i), rs, sid, S)
<1>1. Victims(w.rows, i) \subseteq LiveRows(w.rows)
  BY DEF Victims
<1>2. FollowsW(Kill(w, Victims(w.rows, i)), rs, sid, S)
  BY <1>1, KillFollows
<1> QED BY <1>2 DEF ApplyDeletion

(* The derived q tags change no record's life.                             *)
LEMMA QuotesFollow ==
    ASSUME NEW S, NEW sid, NEW rs, NEW w, FollowsW(w, rs, sid, S), NEW i \in LiveIds(w.rows), i \in Ids
    PROVE  /\ FollowsW(IndexQuotes(w, i), rs, sid, S)
           /\ LiveIds(IndexQuotes(w, i).rows) = LiveIds(w.rows)
<1> DEFINE K == {SeqOfId(w.rows, i)}
           V == {Author[q] : q \in {q \in Quotes[i] : IsLive(w.rows, q)}}
           own == AddTags(w, K, V)
           quoting == {s \in LiveRows(w.rows) : i \in Quotes[w.rows[s].id] /\ Kind[w.rows[s].id] = "note"}
           both == AddTags(own, quoting, {Author[i]})
<1>1. Table(w.rows, S)
  BY DEF FollowsW, Follow
<1>2. K \subseteq DOMAIN w.rows
  <2>1. SeqOfId(w.rows, i) \in DOMAIN w.rows
    BY <1>1, Found
  <2> QED BY <2>1
<1>3. \A q \in Ids : Author[q] \in Range(Author)
  BY EventsAssumption DEF Range
<1>4. V \subseteq Range(Author)
  <2>1. Quotes[i] \subseteq Ids
    BY EventsAssumption
  <2> QED BY <1>3, <2>1
<1> HIDE DEF K, V
<1>5. FollowsW(own, rs, sid, S) /\ own.rows = Tagged(w.rows, K, V)
  BY <1>2, <1>4, TagsFollow
<1>6. Alike(w.rows, own.rows) /\ LiveRows(own.rows) = LiveRows(w.rows) /\ LiveIds(own.rows) = LiveIds(w.rows)
  BY <1>1, <1>4, <1>5, TaggedIs
<1>7. Table(own.rows, S)
  BY <1>5 DEF FollowsW, Follow
<1> HIDE DEF own
<1>8. quoting \subseteq DOMAIN own.rows
  BY <1>6 DEF LiveRows
<1> HIDE DEF quoting
<1>9. {Author[i]} \subseteq Range(Author)
  BY <1>3
<1>10. FollowsW(both, rs, sid, S) /\ both.rows = Tagged(own.rows, quoting, {Author[i]})
  BY <1>5, <1>8, <1>9, TagsFollow
<1>11. LiveIds(both.rows) = LiveIds(own.rows)
  BY <1>7, <1>9, <1>10, TaggedIs
<1>12. IndexQuotes(w, i) = IF Kind[i] # "note" THEN own ELSE both
  BY DEF IndexQuotes, own, K, V, quoting
<1> HIDE DEF both
<1> QED BY <1>5, <1>6, <1>10, <1>11, <1>12

(* Store.put: what follows, and that a new version kills versions only.    *)
PutOK(w, rs, i, sid, S) ==
    /\ FollowsW(w, rs, sid, S)
    /\ Kind[i] # "delete" => \A x \in LiveIds(rs) : ~IsVersioned(x) => x \in LiveIds(w.rows)

(* Store.put follows the table, whether it refuses the event, replaces a   *)
(* version or applies a deletion.                                          *)
LEMMA PutIs ==
    ASSUME NEW S, NEW sid \in S \cap (Nat \ {0}), NEW rs, Table(rs, S), NEW i \in Ids, NEW o \in Origins
    PROVE  PutOK(Put(rs, i, o, sid), rs, i, sid, S)
<1> DEFINE w0 == [rows |-> rs, frames |-> <<>>]
           dup == IsLive(rs, i)
           w1 == IF dup THEN ApplyDeletion(w0, i) ELSE w0
           rivals == IF IsVersioned(i) THEN {s \in SameCoordinate(w1.rows, i) : rs[s].id # i} ELSE {}
           w2 == Kill(w1, rivals)
           w3 == [rows |-> Append(w2.rows, NewRow(i, o, sid)), frames |-> Append(w2.frames, PutFrame(i, o))]
           w4 == IndexQuotes(w3, i)
           w5 == ApplyDeletion(w4, i)
           out(w, r) == [rows |-> w.rows, frames |-> w.frames, result |-> r]
           live(w) == \A x \in LiveIds(rs) : ~IsVersioned(x) => x \in LiveIds(w.rows)
<1>1. FollowsW(w0, rs, sid, S) /\ w0.rows = rs
  <2>1. <<>> \in Seq(Frames) /\ DOMAIN <<>> = {}
    OBVIOUS
  <2>2. Follow(rs, <<>>, rs, sid, S)
    BY <2>1 DEF Follow, DeadIn
  <2> QED BY <2>2 DEF FollowsW
<1>2. dup <=> i \in LiveIds(rs)
  BY Found DEF IsLive
<1> HIDE DEF w0, dup
<1>3. FollowsW(w1, rs, sid, S) /\ (~dup => w1.rows = rs) /\ (Kind[i] # "delete" => w1.rows = rs)
  BY <1>1, DeletionFollows DEF ApplyDeletion
<1> HIDE DEF w1
<1>4. /\ rivals \subseteq LiveRows(w1.rows)
      /\ \A s \in rivals : IsVersioned(i) /\ Kind[i] = Kind[w1.rows[s].id]
  BY DEF SameCoordinate, Matches
<1> HIDE DEF rivals
<1>5. FollowsW(w2, rs, sid, S) /\ w2.rows = Killed(w1.rows, rivals)
  BY <1>3, <1>4, KillFollows
<1>6. /\ LiveRows(w2.rows) = LiveRows(w1.rows) \ rivals
      /\ \A x : x \in LiveIds(w2.rows) <=>
            x \in LiveIds(w1.rows) /\ ~\E s \in rivals \cap LiveRows(w1.rows) : w1.rows[s].id = x
  <2>1. Table(w1.rows, S)
    BY <1>3 DEF FollowsW, Follow
  <2> QED BY <1>5, <2>1, KilledIs
<1> HIDE DEF w2
<1>7. Kind[i] # "delete" => live(w1) /\ live(w2)
  BY <1>3, <1>4, <1>6 DEF IsVersioned
<1>8. ASSUME ~dup
      PROVE  FollowsW(w5, rs, sid, S) /\ (Kind[i] # "delete" => live(w5))
  <2>1. i \notin LiveIds(rs) /\ i \notin LiveIds(w2.rows)
    BY <1>2, <1>3, <1>6, <1>8
  <2>2. PICK t : t = Append(w2.rows, NewRow(i, o, sid))
    OBVIOUS
  <2>3. Follow(t, Append(w2.frames, PutFrame(i, o)), rs, sid, S) /\ Appended(w2.rows, t, i, sid)
    BY <2>1, <2>2, <1>5, PutFollows DEF FollowsW
  <2>4. FollowsW(w3, rs, sid, S) /\ LiveIds(w3.rows) = LiveIds(w2.rows) \cup {i}
    BY <2>2, <2>3 DEF FollowsW, Appended
  <2> HIDE DEF w3
  <2>5. FollowsW(w4, rs, sid, S) /\ LiveIds(w4.rows) = LiveIds(w3.rows)
    BY <2>4, QuotesFollow
  <2> HIDE DEF w4
  <2>6. FollowsW(w5, rs, sid, S)
    BY <2>5, DeletionFollows
  <2>7. Kind[i] # "delete" => w5 = w4
    BY DEF ApplyDeletion
  <2> QED BY <2>4, <2>5, <2>6, <2>7, <1>7
<1>9. \/ Put(rs, i, o, sid) = out(w0, "deleted")
      \/ \E x \in {"duplicate", "superseded"} : Put(rs, i, o, sid) = out(w1, x)
      \/ Put(rs, i, o, sid) = out(w2, "duplicate")
      \/ ~dup /\ Put(rs, i, o, sid) = out(w5, "stored")
  BY DEF Put, w0, w1, w2, dup, rivals
<1> HIDE DEF w3, w4, w5
<1>10. ASSUME NEW w, NEW x, Put(rs, i, o, sid) = out(w, x), FollowsW(w, rs, sid, S), Kind[i] # "delete" => live(w)
       PROVE  PutOK(Put(rs, i, o, sid), rs, i, sid, S)
  <2>1. Put(rs, i, o, sid).rows = w.rows /\ Put(rs, i, o, sid).frames = w.frames
    BY <1>10
  <2> QED BY <1>10, <2>1 DEF PutOK, FollowsW
<1>11. live(w0)
  BY <1>1
<1> HIDE DEF out, live
<1> QED BY <1>1, <1>3, <1>5, <1>7, <1>8, <1>9, <1>10, <1>11

-----------------------------------------------------------------------------
(* The log grows.                                                          *)

(* Files G are F with frames fr more in the active segment; the one that   *)
(* is active then may be a new one.                                        *)
Grown(F, act, fr, G, act2) ==
    /\ LogFiles(F, act) /\ fr \in Seq(Frames)
    /\ act2 \in {act, act + 1} /\ DOMAIN G = DOMAIN F \cup {act2}
    /\ G[act] = F[act] \o fr /\ (act2 # act => G[act2] = <<>>)
    /\ \A h \in DOMAIN F : h # act => G[h] = F[h]

(* What G has is what F has, and the new frames, behind them.              *)
GrownHas(F, act, fr, G) ==
    /\ \A op, i, h, j : Has(F, op, i, h, j) => Has(G, op, i, h, j)
    /\ \A op, i, h, j : Has(G, op, i, h, j) =>
          \/ Has(F, op, i, h, j)
          \/ h = act /\ \E k \in DOMAIN fr : j = Len(F[act]) + k /\ fr[k].op = op /\ fr[k].id = i
    /\ \A k \in DOMAIN fr : Has(G, fr[k].op, fr[k].id, act, Len(F[act]) + k)
    /\ \A k \in DOMAIN fr : k \in Nat /\ k > 0
    /\ \A op, i, h, j : Has(F, op, i, h, j) => h \in 1 .. act /\ j \in Nat /\ (h = act => j <= Len(F[act]))
    /\ Len(F[act]) \in Nat /\ act \in Nat /\ Len(F[act]) <= Len(G[act])

(* In files that have grown the old frames are where they were and the new *)
(* ones are behind them.                                                   *)
LEMMA GrownIs ==
    ASSUME NEW F, NEW act, NEW fr, NEW G, NEW act2, Grown(F, act, fr, G, act2)
    PROVE  LogFiles(G, act2) /\ GrownHas(F, act, fr, G)
<1>1. /\ act \in DOMAIN F /\ DOMAIN F \subseteq 1 .. act /\ act \in Nat
      /\ \A sid \in DOMAIN F : F[sid] \in Seq(Frames)
      /\ fr \in Seq(Frames) /\ act2 \in {act, act + 1} /\ DOMAIN G = DOMAIN F \cup {act2}
      /\ G[act] = F[act] \o fr /\ (act2 # act => G[act2] = <<>>)
      /\ \A h \in DOMAIN F : h # act => G[h] = F[h]
  BY DEF Grown, LogFiles
<1>2. PICK q \in Seq(Frames) : q = F[act]
  BY <1>1
<1>3. PICK p : p = q \o fr
  OBVIOUS
<1>4. /\ Len(q) \in Nat /\ Len(fr) \in Nat /\ DOMAIN q = 1 .. Len(q) /\ DOMAIN fr = 1 .. Len(fr)
      /\ p \in Seq(Frames) /\ DOMAIN p = 1 .. Len(q) + Len(fr) /\ Len(p) = Len(q) + Len(fr)
      /\ \A k \in 1 .. Len(q) : p[k] = q[k]
      /\ \A k \in 1 .. Len(fr) : p[Len(q) + k] = fr[k]
  BY <1>1, <1>3
<1>5. G[act] = p
  BY <1>1, <1>2, <1>3
<1>6. \A h \in DOMAIN F : h \in DOMAIN G /\ (h # act => G[h] = F[h])
  BY <1>1
<1>7. \A h \in DOMAIN G : h \in DOMAIN F \/ (h = act2 /\ G[h] = <<>>)
  BY <1>1
<1>8. \A j \in DOMAIN p : j \in 1 .. Len(q) \/ \E k \in 1 .. Len(fr) : j = Len(q) + k
  <2>1. ASSUME NEW j \in 1 .. Len(q) + Len(fr), j \notin 1 .. Len(q)
        PROVE  j - Len(q) \in 1 .. Len(fr) /\ j = Len(q) + (j - Len(q))
    BY <2>1, <1>4
  <2> QED BY <2>1, <1>4
<1>9. LogFiles(G, act2)
  <2>1. DOMAIN G \subseteq 1 .. act2 /\ act2 \in Nat
    BY <1>1
  <2>2. <<>> \in Seq(Frames)
    OBVIOUS
  <2>3. ASSUME NEW h \in DOMAIN G PROVE G[h] \in Seq(Frames)
    BY <2>2, <1>1, <1>4, <1>5, <1>7
  <2> QED BY <1>1, <2>1, <2>3 DEF LogFiles
<1>10. ASSUME NEW op, NEW i, NEW h, NEW j, Has(F, op, i, h, j)
       PROVE  Has(G, op, i, h, j) /\ h \in 1 .. act /\ j \in Nat /\ (h = act => j <= Len(F[act]))
  <2>1. h \in DOMAIN F /\ j \in DOMAIN F[h] /\ F[h] \in Seq(Frames) /\ h \in 1 .. act
    BY <1>10, <1>1 DEF Has
  <2>2. CASE h = act
    BY <2>1, <2>2, <1>10, <1>2, <1>4, <1>5, <1>6 DEF Has
  <2>3. CASE h # act
    BY <2>1, <2>3, <1>10, <1>6 DEF Has
  <2> QED BY <2>2, <2>3
<1>11. ASSUME NEW op, NEW i, NEW h, NEW j, Has(G, op, i, h, j)
       PROVE  \/ Has(F, op, i, h, j)
              \/ h = act /\ \E k \in DOMAIN fr : j = Len(F[act]) + k /\ fr[k].op = op /\ fr[k].id = i
  <2>1. h \in DOMAIN G /\ j \in DOMAIN G[h]
    BY <1>11 DEF Has
  <2>2. h \in DOMAIN F
    BY <2>1, <1>7
  <2>3. CASE h # act
    BY <2>1, <2>2, <2>3, <1>6, <1>11 DEF Has
  <2>4. CASE h = act
    <3>1. CASE j \in 1 .. Len(q)
      BY <3>1, <2>2, <2>4, <1>2, <1>4, <1>5, <1>11 DEF Has
    <3>2. ASSUME NEW k \in 1 .. Len(fr), j = Len(q) + k PROVE fr[k].op = op /\ fr[k].id = i
      BY <3>2, <2>4, <1>4, <1>5, <1>11 DEF Has
    <3> QED BY <3>1, <3>2, <2>1, <2>4, <1>2, <1>4, <1>5, <1>8
  <2> QED BY <2>3, <2>4
<1>12. ASSUME NEW k \in DOMAIN fr
       PROVE  Has(G, fr[k].op, fr[k].id, act, Len(F[act]) + k) /\ k \in Nat /\ k > 0
  <2>1. k \in 1 .. Len(fr) /\ Len(q) + k \in DOMAIN p /\ p[Len(q) + k] = fr[k]
    BY <1>4
  <2> QED BY <2>1, <1>1, <1>2, <1>5, <1>6 DEF Has
<1>13. Len(F[act]) \in Nat /\ Len(F[act]) <= Len(G[act])
  BY <1>2, <1>4, <1>5
<1> QED BY <1>1, <1>9, <1>10, <1>11, <1>12, <1>13 DEF GrownHas

(* Deaths of other events change nothing.                                  *)
LEMMA GrownClear ==
    ASSUME NEW F, NEW act, NEW fr, NEW G, NEW act2, Grown(F, act, fr, G, act2),
           NEW i, ~DeadIn(fr, i), NEW h, NEW j, Clear(F, i, h, j)
    PROVE  Clear(G, i, h, j)
<1>1. \A x, y : Has(G, "dead", i, x, y) => Has(F, "dead", i, x, y)
  BY GrownIs DEF GrownHas, DeadIn
<1> QED BY <1>1 DEF Clear, Has

(* A put frame which survives still does when the log grows, unless one of *)
(* the new frames is a death of its event.                                 *)
LEMMA GrownSurvives ==
    ASSUME NEW F, NEW act, NEW fr, NEW G, NEW act2, Grown(F, act, fr, G, act2),
           NEW i, ~DeadIn(fr, i), NEW n, NEW n2, act2 = act => n <= n2, n \in Int, n2 \in Int,
           NEW h \in DOMAIN F, NEW j \in DOMAIN F[h], Survives(F, act, n, i, h, j)
    PROVE  h \in DOMAIN G /\ j \in DOMAIN G[h] /\ Survives(G, act2, n2, i, h, j)
<1>1. Has(F, "put", i, h, j) /\ Clear(G, i, h, j) /\ (h = act => j <= n)
  BY GrownClear DEF Survives
<1>2. Has(G, "put", i, h, j) /\ h \in 1 .. act /\ j \in Nat /\ act \in Nat
  BY <1>1, GrownIs DEF GrownHas
<1>3. act2 = act \/ act2 = act + 1
  BY DEF Grown
<1>4. h = act2 => j <= n2
  BY <1>1, <1>2, <1>3
<1> QED BY <1>1, <1>2, <1>4 DEF Survives, Has

(* A new put frame that none of the new deaths follows.                    *)
LEMMA GrownPut ==
    ASSUME NEW F, NEW act, NEW fr, NEW G, NEW act2, Grown(F, act, fr, G, act2),
           NEW i, NEW k \in DOMAIN fr, fr[k].op = "put", fr[k].id = i,
           \A m \in DOMAIN fr : fr[m].op = "dead" /\ fr[m].id = i => m <= k
    PROVE  /\ act \in DOMAIN G /\ Len(F[act]) + k \in DOMAIN G[act]
           /\ Has(G, "put", i, act, Len(F[act]) + k) /\ Clear(G, i, act, Len(F[act]) + k)
<1>1. GrownHas(F, act, fr, G)
  BY GrownIs
<1>2. Has(G, "put", i, act, Len(F[act]) + k) /\ k \in Nat /\ k > 0 /\ Len(F[act]) \in Nat /\ act \in Nat
  BY <1>1 DEF GrownHas
<1>3. ASSUME NEW x, NEW y, Has(G, "dead", i, x, y) PROVE Before(x, y, act, Len(F[act]) + k)
  <2>1. CASE Has(F, "dead", i, x, y)
    <3>1. x \in 1 .. act /\ y \in Nat /\ (x = act => y <= Len(F[act]))
      BY <1>1, <2>1 DEF GrownHas
    <3> QED BY <3>1, <1>2 DEF Before
  <2>2. ASSUME x = act, NEW m \in DOMAIN fr, y = Len(F[act]) + m, fr[m].op = "dead", fr[m].id = i
        PROVE  Before(x, y, act, Len(F[act]) + k)
    <3>1. m <= k /\ m \in Nat
      BY <2>2, <1>1 DEF GrownHas
    <3> QED BY <3>1, <2>2, <1>2 DEF Before
  <2> QED BY <1>1, <1>3, <2>1, <2>2 DEF GrownHas
<1>4. Clear(G, i, act, Len(F[act]) + k)
  BY <1>3 DEF Clear
<1> QED BY <1>2, <1>4 DEF Has

(* A checkpoint still describes the log.                                   *)
LEMMA GrownFits ==
    ASSUME NEW F, NEW act, NEW fr, NEW G, NEW act2, Grown(F, act, fr, G, act2),
           NEW n \in 0 .. Len(F[act]), NEW n2 \in Int, act2 = act => n <= n2,
           NEW c, Fits(c, F, act, n, 0)
    PROVE  Fits(c, G, act2, n2, 0)
<1>1. GrownHas(F, act, fr, G)
  BY GrownIs
<1>2. /\ act \in Nat /\ DOMAIN F \subseteq 1 .. act /\ act2 \in {act, act + 1} /\ DOMAIN G = DOMAIN F \cup {act2}
      /\ \A h \in DOMAIN F : h # act => G[h] = F[h]
      /\ Len(F[act]) \in Nat /\ Len(F[act]) <= Len(G[act])
  BY <1>1 DEF Grown, LogFiles, GrownHas
<1>3. /\ c.at \in DOMAIN F /\ c.len \in 0 .. Len(F[c.at]) /\ (c.at = act => c.len <= n)
      /\ Table(c.rows, c.listed) /\ LoggedTo(c.rows, F, c.at, c.len)
      /\ c.listed \cap c.deleted = {} /\ c.deleted \subseteq 1 .. act - 1
      /\ c.deleted \cap DOMAIN F \subseteq {0}
  BY DEF Fits
<1>4. c.at \in DOMAIN G /\ c.at \in 1 .. act
  BY <1>2, <1>3
<1>5. c.len \in 0 .. Len(G[c.at])
  <2>1. CASE c.at # act
    BY <2>1, <1>2, <1>3
  <2>2. CASE c.at = act
    <3>1. LogFiles(G, act2)
      BY GrownIs
    <3>2. G[act] \in Seq(Frames)
      BY <3>1, <1>4, <2>2 DEF LogFiles
    <3>3. Len(G[act]) \in Nat
      BY <3>2
    <3> QED BY <3>3, <2>2, <1>2, <1>3
  <2> QED BY <2>1, <2>2
<1>6. c.at = act2 => c.len <= n2
  <2>1. c.at = act2 => act2 = act
    BY <1>2, <1>4
  <2>2. PICK m \in Int : m = c.len
    BY <1>3
  <2> QED BY <2>1, <2>2, <1>3
<1>7. ASSUME NEW x, NEW y, NEW i, Has(G, "dead", i, x, y), Before(x, y, c.at, c.len)
      PROVE  Has(F, "dead", i, x, y)
  <2>1. ASSUME x = act, NEW k \in DOMAIN fr, y = Len(F[act]) + k PROVE FALSE
    <3>1. k \in Nat /\ k > 0
      BY <1>1 DEF GrownHas
    <3>2. PICK a \in 1 .. act, b \in Nat : a = c.at /\ b = c.len /\ (a = act => b <= n)
      BY <1>3, <1>4
    <3>3. Before(act, Len(F[act]) + k, a, b)
      BY <1>7, <2>1, <3>2
    <3> QED BY <3>1, <3>2, <3>3, <1>2 DEF Before
  <2> QED BY <2>1, <1>1, <1>7 DEF GrownHas
<1>8. \A op, i, h, j : Has(F, op, i, h, j) => Has(G, op, i, h, j)
  BY <1>1 DEF GrownHas
<1>9. LoggedTo(c.rows, G, c.at, c.len)
  <2> SUFFICES ASSUME NEW s \in LiveRows(c.rows)
               PROVE  \E j \in DOMAIN G[c.rows[s].seg] :
                        /\ Has(G, "put", c.rows[s].id, c.rows[s].seg, j)
                        /\ Before(c.rows[s].seg, j, c.at, c.len) /\ Quiet(G, c.rows[s].id, c.rows[s].seg, j, c.at, c.len)
    BY DEF LoggedTo
  <2>1. PICK j \in DOMAIN F[c.rows[s].seg] :
                /\ Has(F, "put", c.rows[s].id, c.rows[s].seg, j)
                /\ Before(c.rows[s].seg, j, c.at, c.len) /\ Quiet(F, c.rows[s].id, c.rows[s].seg, j, c.at, c.len)
    BY <1>3 DEF LoggedTo
  <2>2. Has(G, "put", c.rows[s].id, c.rows[s].seg, j)
    BY <2>1, <1>8
  <2>3. Quiet(G, c.rows[s].id, c.rows[s].seg, j, c.at, c.len)
    BY <2>1, <1>7 DEF Quiet, Has
  <2>4. j \in DOMAIN G[c.rows[s].seg]
    BY <2>2 DEF Has
  <2> QED BY <2>1, <2>2, <2>3, <2>4
<1>10. c.deleted \subseteq 1 .. act2 - 1 /\ c.deleted \cap DOMAIN G \subseteq {0}
  <2>1. act2 \notin 1 .. act - 1 /\ 1 .. act - 1 \subseteq 1 .. act2 - 1
    BY <1>2
  <2> QED BY <2>1, <1>2, <1>3
<1> QED BY <1>3, <1>4, <1>5, <1>6, <1>9, <1>10 DEF Fits

(* A live record that no new death names would still be live.              *)
LEMMA GrownResumes ==
    ASSUME NEW F, NEW act, NEW fr, NEW G, NEW act2, Grown(F, act, fr, G, act2),
           NEW n \in Int, NEW n2 \in Int, act2 = act => n <= n2,
           NEW i, ~DeadIn(fr, i), NEW c, Resumes(F, act, n, c, i)
    PROVE  Resumes(G, act2, n2, c, i)
<1>1. CASE i \in LiveIds(c.rows) /\ Clear(F, i, c.at, c.len)
  BY <1>1, GrownClear DEF Resumes
<1>2. ASSUME NEW h \in DOMAIN F, NEW j \in DOMAIN F[h], ~Before(h, j, c.at, c.len), Survives(F, act, n, i, h, j)
      PROVE  Resumes(G, act2, n2, c, i)
  <2>1. h \in DOMAIN G /\ j \in DOMAIN G[h] /\ Survives(G, act2, n2, i, h, j)
    BY <1>2, GrownSurvives
  <2> QED BY <2>1, <1>2 DEF Resumes
<1> QED BY <1>1, <1>2 DEF Resumes

(* So an event some frame keeps is still kept.                             *)
LEMMA GrownStays ==
    ASSUME NEW F, NEW act, NEW fr, NEW G, NEW act2, Grown(F, act, fr, G, act2),
           NEW n \in Int, NEW n2 \in Int, act2 = act => n <= n2,
           NEW i, ~DeadIn(fr, i), NEW gone, Stays(F, act, n, gone, i)
    PROVE  Stays(G, act2, n2, gone, i)
<1>0. PICK h \in DOMAIN F : \E j \in DOMAIN F[h] : h # gone /\ Survives(F, act, n, i, h, j)
  BY DEF Stays
<1>1. PICK j \in DOMAIN F[h] : h # gone /\ Survives(F, act, n, i, h, j)
  BY <1>0
<1>2. h \in DOMAIN G /\ j \in DOMAIN G[h] /\ Survives(G, act2, n2, i, h, j)
  BY <1>1, GrownSurvives
<1> QED BY <1>1, <1>2 DEF Stays

(* A table of records in segments S is one of records in more segments.    *)
LEMMA TableMore ==
    ASSUME NEW S, NEW rs, Table(rs, S), NEW T, S \subseteq T
    PROVE  Table(rs, T)
  BY DEF Table

(* What a write does to the table and the log keeps them in agreement.     *)
LEMMA WriteKeeps ==
    ASSUME NEW F, NEW act, NEW fr, NEW G, NEW act2, Grown(F, act, fr, G, act2),
           NEW n, NEW rs, NEW c, NEW ak, Agree(F, act, n, rs, c, 0, ak),
           NEW r, Follow(r, fr, rs, act, DOMAIN F),
           NEW n2 \in 0 .. Len(G[act2]), act2 = act => n <= n2,
           NEW ak2, ak2 \subseteq ak, \A i \in ak2 : ~IsVersioned(i) => i \in LiveIds(r)
    PROVE  Agree(G, act2, n2, r, c, 0, ak2)
<1>1. LogFiles(G, act2) /\ GrownHas(F, act, fr, G)
  BY GrownIs
<1>2. /\ n \in 0 .. Len(F[act]) /\ (c # NoCkpt => Fits(c, F, act, n, 0))
      /\ Logged(rs, F) /\ LogFiles(F, act)
      /\ \A i \in LiveIds(rs) : Resumes(F, act, Len(F[act]), c, i)
      /\ \A i \in ak : ~IsVersioned(i) => Stays(F, act, n, 0, i) /\ Resumes(F, act, n, c, i)
      /\ \A i \in ak : ~IsVersioned(i) => i \in LiveIds(rs)
  BY DEF Agree
<1>3. /\ Len(F[act]) \in Nat /\ n \in Int /\ n2 \in Int /\ n <= Len(F[act]) /\ act \in Nat
      /\ act2 \in {act, act + 1} /\ DOMAIN F \subseteq DOMAIN G
  BY <1>1, <1>2 DEF GrownHas, Grown
<1>4. c # NoCkpt => Fits(c, G, act2, n2, 0)
  BY <1>2, <1>3, GrownFits
<1>5. Table(r, DOMAIN G)
  BY <1>3, TableMore DEF Follow
<1>6. ASSUME NEW i \in LiveIds(rs) \cap LiveIds(r) PROVE ~DeadIn(fr, i)
  BY DEF Follow
<1>7. ASSUME NEW s \in LiveRows(r)
      PROVE  \/ s \in LiveRows(rs) /\ rs[s].id = r[s].id /\ rs[s].seg = r[s].seg
             \/ /\ r[s].seg = act
                /\ \E j \in DOMAIN fr : /\ fr[j].op = "put" /\ fr[j].id = r[s].id
                                        /\ \A k \in DOMAIN fr : fr[k].op = "dead" /\ fr[k].id = r[s].id => k <= j
  BY DEF Follow
<1>8. \A s \in LiveRows(r) : r[s].id \in LiveIds(r)
  BY DEF LiveIds
<1>9. \A s \in LiveRows(rs) : rs[s].id \in LiveIds(rs)
  BY DEF LiveIds
<1>10. Logged(r, G)
  <2> SUFFICES ASSUME NEW s \in LiveRows(r)
               PROVE  \E j \in DOMAIN G[r[s].seg] :
                        Has(G, "put", r[s].id, r[s].seg, j) /\ Clear(G, r[s].id, r[s].seg, j)
    BY DEF Logged
  <2>1. CASE s \in LiveRows(rs) /\ rs[s].id = r[s].id /\ rs[s].seg = r[s].seg
    <3>1. PICK j \in DOMAIN F[r[s].seg] :
                Has(F, "put", r[s].id, r[s].seg, j) /\ Clear(F, r[s].id, r[s].seg, j)
      BY <2>1, <1>2 DEF Logged
    <3>2. ~DeadIn(fr, r[s].id)
      BY <2>1, <1>6, <1>8, <1>9
    <3>3. Has(G, "put", r[s].id, r[s].seg, j)
      BY <3>1, <1>1 DEF GrownHas
    <3>4. Clear(G, r[s].id, r[s].seg, j)
      BY <3>1, <3>2, GrownClear
    <3> QED BY <3>3, <3>4 DEF Has
  <2>2. ASSUME r[s].seg = act, NEW k \in DOMAIN fr, fr[k].op = "put", fr[k].id = r[s].id,
               \A m \in DOMAIN fr : fr[m].op = "dead" /\ fr[m].id = r[s].id => m <= k
        PROVE  \E j \in DOMAIN G[r[s].seg] :
                   Has(G, "put", r[s].id, r[s].seg, j) /\ Clear(G, r[s].id, r[s].seg, j)
    <3>1. PICK i : i = r[s].id
      OBVIOUS
    <3>2. /\ Len(F[act]) + k \in DOMAIN G[act]
          /\ Has(G, "put", i, act, Len(F[act]) + k) /\ Clear(G, i, act, Len(F[act]) + k)
      BY <3>1, <2>2, GrownPut
    <3> QED BY <3>1, <3>2, <2>2
  <2> QED BY <2>1, <2>2, <1>7
<1>11. Len(G[act2]) \in Nat
  <2>1. G[act2] \in Seq(Frames)
    BY <1>1 DEF LogFiles
  <2> QED BY <2>1
<1>12. act2 = act => Len(F[act]) <= Len(G[act2])
  BY <1>1 DEF GrownHas
<1>13. ASSUME NEW i \in LiveIds(r) PROVE Resumes(G, act2, Len(G[act2]), c, i)
  <2>1. CASE i \in LiveIds(rs)
    <3>1. Resumes(F, act, Len(F[act]), c, i) /\ ~DeadIn(fr, i)
      BY <2>1, <1>2, <1>6
    <3>2. Len(F[act]) \in Int /\ Len(G[act2]) \in Int
      BY <1>3, <1>11
    <3> QED BY <3>1, <3>2, <1>12, GrownResumes
  <2>2. CASE i \notin LiveIds(rs) /\ c # NoCkpt
    <3>1. PICK s \in LiveRows(r) : r[s].id = i
      BY DEF LiveIds
    <3>2. PICK k \in DOMAIN fr :
                /\ fr[k].op = "put" /\ fr[k].id = i
                /\ \A m \in DOMAIN fr : fr[m].op = "dead" /\ fr[m].id = i => m <= k
      BY <2>2, <3>1, <1>7, <1>9
    <3>3. /\ act \in DOMAIN G /\ Len(F[act]) + k \in DOMAIN G[act]
          /\ Has(G, "put", i, act, Len(F[act]) + k) /\ Clear(G, i, act, Len(F[act]) + k)
      BY <3>2, GrownPut
    <3>4. k \in Nat /\ k > 0
      BY <1>1 DEF GrownHas
    <3>5. G[act] \in Seq(Frames)
      BY <1>1, <3>3 DEF LogFiles
    <3>6. act = act2 => Len(F[act]) + k <= Len(G[act2])
      BY <3>3, <3>5
    <3>7. Survives(G, act2, Len(G[act2]), i, act, Len(F[act]) + k)
      BY <3>3, <3>6 DEF Survives
    <3>8. PICK a \in 1 .. act, b \in Nat : a = c.at /\ b = c.len /\ (a = act => b <= n)
      BY <2>2, <1>2 DEF Fits, LogFiles
    <3>9. ~Before(act, Len(F[act]) + k, c.at, c.len)
      BY <3>4, <3>8, <1>3 DEF Before
    <3> QED BY <3>3, <3>7, <3>9 DEF Resumes
  <2> QED BY <2>1, <2>2 DEF Resumes
<1>14. ASSUME NEW i \in ak2, ~IsVersioned(i)
       PROVE  i \in LiveIds(r) /\ Stays(G, act2, n2, 0, i) /\ Resumes(G, act2, n2, c, i)
  <2>1. i \in LiveIds(r) /\ i \in LiveIds(rs) /\ Stays(F, act, n, 0, i) /\ Resumes(F, act, n, c, i)
    BY <1>2, <1>14
  <2>2. ~DeadIn(fr, i)
    BY <2>1, <1>6
  <2>3. Stays(G, act2, n2, 0, i)
    BY <2>1, <2>2, <1>3, GrownStays
  <2>4. Resumes(G, act2, n2, c, i)
    BY <2>1, <2>2, <1>3, GrownResumes
  <2> QED BY <2>1, <2>3, <2>4
<1> QED BY <1>1, <1>4, <1>5, <1>10, <1>13, <1>14 DEF Agree

(* Once everything is durable, every live record may be answered for.      *)
LEMMA Answered ==
    ASSUME NEW F, NEW act, NEW n, n = Len(F[act]), NEW rs, NEW c, NEW gone, NEW ak,
           Agree(F, act, n, rs, c, gone, ak), \A s \in LiveRows(rs) : rs[s].seg # gone,
           NEW ak2, \A i \in ak2 : ~IsVersioned(i) => i \in LiveIds(rs)
    PROVE  Agree(F, act, n, rs, c, gone, ak2)
<1>1. ASSUME NEW i \in LiveIds(rs) PROVE Stays(F, act, n, gone, i)
  <2>1. PICK s \in LiveRows(rs) : rs[s].id = i
    BY DEF LiveIds
  <2>2. PICK j \in DOMAIN F[rs[s].seg] : Has(F, "put", i, rs[s].seg, j) /\ Clear(F, i, rs[s].seg, j)
    BY <2>1 DEF Agree, Logged
  <2>3. PICK h : h = rs[s].seg
    OBVIOUS
  <2>4. h \in DOMAIN F /\ F[h] \in Seq(Frames) /\ j \in DOMAIN F[h] /\ h # gone
    BY <2>2, <2>3 DEF Has, Agree, LogFiles
  <2>5. h = act => j <= n
    BY <2>4
  <2>6. Survives(F, act, n, i, h, j)
    BY <2>2, <2>3, <2>5 DEF Survives
  <2> QED BY <2>4, <2>6 DEF Stays
<1>2. ASSUME NEW i \in LiveIds(rs) PROVE Resumes(F, act, n, c, i)
  BY DEF Agree
<1>3. ASSUME NEW i \in ak2, ~IsVersioned(i)
      PROVE  i \in LiveIds(rs) /\ Stays(F, act, n, gone, i) /\ Resumes(F, act, n, c, i)
  BY <1>1, <1>2, <1>3
<1> QED BY <1>3 DEF Agree

(* Nothing points at the segment `del` names, if it names one.             *)
Emptied(F, act, rs, gone, del) ==
    /\ (del = {} /\ gone = 0) \/ (del = {gone} /\ gone \in DOMAIN F \ {act})
    /\ \A s \in DOMAIN rs : rs[s].seg \notin del

(* Checkpoint d is of table rs at the end of the log.                      *)
TakenAtEnd(d, F, act, n, rs, del) == n = Len(F[act]) /\ d = Checkpoint(rs, DOMAIN F, act, n, del)

(* A checkpoint taken when the whole log is durable fits it, and every     *)
(* live record resumes from it.                                            *)
LEMMA FreshCheckpoint ==
    ASSUME NEW F, NEW act, NEW n, NEW rs, NEW c, NEW ak, Agree(F, act, n, rs, c, 0, ak),
           NEW gone, NEW del, Emptied(F, act, rs, gone, del), NEW d, TakenAtEnd(d, F, act, n, rs, del)
    PROVE  Agree(F, act, n, rs, d, gone, {}) /\ d # NoCkpt /\ d.at = act /\ d.deleted = del
<1>1. d = Checkpoint(rs, DOMAIN F, act, n, del) /\ n = Len(F[act])
  BY DEF TakenAtEnd
<1>2. LogFiles(F, act) /\ Table(rs, DOMAIN F) /\ Logged(rs, F) /\ n \in 0 .. Len(F[act])
  BY DEF Agree
<1>3. act \in DOMAIN F /\ DOMAIN F \subseteq 1 .. act /\ act \in Nat /\ \A h \in DOMAIN F : F[h] \in Seq(Frames)
  BY <1>2 DEF LogFiles
<1>4. /\ d.at = act /\ d.len = n /\ d.rows = rs /\ d.deleted = del
      /\ d.listed = {sid \in DOMAIN F \ del : sid <= act}
  BY <1>1 DEF Checkpoint
<1>5. d # NoCkpt
  <2>1. d.at # 0
    BY <1>3, <1>4
  <2>2. NoCkpt.at = 0
    BY DEF NoCkpt
  <2> QED BY <2>1, <2>2
<1>6. d.listed = DOMAIN F \ del
  BY <1>3, <1>4
<1>7. Table(rs, d.listed)
  BY <1>2, <1>6 DEF Table, Emptied
<1>8. ASSUME NEW x \in DOMAIN F, NEW y \in DOMAIN F[x] PROVE Before(x, y, act, n)
  <2>1. x \in 1 .. act /\ F[x] \in Seq(Frames)
    BY <1>3
  <2>2. y \in 1 .. Len(F[x])
    BY <2>1
  <2> QED BY <2>1, <2>2, <1>1, <1>3 DEF Before
<1>9. LoggedTo(rs, F, act, n)
  <2> SUFFICES ASSUME NEW s \in LiveRows(rs)
               PROVE  \E j \in DOMAIN F[rs[s].seg] :
                        /\ Has(F, "put", rs[s].id, rs[s].seg, j)
                        /\ Before(rs[s].seg, j, act, n) /\ Quiet(F, rs[s].id, rs[s].seg, j, act, n)
    BY DEF LoggedTo
  <2>1. PICK j \in DOMAIN F[rs[s].seg] :
               Has(F, "put", rs[s].id, rs[s].seg, j) /\ Clear(F, rs[s].id, rs[s].seg, j)
    BY <1>2 DEF Logged
  <2>2. Before(rs[s].seg, j, act, n)
    BY <2>1, <1>8 DEF Has
  <2>3. Quiet(F, rs[s].id, rs[s].seg, j, act, n)
    BY <2>1 DEF Clear, Quiet
  <2> QED BY <2>1, <2>2, <2>3
<1>10. del \subseteq 1 .. act - 1 /\ del \cap DOMAIN F \subseteq {gone}
  <2>1. gone \in DOMAIN F \ {act} => gone \in 1 .. act - 1
    BY <1>3
  <2> QED BY <2>1 DEF Emptied
<1>11. Fits(d, F, act, n, gone)
  <2>1. d.at \in DOMAIN F /\ d.len \in 0 .. Len(F[d.at]) /\ (d.at = act => d.len <= n)
    BY <1>2, <1>3, <1>4
  <2>2. d.listed \cap d.deleted = {}
    BY <1>4, <1>6
  <2> QED BY <2>1, <2>2, <1>4, <1>7, <1>9, <1>10 DEF Fits
<1>12. ASSUME NEW i \in LiveIds(rs) PROVE Resumes(F, act, Len(F[act]), d, i)
  <2>1. Clear(F, i, act, n)
    BY <1>8 DEF Clear
  <2> QED BY <2>1, <1>1, <1>4 DEF Resumes
<1>13. Agree(F, act, n, rs, d, gone, {})
  BY <1>2, <1>11, <1>12 DEF Agree
<1> QED BY <1>4, <1>5, <1>13

-----------------------------------------------------------------------------
(* The log shrinks: a segment is removed, the active one is cut.           *)

(* Files G are those of F but the ones in out, the active one cut to n     *)
(* frames.                                                                 *)
Shrunk(F, act, n, out, G) ==
    /\ LogFiles(F, act) /\ n \in 0 .. Len(F[act]) /\ act \notin out
    /\ DOMAIN G = DOMAIN F \ out /\ G[act] = SubSeq(F[act], 1, n)
    /\ \A h \in DOMAIN G : h # act => G[h] = F[h]

(* What G has is what F has, but for what was taken out.                   *)
ShrunkHas(F, act, n, out, G) ==
    /\ LogFiles(G, act) /\ Len(G[act]) = n
    /\ \A op, i, h, j : Has(G, op, i, h, j) <=> Has(F, op, i, h, j) /\ h \notin out /\ (h = act => j <= n)

(* What is left in files that have shrunk is where it was.                 *)
LEMMA ShrunkIs ==
    ASSUME NEW F, NEW act, NEW n, NEW out, NEW G, Shrunk(F, act, n, out, G)
    PROVE  ShrunkHas(F, act, n, out, G)
<1>1. /\ act \in DOMAIN F /\ DOMAIN F \subseteq 1 .. act /\ act \in Nat
      /\ \A sid \in DOMAIN F : F[sid] \in Seq(Frames)
      /\ n \in 0 .. Len(F[act]) /\ act \notin out
      /\ DOMAIN G = DOMAIN F \ out /\ G[act] = SubSeq(F[act], 1, n)
      /\ \A h \in DOMAIN G : h # act => G[h] = F[h]
  BY DEF Shrunk, LogFiles
<1>2. PICK q \in Seq(Frames) : q = F[act]
  BY <1>1
<1>3. PICK p : p = SubSeq(q, 1, n)
  OBVIOUS
<1>4. /\ p \in Seq(Frames) /\ Len(p) = n /\ DOMAIN p = 1 .. n /\ DOMAIN q = 1 .. Len(q)
      /\ \A k \in 1 .. n : p[k] = q[k]
  <2>1. Len(q) \in Nat /\ n \in 0 .. Len(q) /\ \A k \in 1 .. n : q[k] \in Frames
    BY <1>1, <1>2
  <2>2. p \in Seq(Frames) /\ Len(p) = n
    BY <2>1, <1>3, SubSeqProperties
  <2> QED BY <2>1, <2>2, <1>3
<1>5. G[act] = p
  BY <1>1, <1>2, <1>3
<1>6. LogFiles(G, act)
  BY <1>1, <1>4, <1>5 DEF LogFiles
<1>7. ASSUME NEW op, NEW i, NEW h, NEW j
      PROVE  Has(G, op, i, h, j) <=> Has(F, op, i, h, j) /\ h \notin out /\ (h = act => j <= n)
  <2>1. CASE h # act
    BY <2>1, <1>1 DEF Has
  <2>2. CASE h = act
    <3>1. j \in 1 .. n <=> j \in 1 .. Len(q) /\ j <= n
      BY <1>1, <1>2
    <3> QED BY <3>1, <2>2, <1>1, <1>2, <1>4, <1>5 DEF Has
  <2> QED BY <2>1, <2>2
<1> QED BY <1>4, <1>5, <1>6, <1>7 DEF ShrunkHas

(* What it leaves survives it, and no death is new.                        *)
LEMMA ShrunkKeeps ==
    ASSUME NEW F, NEW act, NEW n, NEW out, NEW G, Shrunk(F, act, n, out, G), NEW i, NEW h, NEW j
    PROVE  /\ Clear(F, i, h, j) => Clear(G, i, h, j)
           /\ \A g, k : Quiet(F, i, h, j, g, k) => Quiet(G, i, h, j, g, k)
           /\ \A m : Survives(F, act, m, i, h, j) /\ h \notin out /\ (h = act => j <= n) =>
                h \in DOMAIN G /\ j \in DOMAIN G[h] /\ Survives(G, act, n, i, h, j)
<1>1. \A op, x, y, z : Has(G, op, x, y, z) <=> Has(F, op, x, y, z) /\ y \notin out /\ (y = act => z <= n)
  BY ShrunkIs DEF ShrunkHas
<1>2. ASSUME Clear(F, i, h, j) PROVE Clear(G, i, h, j)
  <2>1. \A x, y : Has(G, "dead", i, x, y) => Has(F, "dead", i, x, y)
    BY <1>1
  <2>2. \A x, y : Has(F, "dead", i, x, y) => Before(x, y, h, j)
    BY <1>2 DEF Clear, Has
  <2> QED BY <2>1, <2>2 DEF Clear
<1>3. ASSUME NEW g, NEW k, Quiet(F, i, h, j, g, k) PROVE Quiet(G, i, h, j, g, k)
  BY <1>1, <1>3 DEF Quiet, Has
<1>4. ASSUME NEW m, Survives(F, act, m, i, h, j), h \notin out, h = act => j <= n
      PROVE  h \in DOMAIN G /\ j \in DOMAIN G[h] /\ Survives(G, act, n, i, h, j)
  <2>1. Has(G, "put", i, h, j) /\ Clear(G, i, h, j)
    BY <1>1, <1>2, <1>4 DEF Survives
  <2> QED BY <2>1, <1>4 DEF Survives, Has
<1> QED BY <1>2, <1>3, <1>4

(* A checkpoint still fits when the log loses what the checkpoint does not *)
(* need: segments it has marked deleted, and frames behind the durable     *)
(* ones.                                                                   *)
LEMMA ShrunkFits ==
    ASSUME NEW F, NEW act, NEW n, NEW out, NEW G, Shrunk(F, act, n, out, G),
           NEW c, NEW m, NEW gone, Fits(c, F, act, m, gone),
           out \subseteq c.deleted, c.deleted \cap DOMAIN F \subseteq out, c.at \notin out,
           c.at = act => c.len <= n
    PROVE  Fits(c, G, act, n, 0)
<1>1. /\ c.at \in DOMAIN F /\ c.len \in 0 .. Len(F[c.at])
      /\ Table(c.rows, c.listed) /\ LoggedTo(c.rows, F, c.at, c.len)
      /\ c.listed \cap c.deleted = {} /\ c.deleted \subseteq 1 .. act - 1
  BY DEF Fits
<1>2. /\ LogFiles(G, act) /\ Len(G[act]) = n
      /\ \A op, x, y, z : Has(G, op, x, y, z) <=> Has(F, op, x, y, z) /\ y \notin out /\ (y = act => z <= n)
  BY ShrunkIs DEF ShrunkHas
<1>3. /\ act \in Nat /\ DOMAIN F \subseteq 1 .. act /\ n \in 0 .. Len(F[act])
      /\ DOMAIN G = DOMAIN F \ out /\ \A h \in DOMAIN G : h # act => G[h] = F[h]
  BY DEF Shrunk, LogFiles
<1>4. c.at \in DOMAIN G /\ c.deleted \cap DOMAIN G = {}
  BY <1>1, <1>3
<1>5. c.len \in 0 .. Len(G[c.at])
  <2>1. CASE c.at = act
    <3>1. PICK b \in 0 .. Len(F[c.at]) : b = c.len
      BY <1>1
    <3>2. b \in Nat /\ b <= n /\ n \in Nat
      BY <3>1, <2>1, <1>3
    <3> QED BY <3>1, <3>2, <2>1, <1>2
  <2>2. CASE c.at # act
    BY <2>2, <1>1, <1>3, <1>4
  <2> QED BY <2>1, <2>2
<1>6. LoggedTo(c.rows, G, c.at, c.len)
  <2> SUFFICES ASSUME NEW s \in LiveRows(c.rows)
               PROVE  \E j \in DOMAIN G[c.rows[s].seg] :
                        /\ Has(G, "put", c.rows[s].id, c.rows[s].seg, j)
                        /\ Before(c.rows[s].seg, j, c.at, c.len) /\ Quiet(G, c.rows[s].id, c.rows[s].seg, j, c.at, c.len)
    BY DEF LoggedTo
  <2>1. PICK h, i : h = c.rows[s].seg /\ i = c.rows[s].id
    OBVIOUS
  <2>2. PICK j \in DOMAIN F[h] : Has(F, "put", i, h, j) /\ Before(h, j, c.at, c.len) /\ Quiet(F, i, h, j, c.at, c.len)
    BY <2>1, <1>1 DEF LoggedTo
  <2>3. h \in c.listed
    BY <2>1, <1>1 DEF Table, LiveRows
  <2>4. h \notin out
    BY <2>3, <1>1
  <2>5. h = act => j <= n
    <3>1. PICK a \in 1 .. act, b \in Nat : a = c.at /\ b = c.len /\ (a = act => b <= n)
      <4>1. c.len \in Nat
        BY <1>1
      <4>2. c.at \in 1 .. act
        BY <1>1, <1>3
      <4> QED BY <4>1, <4>2
    <3>2. Before(h, j, a, b)
      BY <2>2, <3>1
    <3>3. h = act => j \in Nat
      <4>1. h = act => F[h] \in Seq(Frames)
        BY DEF Shrunk, LogFiles
      <4> QED BY <4>1, <2>2
    <3> QED BY <3>1, <3>2, <3>3, <1>3 DEF Before
  <2>6. Has(G, "put", i, h, j)
    BY <2>2, <2>4, <2>5, <1>2
  <2>7. Quiet(G, i, h, j, c.at, c.len)
    BY <2>2, ShrunkKeeps
  <2> QED BY <2>1, <2>2, <2>6, <2>7 DEF Has
<1> QED BY <1>1, <1>4, <1>5, <1>6 DEF Fits

(* The segment a compaction emptied is removed.                            *)
LEMMA SegmentRemoved ==
    ASSUME NEW F, NEW act, NEW n, NEW rs, NEW c, NEW gone, NEW ak, Agree(F, act, n, rs, c, gone, ak),
           c # NoCkpt, c.at = act, gone \in c.deleted, gone \in DOMAIN F \ {act},
           \A s \in DOMAIN rs : rs[s].seg # gone,
           NEW G, Shrunk(F, act, Len(F[act]), {gone}, G), G[act] = F[act]
    PROVE  Agree(G, act, n, rs, c, 0, ak)
<1>1. /\ LogFiles(F, act) /\ n \in 0 .. Len(F[act]) /\ Fits(c, F, act, n, gone)
      /\ Table(rs, DOMAIN F) /\ Logged(rs, F)
      /\ \A i \in LiveIds(rs) : Resumes(F, act, Len(F[act]), c, i)
      /\ \A i \in ak : ~IsVersioned(i) =>
            i \in LiveIds(rs) /\ Stays(F, act, n, gone, i) /\ Resumes(F, act, n, c, i)
  BY DEF Agree
<1>2. /\ LogFiles(G, act)
      /\ \A op, x, y, z : Has(G, op, x, y, z) <=>
            Has(F, op, x, y, z) /\ y \notin {gone} /\ (y = act => z <= Len(F[act]))
  BY ShrunkIs DEF ShrunkHas
<1>3. DOMAIN G = DOMAIN F \ {gone} /\ act \in Nat /\ DOMAIN F \subseteq 1 .. act /\ F[act] \in Seq(Frames)
  BY DEF Shrunk, LogFiles
<1>4. \A h \in DOMAIN F \ {gone} : G[h] = F[h]
  BY <1>3 DEF Shrunk
<1>5. \A op, x, y, z : Has(G, op, x, y, z) <=> Has(F, op, x, y, z) /\ y # gone
  BY <1>3, <1>4 DEF Has
<1>6. ASSUME NEW i, NEW h, NEW j, Clear(F, i, h, j) PROVE Clear(G, i, h, j)
  BY <1>6, ShrunkKeeps
<1>7. Fits(c, G, act, n, 0)
  <2>1. /\ c.at \in DOMAIN F /\ c.len \in 0 .. Len(F[c.at]) /\ (c.at = act => c.len <= n)
        /\ c.deleted \cap DOMAIN F \subseteq {gone} /\ c.deleted \subseteq 1 .. act - 1
    BY <1>1 DEF Fits
  <2>2. c.at \notin {gone} /\ {gone} \subseteq c.deleted
    OBVIOUS
  <2>3. c.at = act => c.len <= Len(F[act])
    BY <2>1
  <2>4. Fits(c, G, act, Len(F[act]), 0)
    BY <1>1, <2>1, <2>2, <2>3, ShrunkFits
  <2> QED BY <2>1, <2>4 DEF Fits
<1>8. ASSUME NEW m, NEW i, NEW h \in DOMAIN F, NEW j \in DOMAIN F[h], Survives(F, act, m, i, h, j), h # gone
      PROVE  h \in DOMAIN G /\ j \in DOMAIN G[h] /\ Survives(G, act, m, i, h, j)
  BY <1>8, <1>3, <1>4, <1>5, <1>6 DEF Survives
<1>9. ASSUME NEW m, NEW i, Resumes(F, act, m, c, i) PROVE Resumes(G, act, m, c, i)
  <2>1. CASE i \in LiveIds(c.rows) /\ Clear(F, i, c.at, c.len)
    BY <2>1, <1>6 DEF Resumes
  <2>2. ASSUME NEW h \in DOMAIN F, NEW j \in DOMAIN F[h], ~Before(h, j, c.at, c.len), Survives(F, act, m, i, h, j)
        PROVE  Resumes(G, act, m, c, i)
    <3>1. h # gone
      BY <2>2, <1>3 DEF Before
    <3>2. h \in DOMAIN G /\ j \in DOMAIN G[h] /\ Survives(G, act, m, i, h, j)
      BY <3>1, <2>2, <1>8
    <3> QED BY <3>2, <2>2 DEF Resumes
  <2> QED BY <2>1, <2>2, <1>9 DEF Resumes
<1>10. ASSUME NEW i, Stays(F, act, n, gone, i) PROVE Stays(G, act, n, 0, i)
  <2>1. PICK h \in DOMAIN F : \E j \in DOMAIN F[h] : h # gone /\ Survives(F, act, n, i, h, j)
    BY <1>10 DEF Stays
  <2>2. PICK j \in DOMAIN F[h] : h # gone /\ Survives(F, act, n, i, h, j)
    BY <2>1
  <2>3. h \in DOMAIN G /\ j \in DOMAIN G[h] /\ Survives(G, act, n, i, h, j) /\ h # 0
    BY <2>2, <1>3, <1>8
  <2> QED BY <2>3 DEF Stays
<1>11. Table(rs, DOMAIN G)
  BY <1>1, <1>3 DEF Table
<1>12. Logged(rs, G)
  <2> SUFFICES ASSUME NEW s \in LiveRows(rs)
               PROVE  \E j \in DOMAIN G[rs[s].seg] :
                        Has(G, "put", rs[s].id, rs[s].seg, j) /\ Clear(G, rs[s].id, rs[s].seg, j)
    BY DEF Logged
  <2>1. PICK j \in DOMAIN F[rs[s].seg] :
               Has(F, "put", rs[s].id, rs[s].seg, j) /\ Clear(F, rs[s].id, rs[s].seg, j)
    BY <1>1 DEF Logged
  <2>2. rs[s].seg # gone
    BY DEF LiveRows
  <2>3. Has(G, "put", rs[s].id, rs[s].seg, j) /\ Clear(G, rs[s].id, rs[s].seg, j)
    BY <2>1, <2>2, <1>5, <1>6
  <2> QED BY <2>3 DEF Has
<1>13. G[act] = F[act]
  OBVIOUS
<1> QED BY <1>1, <1>2, <1>7, <1>9, <1>10, <1>11, <1>12, <1>13 DEF Agree

-----------------------------------------------------------------------------
(* Restarts.                                                               *)

(* LogReplayed for the segment files.                                      *)
LEMMA ReplayedFiles ==
    ASSUME NEW G, NEW act, LogFiles(G, act), NEW rs, Table(rs, DOMAIN G),
           NEW a \in Nat, NEW b \in Nat, LoggedTo(rs, G, a, b),
           (a = 0 /\ b = 0) \/ (a \in DOMAIN G /\ b <= Len(G[a]))
    PROVE  ReplayOf(ReplayFrom(rs, G, a, b), G, LiveIds(rs), a, b)
<1>1. Files(G) /\ act \in Nat /\ DOMAIN G \subseteq 0 .. act
  <2>1. DOMAIN G \subseteq 1 .. act /\ act \in Nat /\ \A h \in DOMAIN G : G[h] \in Seq(Frames)
    BY DEF LogFiles
  <2> QED BY <2>1 DEF Files
<1> QED BY <1>1, LogReplayed

(* From the checkpoint: what it lists is there, and what it has deleted    *)
(* goes.                                                                   *)
LEMMA FromCheckpoint ==
    ASSUME NEW F, NEW act, NEW m, NEW rs, NEW c, NEW gone, NEW ak, Agree(F, act, m, rs, c, gone, ak),
           c # NoCkpt, c.at # gone, gone # 0 => c.at = act, c.listed \subseteq DOMAIN F,
           NEW n \in m .. Len(F[act]), NEW G, Shrunk(F, act, n, c.deleted, G)
    PROVE  Agree(G, act, n, ReplayFrom(c.rows, G, c.at, c.len), c, 0, ak)
<1>1. /\ LogFiles(F, act) /\ m \in 0 .. Len(F[act]) /\ Fits(c, F, act, m, gone)
      /\ \A i \in ak : ~IsVersioned(i) => Stays(F, act, m, gone, i) /\ Resumes(F, act, m, c, i)
  BY DEF Agree
<1>2. LogFiles(G, act) /\ Len(G[act]) = n
  BY ShrunkIs DEF ShrunkHas
<1>3. DOMAIN G = DOMAIN F \ c.deleted /\ act \in Nat /\ DOMAIN F \subseteq 1 .. act /\ m \in Nat /\ n \in Nat /\ m <= n
  BY <1>1 DEF Shrunk, LogFiles
<1>4. /\ c.at \in DOMAIN F /\ c.len \in 0 .. Len(F[c.at]) /\ (c.at = act => c.len <= m)
      /\ Table(c.rows, c.listed) /\ c.listed \cap c.deleted = {} /\ c.deleted \cap DOMAIN F \subseteq {gone}
  BY <1>1 DEF Fits
<1>5. Fits(c, G, act, n, 0)
  <2>1. c.at = act => c.len <= n
    <3>1. PICK b \in Nat : b = c.len
      BY <1>4
    <3> QED BY <3>1, <1>3, <1>4
  <2>2. c.deleted \cap DOMAIN F \subseteq c.deleted /\ c.at \notin c.deleted
    BY <1>4
  <2> QED BY <2>1, <2>2, <1>1, ShrunkFits
<1>6. PICK a, b, r : a = c.at /\ b = c.len /\ r = ReplayFrom(c.rows, G, c.at, c.len)
  OBVIOUS
<1>7. a \in DOMAIN G /\ a \in 1 .. act /\ b \in 0 .. Len(G[a]) /\ LoggedTo(c.rows, G, a, b)
  BY <1>2, <1>5, <1>6 DEF Fits, LogFiles
<1>8. ReplayOf(r, G, LiveIds(c.rows), a, b)
  <2>1. a \in Nat /\ b \in Nat /\ b <= Len(G[a])
    <3>1. G[a] \in Seq(Frames)
      BY <1>2, <1>7 DEF LogFiles
    <3>2. Len(G[a]) \in Nat
      BY <3>1
    <3> QED BY <3>2, <1>7
  <2>2. Table(c.rows, DOMAIN G)
    <3>1. c.listed \subseteq DOMAIN G
      BY <1>3, <1>4
    <3> QED BY <3>1, <1>4, TableMore
  <2>3. ReplayOf(ReplayFrom(c.rows, G, a, b), G, LiveIds(c.rows), a, b)
    BY <2>1, <2>2, <1>2, <1>7, ReplayedFiles
  <2> QED BY <2>3, <1>6
<1>9. ASSUME NEW i
      PROVE  i \in LiveIds(r) <=>
                \/ i \in LiveIds(c.rows) /\ Clear(G, i, a, b)
                \/ \E h \in DOMAIN G : \E j \in DOMAIN G[h] :
                      Has(G, "put", i, h, j) /\ ~Before(h, j, a, b) /\ Clear(G, i, h, j)
  BY <1>8 DEF ReplayOf
<1>10. ASSUME NEW h \in DOMAIN G, NEW j \in DOMAIN G[h] PROVE h = act => j <= n
  <2>1. h = act => G[h] \in Seq(Frames)
    BY <1>2 DEF LogFiles
  <2> QED BY <2>1, <1>2
<1>11. ASSUME NEW i \in LiveIds(r) PROVE Resumes(G, act, n, c, i)
  <2>1. CASE i \in LiveIds(c.rows) /\ Clear(G, i, a, b)
    BY <2>1, <1>6 DEF Resumes
  <2>2. ASSUME NEW h \in DOMAIN G, NEW j \in DOMAIN G[h],
               Has(G, "put", i, h, j), ~Before(h, j, a, b), Clear(G, i, h, j)
        PROVE  Resumes(G, act, n, c, i)
    <3>1. Survives(G, act, n, i, h, j)
      BY <2>2, <1>10 DEF Survives
    <3> QED BY <3>1, <2>2, <1>6 DEF Resumes
  <2> QED BY <2>1, <2>2, <1>9
<1>12. ASSUME NEW i, Resumes(F, act, m, c, i) PROVE i \in LiveIds(r)
  <2>1. CASE i \in LiveIds(c.rows) /\ Clear(F, i, c.at, c.len)
    <3>1. Clear(G, i, a, b)
      BY <2>1, <1>6, ShrunkKeeps
    <3> QED BY <3>1, <2>1, <1>9
  <2>2. ASSUME NEW h \in DOMAIN F, NEW j \in DOMAIN F[h], ~Before(h, j, c.at, c.len), Survives(F, act, m, i, h, j)
        PROVE  i \in LiveIds(r)
    <3>1. h # gone
      BY <2>2, <1>3, <1>6, <1>7 DEF Before
    <3>2. h \notin c.deleted
      BY <3>1, <1>4
    <3>3. h = act => j \in Nat
      <4>1. h = act => F[h] \in Seq(Frames)
        BY <1>1 DEF LogFiles
      <4> QED BY <4>1
    <3>4. h = act => j <= n
      BY <3>3, <2>2, <1>3 DEF Survives
    <3>5. h \in DOMAIN G /\ j \in DOMAIN G[h] /\ Survives(G, act, n, i, h, j)
      BY <2>2, <3>2, <3>4, ShrunkKeeps
    <3> QED BY <3>5, <2>2, <1>6, <1>9 DEF Survives
  <2> QED BY <2>1, <2>2, <1>12 DEF Resumes
<1>13. ASSUME NEW i, Stays(F, act, m, gone, i) PROVE Stays(G, act, n, 0, i)
  <2>1. PICK h \in DOMAIN F : \E j \in DOMAIN F[h] : h # gone /\ Survives(F, act, m, i, h, j)
    BY <1>13 DEF Stays
  <2>2. PICK j \in DOMAIN F[h] : h # gone /\ Survives(F, act, m, i, h, j)
    BY <2>1
  <2>3. h = act => j \in Nat
    <3>1. h = act => F[h] \in Seq(Frames)
      BY <1>1 DEF LogFiles
    <3> QED BY <3>1, <2>2
  <2>4. h = act => j <= n
    BY <2>2, <2>3, <1>3 DEF Survives
  <2>5. h \notin c.deleted
    BY <2>2, <1>4
  <2>6. h \in DOMAIN G /\ j \in DOMAIN G[h] /\ Survives(G, act, n, i, h, j)
    BY <2>2, <2>4, <2>5, ShrunkKeeps
  <2>7. h # 0
    BY <1>3
  <2> QED BY <2>6, <2>7 DEF Stays
<1>14. \A i \in LiveIds(r) : Resumes(G, act, Len(G[act]), c, i)
  BY <1>2, <1>11
<1>15. \A i \in ak : ~IsVersioned(i) => i \in LiveIds(r) /\ Stays(G, act, n, 0, i) /\ Resumes(G, act, n, c, i)
  BY <1>1, <1>11, <1>12, <1>13
<1>16. n \in 0 .. Len(G[act])
  BY <1>2, <1>3
<1>17. Table(r, DOMAIN G) /\ Logged(r, G)
  BY <1>8 DEF ReplayOf
<1>18. Agree(G, act, n, r, c, 0, ak)
  BY <1>2, <1>5, <1>14, <1>15, <1>16, <1>17 DEF Agree
<1> QED BY <1>6, <1>18

(* The segments of files G up to p; and the place after which a replay     *)
(* last grew: behind p, at the beginning of segment nx.                    *)
UpToSeg(G, p) == Restrict(G, {x \in DOMAIN G : x <= p})
ReplayedTo(c, G, p, nx) ==
    /\ p \in DOMAIN G /\ nx \in DOMAIN G /\ nx > p /\ \A x \in DOMAIN G : x > p => nx <= x
    /\ c = Checkpoint(ReplayAll(UpToSeg(G, p)), DOMAIN G, nx, 0, {})

(* A replay of all there is.                                               *)
LEMMA AllReplayed ==
    ASSUME NEW G, NEW act, LogFiles(G, act)
    PROVE  ReplayOf(ReplayAll(G), G, {}, 0, 0)
<1>1. Table(<<>>, DOMAIN G) /\ LoggedTo(<<>>, G, 0, 0) /\ LiveIds(<<>>) = {}
  BY DEF Table, LoggedTo, LiveRows, LiveIds
<1> QED BY <1>1, ReplayedFiles DEF ReplayAll

(* The checkpoint it leaves.                                               *)
LEMMA ReplayFits ==
    ASSUME NEW G, NEW act, LogFiles(G, act), NEW n, n = Len(G[act]),
           NEW c, NEW p, NEW nx, ReplayedTo(c, G, p, nx)
    PROVE  /\ Fits(c, G, act, n, 0)
           /\ \A i, h, j : Survives(G, act, n, i, h, j) => Resumes(G, act, n, c, i)
<1>1. /\ act \in DOMAIN G /\ DOMAIN G \subseteq 1 .. act /\ act \in Nat
      /\ \A x \in DOMAIN G : G[x] \in Seq(Frames)
  BY DEF LogFiles
<1>2. p \in DOMAIN G /\ nx \in DOMAIN G /\ nx > p /\ \A x \in DOMAIN G : x > p => nx <= x
  BY DEF ReplayedTo
<1>3. PICK E : E = UpToSeg(G, p)
  OBVIOUS
<1>4. DOMAIN E = {x \in DOMAIN G : x <= p} /\ \A x \in DOMAIN E : E[x] = G[x]
  BY <1>3 DEF UpToSeg, Restrict
<1>5. PICK t : t = ReplayAll(E)
  OBVIOUS
<1>6. Table(t, DOMAIN E) /\ Logged(t, E)
      /\ \A i : i \in LiveIds(t) <=>
            \E h \in DOMAIN E : \E j \in DOMAIN E[h] :
                Has(E, "put", i, h, j) /\ ~Before(h, j, 0, 0) /\ Clear(E, i, h, j)
  <2>1. LogFiles(E, p)
    BY <1>1, <1>2, <1>4 DEF LogFiles
  <2>2. ReplayOf(t, E, {}, 0, 0)
    BY <2>1, <1>5, AllReplayed
  <2> QED BY <2>2 DEF ReplayOf
<1>7. /\ c.at = nx /\ c.len = 0 /\ c.rows = t /\ c.deleted = {}
      /\ c.listed = {sid \in DOMAIN G \ {} : sid <= nx}
  BY <1>3, <1>5 DEF ReplayedTo, Checkpoint
<1>8. ASSUME NEW op, NEW i, NEW h, NEW j
      PROVE  Has(E, op, i, h, j) <=> Has(G, op, i, h, j) /\ h <= p
  BY <1>4 DEF Has
<1>9. ASSUME NEW x \in DOMAIN G, NEW y \in DOMAIN G[x]
      PROVE  x \in Nat /\ y \in Nat /\ y > 0 /\ p \in Nat /\ nx \in Nat
             /\ (x <= p <=> x < nx) /\ (Before(x, y, nx, 0) <=> x <= p)
  <2>1. x \in 1 .. act /\ p \in 1 .. act /\ nx \in 1 .. act /\ G[x] \in Seq(Frames)
    BY <1>1, <1>2
  <2>2. y \in 1 .. Len(G[x])
    BY <2>1
  <2> QED BY <2>1, <2>2, <1>1, <1>2 DEF Before
<1>10. Table(t, c.listed)
  <2>1. DOMAIN E \subseteq c.listed
    <3>1. \A x \in DOMAIN E : x \in 1 .. act /\ x <= p /\ p \in 1 .. act /\ nx \in 1 .. act
      BY <1>1, <1>2, <1>4
    <3>2. \A x \in DOMAIN E : x <= nx
      BY <3>1, <1>1, <1>2
    <3> QED BY <3>2, <1>4, <1>7
  <2> QED BY <2>1, <1>6, TableMore
<1>11. LoggedTo(t, G, nx, 0)
  <2> SUFFICES ASSUME NEW s \in LiveRows(t)
               PROVE  \E j \in DOMAIN G[t[s].seg] :
                        /\ Has(G, "put", t[s].id, t[s].seg, j)
                        /\ Before(t[s].seg, j, nx, 0) /\ Quiet(G, t[s].id, t[s].seg, j, nx, 0)
    BY DEF LoggedTo
  <2>1. PICK h, i : h = t[s].seg /\ i = t[s].id
    OBVIOUS
  <2>2. PICK j \in DOMAIN E[h] : Has(E, "put", i, h, j) /\ Clear(E, i, h, j)
    BY <2>1, <1>6 DEF Logged
  <2>3. Has(G, "put", i, h, j) /\ h <= p
    BY <2>2, <1>8
  <2>4. Before(h, j, nx, 0)
    BY <2>3, <1>9 DEF Has
  <2>5. ASSUME NEW x, NEW y, Has(G, "dead", i, x, y), Before(x, y, nx, 0) PROVE Before(x, y, h, j)
    <3>1. x <= p
      BY <2>5, <1>9 DEF Has
    <3>2. Has(E, "dead", i, x, y)
      BY <3>1, <2>5, <1>8
    <3> QED BY <3>2, <2>2 DEF Clear, Has
  <2>6. Quiet(G, i, h, j, nx, 0)
    BY <2>5 DEF Quiet
  <2> QED BY <2>1, <2>3, <2>4, <2>6 DEF Has
<1>12. Fits(c, G, act, n, 0)
  <2>1. G[act] \in Seq(Frames) /\ G[nx] \in Seq(Frames)
    BY <1>1, <1>2
  <2>2. n \in Nat /\ Len(G[nx]) \in Nat
    BY <2>1
  <2>3. c.at \in DOMAIN G /\ c.len \in 0 .. Len(G[c.at]) /\ (c.at = act => c.len <= n)
    BY <2>2, <1>2, <1>7
  <2> QED BY <2>3, <1>7, <1>10, <1>11 DEF Fits
<1>13. ASSUME NEW i, NEW h, NEW j, Survives(G, act, n, i, h, j) PROVE Resumes(G, act, n, c, i)
  <2>1. Has(G, "put", i, h, j) /\ Clear(G, i, h, j) /\ h \in DOMAIN G /\ j \in DOMAIN G[h]
    BY <1>13 DEF Survives, Has
  <2>2. CASE h <= p
    <3>1. Has(E, "put", i, h, j) /\ h \in DOMAIN E /\ j \in DOMAIN E[h]
      BY <2>1, <2>2, <1>8 DEF Has
    <3>2. Clear(E, i, h, j)
      BY <2>1, <1>8 DEF Clear, Has
    <3>3. ~Before(h, j, 0, 0)
      <4>1. h \in 1 .. act
        BY <2>1, <1>1
      <4> QED BY <4>1 DEF Before
    <3>4. i \in LiveIds(c.rows)
      BY <3>1, <3>2, <3>3, <1>6, <1>7
    <3>5. ASSUME NEW x, NEW y, Has(G, "dead", i, x, y) PROVE Before(x, y, nx, 0)
      <4>1. Before(x, y, h, j) /\ x \in DOMAIN G /\ y \in DOMAIN G[x]
        BY <3>5, <2>1 DEF Clear, Has
      <4>2. x <= h
        BY <4>1, <2>1, <1>9 DEF Before
      <4>3. x <= p
        BY <4>1, <4>2, <2>1, <2>2, <1>9
      <4> QED BY <4>1, <4>3, <1>9
    <3>6. Clear(G, i, nx, 0)
      BY <3>5 DEF Clear
    <3> QED BY <3>4, <3>6, <1>7 DEF Resumes
  <2>3. CASE ~(h <= p)
    <3>1. ~Before(h, j, nx, 0)
      BY <2>1, <2>3, <1>9
    <3> QED BY <3>1, <2>1, <1>7, <1>13 DEF Resumes
  <2> QED BY <2>2, <2>3
<1> QED BY <1>12, <1>13

(* The whole log is replayed.                                              *)
LEMMA FromNothing ==
    ASSUME NEW F, NEW act, NEW m, NEW rs, NEW c0, NEW gone, NEW ak, Agree(F, act, m, rs, c0, gone, ak),
           NEW n \in m .. Len(F[act]), NEW G, Shrunk(F, act, n, {}, G),
           NEW c, c = NoCkpt \/ \E p, nx : ReplayedTo(c, G, p, nx)
    PROVE  Agree(G, act, n, ReplayAll(G), c, 0, ak)
<1>1. LogFiles(F, act) /\ m \in 0 .. Len(F[act]) /\ \A i \in ak : ~IsVersioned(i) => Stays(F, act, m, gone, i)
  BY DEF Agree
<1>2. LogFiles(G, act) /\ Len(G[act]) = n
  BY ShrunkIs DEF ShrunkHas
<1>3. m \in Nat /\ n \in Nat /\ m <= n /\ act \in Nat /\ DOMAIN F \subseteq 1 .. act
  BY <1>1 DEF Shrunk, LogFiles
<1>4. PICK r : r = ReplayAll(G)
  OBVIOUS
<1>5. Table(r, DOMAIN G) /\ Logged(r, G)
      /\ \A i : i \in LiveIds(r) <=>
            \E h \in DOMAIN G : \E j \in DOMAIN G[h] :
                Has(G, "put", i, h, j) /\ ~Before(h, j, 0, 0) /\ Clear(G, i, h, j)
  <2>1. ReplayOf(r, G, {}, 0, 0)
    BY <1>2, <1>4, AllReplayed
  <2> QED BY <2>1 DEF ReplayOf
<1>6. (c # NoCkpt => Fits(c, G, act, n, 0))
      /\ \A i, h, j : Survives(G, act, n, i, h, j) => Resumes(G, act, n, c, i)
  <2>1. CASE c = NoCkpt
    BY <2>1 DEF Resumes
  <2>2. ASSUME NEW p, NEW nx, ReplayedTo(c, G, p, nx)
        PROVE  Fits(c, G, act, n, 0) /\ \A i, h, j : Survives(G, act, n, i, h, j) => Resumes(G, act, n, c, i)
    BY <2>2, <1>2, ReplayFits
  <2> QED BY <2>1, <2>2
<1>7. ASSUME NEW h \in DOMAIN G, NEW j \in DOMAIN G[h] PROVE h = act => j <= n
  <2>1. h = act => G[h] \in Seq(Frames)
    BY <1>2 DEF LogFiles
  <2> QED BY <2>1, <1>2
<1>8. ASSUME NEW i \in LiveIds(r) PROVE Resumes(G, act, n, c, i)
  <2>1. PICK h \in DOMAIN G : \E j \in DOMAIN G[h] : Has(G, "put", i, h, j) /\ Clear(G, i, h, j)
    BY <1>5
  <2>2. PICK j \in DOMAIN G[h] : Has(G, "put", i, h, j) /\ Clear(G, i, h, j)
    BY <2>1
  <2>3. Survives(G, act, n, i, h, j)
    BY <2>2, <1>7 DEF Survives
  <2> QED BY <2>3, <1>6
<1>9. ASSUME NEW i, Stays(F, act, m, gone, i) PROVE Stays(G, act, n, 0, i) /\ i \in LiveIds(r)
  <2>1. PICK h \in DOMAIN F : \E j \in DOMAIN F[h] : Survives(F, act, m, i, h, j)
    BY <1>9 DEF Stays
  <2>2. PICK j \in DOMAIN F[h] : Survives(F, act, m, i, h, j)
    BY <2>1
  <2>3. h = act => j \in Nat
    <3>1. h = act => F[h] \in Seq(Frames)
      BY <1>1 DEF LogFiles
    <3> QED BY <3>1, <2>2
  <2>4. h = act => j <= n
    BY <2>2, <2>3, <1>3 DEF Survives
  <2>5. h \in DOMAIN G /\ j \in DOMAIN G[h] /\ Survives(G, act, n, i, h, j)
    BY <2>2, <2>4, ShrunkKeeps
  <2>6. h \in 1 .. act
    BY <1>3
  <2>7. h # 0 /\ ~Before(h, j, 0, 0)
    BY <2>6 DEF Before
  <2> QED BY <2>5, <2>7, <1>5 DEF Stays, Survives
<1>10. \A i \in LiveIds(r) : Resumes(G, act, Len(G[act]), c, i)
  BY <1>2, <1>8
<1>11. \A i \in ak : ~IsVersioned(i) => i \in LiveIds(r) /\ Stays(G, act, n, 0, i) /\ Resumes(G, act, n, c, i)
  BY <1>1, <1>8, <1>9
<1>12. n \in 0 .. Len(G[act])
  BY <1>2, <1>3
<1>13. Agree(G, act, n, r, c, 0, ak)
  BY <1>2, <1>5, <1>6, <1>10, <1>11, <1>12 DEF Agree
<1> QED BY <1>4, <1>13

-----------------------------------------------------------------------------
(* The steps.                                                              *)

(* Frames added to the active segment, which stays.                        *)
LEMMA FramedIs ==
    ASSUME NEW fr \in Seq(Frames), LogFiles(segs, active)
    PROVE  Grown(segs, active, fr, Framed(fr), active)
<1> DEFINE q == segs[active] \o fr
           G == Framed(fr)
<1>1. G = [segs EXCEPT ![active] = q]
  BY DEF Framed
<1>2. active \in DOMAIN segs
  BY DEF LogFiles
<1>3. DOMAIN G = DOMAIN segs /\ G[active] = q /\ \A h \in DOMAIN segs : h # active => G[h] = segs[h]
  BY <1>1, <1>2
<1> HIDE DEF G
<1> QED BY <1>2, <1>3 DEF Grown, G

(* _rotate_if_full after it.                                               *)
LEMMA Rotated ==
    ASSUME NEW fr, LogFiles(segs, active),
           NEW files, Grown(segs, active, fr, files, active), NEW keep \in 0 .. Len(files[active]), RotateIfFull(files, keep)
    PROVE  /\ Grown(segs, active, fr, segs', active')
           /\ synced' \in 0 .. Len(segs'[active'])
           /\ (active' = active /\ synced' = keep) \/ (active' # active /\ synced' = Len(segs'[active']))
<1>1. Grown(segs, active, fr, files, active)
  OBVIOUS
<1>2. active \in Nat /\ active \in DOMAIN segs /\ DOMAIN segs \subseteq 1 .. active
  BY DEF LogFiles
<1>3. CASE /\ segs' = [sid \in DOMAIN files \cup {active + 1} |-> IF sid = active + 1 THEN <<>> ELSE files[sid]]
           /\ active' = active + 1 /\ synced' = 0
  <2>1. active + 1 \notin DOMAIN segs /\ active + 1 # active
    BY <1>2
  <2>2. DOMAIN files = DOMAIN segs
    BY <1>1, <1>2 DEF Grown
  <2>3. DOMAIN segs' = DOMAIN segs \cup {active + 1} /\ segs'[active + 1] = <<>>
        /\ \A h \in DOMAIN segs : segs'[h] = files[h]
    BY <1>3, <2>1, <2>2
  <2>4. Grown(segs, active, fr, segs', active')
    BY <1>1, <1>2, <1>3, <2>1, <2>3 DEF Grown
  <2>5. Len(segs'[active']) = 0
    BY <1>3, <2>3
  <2> QED BY <1>3, <2>1, <2>4, <2>5
<1>4. CASE segs' = files /\ synced' = keep /\ active' = active
  BY <1>1, <1>4
<1> QED BY <1>3, <1>4 DEF RotateIfFull

(* A compaction goes on while others write.                                *)
LEMMA CompKept ==
    ASSUME CompOK, comp.pc # "remove", comp' = comp, LogFiles(segs, active),
           active' \in {active, active + 1}, DOMAIN segs \subseteq DOMAIN segs',
           DOMAIN rows \subseteq DOMAIN rows',
           \A s \in LiveRows(rows') :
               (s \in LiveRows(rows) /\ rows'[s].seg = rows[s].seg) \/ rows'[s].seg = active
    PROVE  CompOK'
<1>1. comp.pc # "idle" => comp.sid \in DOMAIN segs' \ {active'} /\ comp.sid # active
  <2>1. active \in Nat /\ DOMAIN segs \subseteq 1 .. active
    BY DEF LogFiles
  <2>2. comp.pc # "idle" => comp.sid \in DOMAIN segs \ {active}
    BY DEF CompOK
  <2>3. active + 1 \notin DOMAIN segs
    BY <2>1
  <2> QED BY <2>2, <2>3
<1>2. ASSUME comp.pc = "copy", NEW s \in LiveRows(rows'), rows'[s].seg = comp.sid PROVE s \in comp.todo
  BY <1>1, <1>2 DEF CompOK
<1>3. comp.pc = "copy" => comp.todo \subseteq DOMAIN rows'
  BY DEF CompOK
<1>4. comp.pc \in {"idle", "copy", "remove"}
  BY DEF CompOK
<1> QED BY <1>1, <1>2, <1>3, <1>4 DEF CompOK

(* A write.                                                                *)
LEMMA WriteStep ==
    ASSUME LogInv, Unlocked, NEW fr, Follow(rows', fr, rows, active, DOMAIN segs),
           segs' = Framed(fr), UNCHANGED <<active, synced, ckpt, comp>>,
           acked' \subseteq acked, \A i \in acked' : ~IsVersioned(i) => i \in LiveIds(rows'),
           purged' \subseteq purged
    PROVE  LogInv'
<1>1. /\ Agree(segs, active, synced, rows, ckpt, 0, acked) /\ CompOK /\ comp.pc # "remove"
      /\ acked \subseteq Ids /\ purged \subseteq Ids
  BY DEF LogInv, Unlocked, Gone
<1>2. LogFiles(segs, active) /\ synced \in 0 .. Len(segs[active])
  BY <1>1 DEF Agree
<1>3. fr \in Seq(Frames) /\ DOMAIN rows \subseteq DOMAIN rows'
  BY DEF Follow
<1>4. Grown(segs, active, fr, segs', active')
  BY <1>2, <1>3, FramedIs
<1>5. Len(segs[active]) \in Nat /\ Len(segs[active]) <= Len(segs'[active'])
  BY <1>4, GrownIs DEF GrownHas
<1>6. Len(segs'[active']) \in Nat
  <2>1. LogFiles(segs', active')
    BY <1>4, GrownIs
  <2>2. segs'[active'] \in Seq(Frames)
    BY <2>1 DEF LogFiles
  <2> QED BY <2>2
<1>7. synced' \in 0 .. Len(segs'[active']) /\ synced <= synced'
  BY <1>2, <1>5, <1>6
<1>8. Agree(segs', active', synced', rows', ckpt, 0, acked')
  BY <1>1, <1>4, <1>7, WriteKeeps
<1>9. CompOK'
  <2>1. DOMAIN segs \subseteq DOMAIN segs' /\ active' \in {active, active + 1}
    BY <1>4 DEF Grown
  <2>2. \A s \in LiveRows(rows') :
            (s \in LiveRows(rows) /\ rows'[s].seg = rows[s].seg) \/ rows'[s].seg = active
    BY DEF Follow
  <2> QED BY <1>1, <1>2, <1>3, <2>1, <2>2, CompKept
<1>10. Gone' = 0
  BY <1>1 DEF Gone
<1> QED BY <1>1, <1>8, <1>9, <1>10 DEF LogInv

(* A batch of one event arriving, from the relay or the firehose.          *)
LEMMA IngestStep ==
    ASSUME LogInv, NEW i \in Ids, NEW o \in Origins, Ingest(i, o)
    PROVE  LogInv'
<1>1. PICK r : r = Put(rows, i, o, active)
  OBVIOUS
<1>2. /\ Unlocked /\ rows' = r.rows /\ segs' = Framed(r.frames)
      /\ acked' = IF Kind[i] = "delete" THEN AckedWithout(LiveIds(rows) \ LiveIds(r.rows)) ELSE acked
      /\ purged' = purged \ {i}
      /\ UNCHANGED <<active, synced, ckpt, comp>>
  BY <1>1 DEF Ingest
<1>3. Agree(segs, active, synced, rows, ckpt, Gone, acked)
  BY DEF LogInv
<1>4. Table(rows, DOMAIN segs) /\ LogFiles(segs, active)
      /\ \A x \in acked : ~IsVersioned(x) => x \in LiveIds(rows)
  BY <1>3 DEF Agree
<1>5. active \in DOMAIN segs \cap (Nat \ {0})
  BY <1>4 DEF LogFiles
<1>6. PutOK(r, rows, i, active, DOMAIN segs)
  BY <1>1, <1>4, <1>5, PutIs
<1>7. Follow(rows', r.frames, rows, active, DOMAIN segs)
  BY <1>2, <1>6 DEF PutOK, FollowsW
<1>8. acked' \subseteq acked /\ \A x \in acked' : ~IsVersioned(x) => x \in LiveIds(rows')
  <2>1. CASE Kind[i] = "delete"
    <3>1. acked' = AckedWithout(LiveIds(rows) \ LiveIds(rows'))
      BY <2>1, <1>2
    <3>2. acked' \subseteq acked /\ \A x \in acked' : ~IsVersioned(x) => x \notin LiveIds(rows) \ LiveIds(rows')
      BY <3>1 DEF AckedWithout
    <3> QED BY <3>2, <1>4
  <2>2. CASE Kind[i] # "delete"
    BY <2>2, <1>2, <1>4, <1>6 DEF PutOK
  <2> QED BY <2>1, <2>2
<1>9. purged' \subseteq purged
  BY <1>2
<1> QED BY <1>2, <1>7, <1>8, <1>9, WriteStep

(* A record pruned by age.                                                 *)
LEMMA PruneStep ==
    ASSUME LogInv, NEW s \in DOMAIN rows, Prune(s)
    PROVE  LogInv'
<1>1. PICK w : w = [rows |-> rows, frames |-> <<>>]
  OBVIOUS
<1>2. PICK r : r = Kill(w, {s})
  OBVIOUS
<1>3. /\ Unlocked /\ s \in LiveRows(rows) /\ rows' = r.rows /\ segs' = Framed(r.frames)
      /\ acked' = AckedWithout({rows[s].id})
      /\ UNCHANGED <<active, synced, ckpt, comp, purged>>
  BY <1>1, <1>2 DEF Prune
<1>4. Agree(segs, active, synced, rows, ckpt, Gone, acked)
  BY DEF LogInv
<1>5. Table(rows, DOMAIN segs) /\ \A x \in acked : ~IsVersioned(x) => x \in LiveIds(rows)
  BY <1>4 DEF Agree
<1>6. w.rows = rows /\ w.frames = <<>>
  BY <1>1
<1>7. FollowsW(w, rows, active, DOMAIN segs)
  <2>1. <<>> \in Seq(Frames) /\ DOMAIN <<>> = {}
    OBVIOUS
  <2>2. Follow(rows, <<>>, rows, active, DOMAIN segs)
    BY <1>5, <2>1 DEF Follow, DeadIn
  <2> QED BY <1>6, <2>2 DEF FollowsW
<1>8. FollowsW(r, rows, active, DOMAIN segs) /\ r.rows = Killed(rows, {s})
  BY <1>2, <1>3, <1>6, <1>7, KillFollows
<1>9. \A x : x \in LiveIds(r.rows) <=>
          x \in LiveIds(rows) /\ ~\E t \in {s} \cap LiveRows(rows) : rows[t].id = x
  BY <1>5, <1>8, KilledIs
<1>10. acked' \subseteq acked /\ \A x \in acked' : ~IsVersioned(x) => x \in LiveIds(rows')
  <2>1. acked' \subseteq acked /\ \A x \in acked' : ~IsVersioned(x) => x # rows[s].id
    BY <1>3 DEF AckedWithout
  <2> QED BY <2>1, <1>3, <1>5, <1>9
<1>11. Follow(rows', r.frames, rows, active, DOMAIN segs)
  BY <1>3, <1>8 DEF FollowsW
<1> QED BY <1>3, <1>10, <1>11, WriteStep

(* The log has grown by frames fr, and is durable to its end if the answer *)
(* says so: for Sync, Flush, Snapshot and what a compaction writes.        *)
LEMMA GrowStep ==
    ASSUME LogInv, Unlocked, NEW fr, Grown(segs, active, fr, segs', active'),
           synced' \in 0 .. Len(segs'[active']), active' = active => synced <= synced',
           NEW r, Follow(r, fr, rows, active, DOMAIN segs), LiveIds(r) = LiveIds(rows)
    PROVE  Agree(segs', active', synced', r, ckpt, 0, acked)
<1>1. Agree(segs, active, synced, rows, ckpt, 0, acked)
  BY DEF LogInv, Unlocked, Gone
<1>2. \A i \in acked : ~IsVersioned(i) => i \in LiveIds(r)
  BY <1>1 DEF Agree
<1> QED BY <1>1, <1>2, WriteKeeps

(* Who is answered for is in the table.                                    *)
LEMMA AnsweredIds ==
    ASSUME LogInv, Acknowledge
    PROVE  /\ acked' \subseteq Ids /\ purged' \subseteq Ids
           /\ \A i \in acked' : ~IsVersioned(i) => i \in LiveIds(rows)
<1>1. Agree(segs, active, synced, rows, ckpt, Gone, acked) /\ acked \subseteq Ids
  BY DEF LogInv
<1>2. rows \in Seq(Rows) /\ \A i \in acked : ~IsVersioned(i) => i \in LiveIds(rows)
  BY <1>1 DEF Agree, Table
<1>3. \A s \in DOMAIN rows : rows[s].id \in Ids
  <2>1. \A s \in DOMAIN rows : rows[s] \in Rows
    BY <1>2
  <2> QED BY <2>1 DEF Rows
<1>4. acked' = acked \cup {rows[s].id : s \in {s \in LiveRows(rows) : rows[s].origin = "direct"}}
      /\ purged' = {rows[s].id : s \in DOMAIN rows} \ LiveIds(rows)
  BY DEF Acknowledge
<1>5. purged' \subseteq Ids
  BY <1>3, <1>4
<1>6. acked' \subseteq Ids
  BY <1>1, <1>3, <1>4 DEF LiveRows
<1>7. \A i \in acked' : i \in acked \/ i \in LiveIds(rows)
  BY <1>4 DEF LiveIds
<1> QED BY <1>2, <1>5, <1>6, <1>7

(* A table follows itself, with no frame.                                  *)
LEMMA SameFollows ==
    ASSUME NEW rs, NEW S, Table(rs, S), NEW sid
    PROVE  Follow(rs, <<>>, rs, sid, S)
<1>1. <<>> \in Seq(Frames) /\ DOMAIN <<>> = {}
  OBVIOUS
<1> QED BY <1>1 DEF Follow, DeadIn

(* What most steps need of the invariant.                                  *)
LEMMA InvParts ==
    ASSUME LogInv
    PROVE  /\ LogFiles(segs, active) /\ Table(rows, DOMAIN segs) /\ CompOK
           /\ synced \in 0 .. Len(segs[active]) /\ Len(segs[active]) \in Nat
           /\ acked \subseteq Ids /\ purged \subseteq Ids
           /\ \A s \in LiveRows(rows) : rows[s].seg # 0
<1>1. Agree(segs, active, synced, rows, ckpt, Gone, acked) /\ CompOK /\ acked \subseteq Ids /\ purged \subseteq Ids
  BY DEF LogInv
<1>2. LogFiles(segs, active) /\ Table(rows, DOMAIN segs) /\ synced \in 0 .. Len(segs[active])
  BY <1>1 DEF Agree
<1>3. segs[active] \in Seq(Frames)
  BY <1>2 DEF LogFiles
<1>4. Len(segs[active]) \in Nat
  BY <1>3
<1> QED BY <1>1, <1>2, <1>4 DEF Table

(* The log is flushed: all of it is durable, in the same segment or with   *)
(* the next one open.                                                      *)
LEMMA FlushStep ==
    ASSUME LogInv, Unlocked, Grown(segs, active, <<>>, segs', active'),
           synced' = Len(segs'[active']), Acknowledge, UNCHANGED <<rows, ckpt, comp>>
    PROVE  LogInv'
<1>1. /\ LogFiles(segs, active) /\ Table(rows, DOMAIN segs) /\ CompOK
      /\ synced \in 0 .. Len(segs[active]) /\ Len(segs[active]) \in Nat
      /\ \A s \in LiveRows(rows) : rows[s].seg # 0
  BY InvParts
<1>2. LogFiles(segs', active') /\ Len(segs[active]) <= Len(segs'[active])
  BY GrownIs DEF GrownHas
<1>3. Len(segs'[active']) \in Nat
  <2>1. segs'[active'] \in Seq(Frames)
    BY <1>2 DEF LogFiles
  <2> QED BY <2>1
<1>4. synced' \in 0 .. Len(segs'[active']) /\ (active' = active => synced <= synced')
  BY <1>1, <1>2, <1>3
<1>5. Follow(rows, <<>>, rows, active, DOMAIN segs)
  BY <1>1, SameFollows
<1>6. Agree(segs', active', synced', rows, ckpt, 0, acked)
  BY <1>4, <1>5, GrowStep
<1>7. Agree(segs', active', synced', rows, ckpt, 0, acked')
  BY <1>1, <1>6, Answered, AnsweredIds
<1>8. CompOK'
  <2>1. DOMAIN segs \subseteq DOMAIN segs' /\ active' \in {active, active + 1}
    BY DEF Grown
  <2> QED BY <1>1, <2>1, CompKept DEF Unlocked
<1>9. Gone' = 0
  BY DEF Gone, Unlocked
<1> QED BY <1>7, <1>8, <1>9, AnsweredIds DEF LogInv

(* Files have grown by nothing.                                            *)
LEMMA NothingFramed ==
    ASSUME LogFiles(segs, active)
    PROVE  Grown(segs, active, <<>>, segs, active)
<1>1. segs[active] \in Seq(Frames) /\ active \in DOMAIN segs
  BY DEF LogFiles
<1>2. segs[active] \o <<>> = segs[active] /\ <<>> \in Seq(Frames)
  BY <1>1
<1>3. Grown(segs, active, <<>>, segs, active)
  BY <1>1, <1>2 DEF Grown
<1> QED BY <1>3

(* The committer's fdatasync: all of the active segment is durable.        *)
LEMMA SyncStep ==
    ASSUME LogInv, Sync
    PROVE  LogInv'
<1>1. Grown(segs, active, <<>>, segs', active')
  BY InvParts, NothingFramed DEF Sync
<1> QED BY <1>1, FlushStep DEF Sync

(* A flush answers what was pending: each note answered for is then kept   *)
(* whatever the power does.                                                *)
LEMMA FlushesStep ==
    ASSUME LogInv, Flush
    PROVE  LogInv'
<1>1. Grown(segs, active, <<>>, segs, active) /\ LogFiles(segs, active) /\ Len(segs[active]) \in 0 .. Len(segs[active])
  BY InvParts, NothingFramed
<1>2. RotateIfFull(segs, Len(segs[active]))
  BY DEF Flush
<1>3. /\ Grown(segs, active, <<>>, segs', active')
      /\ \/ active' = active /\ synced' = Len(segs[active])
         \/ active' # active /\ synced' = Len(segs'[active'])
  BY <1>1, <1>2, Rotated
<1>4. active' = active => Len(segs'[active']) = Len(segs[active])
  <2>1. segs'[active] = segs[active] \o <<>> /\ segs[active] \in Seq(Frames)
    BY <1>3 DEF Grown, LogFiles
  <2> QED BY <2>1
<1> QED BY <1>3, <1>4, FlushStep DEF Flush

(* A checkpoint is taken of what has been flushed.                         *)
LEMMA CheckpointStep ==
    ASSUME LogInv, Unlocked, NEW fr, Grown(segs, active, fr, segs', active'),
           synced' = Len(segs'[active']), Follow(rows', fr, rows, active, DOMAIN segs),
           LiveIds(rows') = LiveIds(rows), Acknowledge,
           NEW gone, NEW del, (del = {} /\ gone = 0) \/ (del = {gone} /\ gone \in DOMAIN segs \ {active}),
           \A s \in DOMAIN rows' : rows'[s].seg \notin del,
           ckpt' = Checkpoint(rows', DOMAIN segs', active', synced', del), Gone' = gone
    PROVE  /\ Agree(segs', active', synced', rows', ckpt', Gone', acked')
           /\ ckpt' # NoCkpt /\ ckpt'.at = active' /\ ckpt'.deleted = del
<1>1. /\ LogFiles(segs, active) /\ synced \in 0 .. Len(segs[active]) /\ Len(segs[active]) \in Nat
  BY InvParts
<1>2. LogFiles(segs', active') /\ Len(segs[active]) <= Len(segs'[active])
  BY GrownIs DEF GrownHas
<1>3. Len(segs'[active']) \in Nat
  <2>1. segs'[active'] \in Seq(Frames)
    BY <1>2 DEF LogFiles
  <2> QED BY <2>1
<1>4. synced' \in 0 .. Len(segs'[active']) /\ (active' = active => synced <= synced')
  BY <1>1, <1>2, <1>3
<1>5. Agree(segs', active', synced', rows', ckpt, 0, acked)
  BY <1>4, GrowStep
<1>6. (del = {} /\ gone = 0) \/ (del = {gone} /\ gone \in DOMAIN segs' \ {active'})
  <2>1. active \in Nat /\ DOMAIN segs \subseteq 1 .. active
    BY <1>1 DEF LogFiles
  <2>2. DOMAIN segs \subseteq DOMAIN segs' /\ (active' = active \/ active' = active + 1)
    BY DEF Grown
  <2>3. active + 1 \notin DOMAIN segs
    BY <2>1
  <2> QED BY <2>2, <2>3
<1>7. PICK F, act, n, rs, c, d : /\ F = segs' /\ act = active' /\ n = synced' /\ rs = rows' /\ c = ckpt
                                 /\ d = Checkpoint(rs, DOMAIN F, act, n, del)
  OBVIOUS
<1>8. Agree(F, act, n, rs, d, gone, {}) /\ d # NoCkpt /\ d.at = act /\ d.deleted = del
  <2>1. n = Len(F[act]) /\ Agree(F, act, n, rs, c, 0, acked)
    BY <1>5, <1>7
  <2>2. (del = {} /\ gone = 0) \/ (del = {gone} /\ gone \in DOMAIN F \ {act})
    BY <1>6, <1>7
  <2>3. \A s \in DOMAIN rs : rs[s].seg \notin del
    BY <1>7
  <2>4. Emptied(F, act, rs, gone, del)
    BY <2>2, <2>3 DEF Emptied
  <2>5. TakenAtEnd(d, F, act, n, rs, del)
    BY <1>7, <2>1 DEF TakenAtEnd
  <2> QED BY <2>1, <2>4, <2>5, FreshCheckpoint
<1>9. \A s \in LiveRows(rs) : rs[s].seg # gone
  <2>1. Table(rs, DOMAIN F)
    BY <1>8 DEF Agree
  <2>2. \A s \in LiveRows(rs) : rs[s].seg # 0
    BY <2>1 DEF Table
  <2>3. \A s \in LiveRows(rs) : rs[s].seg \notin del
    BY <1>7 DEF LiveRows
  <2> QED BY <2>2, <2>3
<1>10. \A i \in acked' : ~IsVersioned(i) => i \in LiveIds(rs)
  BY <1>7, AnsweredIds
<1>11. Agree(F, act, n, rs, d, gone, acked')
  BY <1>7, <1>8, <1>9, <1>10, Answered
<1> QED BY <1>7, <1>8, <1>11

(* Store.snapshot: after the flush all of the log is durable, and the      *)
(* checkpoint describes the end of it.                                     *)
LEMMA SnapshotStep ==
    ASSUME LogInv, Snapshot
    PROVE  LogInv'
<1>1. /\ Grown(segs, active, <<>>, segs, active) /\ LogFiles(segs, active)
      /\ Len(segs[active]) \in 0 .. Len(segs[active]) /\ Table(rows, DOMAIN segs) /\ CompOK
  BY InvParts, NothingFramed
<1>2. /\ comp.pc = "idle" /\ RotateIfFull(segs, Len(segs[active])) /\ Acknowledge
      /\ ckpt' = Checkpoint(rows, DOMAIN segs', active', synced', {}) /\ rows' = rows /\ comp' = comp
  BY DEF Snapshot
<1>3. /\ Grown(segs, active, <<>>, segs', active')
      /\ \/ active' = active /\ synced' = Len(segs[active])
         \/ active' # active /\ synced' = Len(segs'[active'])
  BY <1>1, <1>2, Rotated
<1>4. active' = active => Len(segs'[active']) = Len(segs[active])
  <2>1. segs'[active] = segs[active] \o <<>> /\ segs[active] \in Seq(Frames)
    BY <1>3 DEF Grown, LogFiles
  <2> QED BY <2>1
<1>5. Follow(rows', <<>>, rows, active, DOMAIN segs)
  BY <1>1, <1>2, SameFollows
<1>6. Unlocked /\ Gone' = 0 /\ synced' = Len(segs'[active']) /\ LiveIds(rows') = LiveIds(rows)
  BY <1>2, <1>3, <1>4 DEF Unlocked, Gone
<1>7. Agree(segs', active', synced', rows', ckpt', Gone', acked')
  <2>1. ckpt' = Checkpoint(rows', DOMAIN segs', active', synced', {})
    BY <1>2
  <2>2. \A s \in DOMAIN rows' : rows'[s].seg \notin {}
    OBVIOUS
  <2>3. ({} = {} /\ 0 = 0) \/ ({} = {0} /\ 0 \in DOMAIN segs \ {active})
    OBVIOUS
  <2> QED BY <1>2, <1>3, <1>5, <1>6, <2>1, <2>2, <2>3, CheckpointStep
<1>8. CompOK'
  <2>1. DOMAIN segs \subseteq DOMAIN segs' /\ active' \in {active, active + 1}
    BY <1>3 DEF Grown
  <2> QED BY <1>1, <1>2, <1>6, <2>1, CompKept DEF Unlocked
<1> QED BY <1>2, <1>7, <1>8, AnsweredIds DEF LogInv

(* A compaction picks a sealed segment; all records in it are to do.       *)
LEMMA CompactStartStep ==
    ASSUME LogInv, NEW sid \in DOMAIN segs, CompactStart(sid)
    PROVE  LogInv'
<1>1. /\ comp.pc = "idle" /\ sid \in DOMAIN segs \ {active}
      /\ comp'.pc = "copy" /\ comp'.sid = sid /\ comp'.todo = {s \in DOMAIN rows : rows[s].seg = sid}
      /\ UNCHANGED <<segs, active, synced, rows, ckpt, acked, purged>>
  BY DEF CompactStart
<1>2. Gone' = Gone
  BY <1>1 DEF Gone
<1>3. CompOK'
  BY <1>1 DEF CompOK, LiveRows
<1> QED BY <1>1, <1>2, <1>3 DEF LogInv

(* The segment file goes: the checkpoint on disk calls it deleted, and no  *)
(* record points into it.                                                  *)
LEMMA CompactRemoveStep ==
    ASSUME LogInv, CompactRemove
    PROVE  LogInv'
<1>1. /\ comp.pc = "remove" /\ segs' = Restrict(segs, DOMAIN segs \ {comp.sid}) /\ comp' = Idle
      /\ UNCHANGED <<active, synced, rows, ckpt, acked, purged>>
  BY DEF CompactRemove
<1>2. /\ LogFiles(segs, active) /\ CompOK /\ Len(segs[active]) \in Nat /\ acked \subseteq Ids /\ purged \subseteq Ids
  BY InvParts
<1>3. /\ comp.sid \in DOMAIN segs \ {active} /\ \A s \in DOMAIN rows : rows[s].seg # comp.sid
      /\ ckpt # NoCkpt /\ ckpt.at = active /\ comp.sid \in ckpt.deleted
  BY <1>1, <1>2 DEF CompOK
<1>4. DOMAIN segs' = DOMAIN segs \ {comp.sid} /\ \A h \in DOMAIN segs' : segs'[h] = segs[h]
  BY <1>1 DEF Restrict
<1>5. active \in DOMAIN segs /\ segs[active] \in Seq(Frames)
  BY <1>2 DEF LogFiles
<1>6. segs'[active] = segs[active]
  BY <1>3, <1>4, <1>5
<1>7. SubSeq(segs[active], 1, Len(segs[active])) = segs[active]
  BY <1>5
<1>8. Shrunk(segs, active, Len(segs[active]), {comp.sid}, segs')
  BY <1>2, <1>3, <1>4, <1>6, <1>7 DEF Shrunk
<1>9. Agree(segs, active, synced, rows, ckpt, comp.sid, acked)
  BY <1>1 DEF LogInv, Gone
<1>10. Agree(segs', active, synced, rows, ckpt, 0, acked)
  BY <1>3, <1>6, <1>8, <1>9, SegmentRemoved
<1>11. Gone' = 0 /\ CompOK'
  BY <1>1 DEF Gone, CompOK, Idle
<1> QED BY <1>1, <1>2, <1>10, <1>11 DEF LogInv

(* The authors, so also the values of derived tags, are finitely many.     *)
LEMMA AuthorsFinite == IsFiniteSet(Range(Author))
<1>1. Range(Author) = {Author[i] : i \in Ids}
  BY EventsAssumption DEF Range
<1>2. IsFiniteSet(Ids)
  BY EventsAssumption
<1>3. [i \in Ids |-> Author[i]] \in Surjection(Ids, Range(Author))
  BY <1>1 DEF Surjection
<1> QED BY <1>2, <1>3, FS_Surjection

(* The frames of a copied record: it and its tags.                         *)
Copy(row) ==
    <<PutFrame(row.id, row.origin)>>
        \o [k \in DOMAIN SetToSeq(row.tags) |-> TagFrame(row.id, SetToSeq(row.tags)[k])]

(* A copy begins with the put frame of its record and kills nothing.       *)
LEMMA CopyIs ==
    ASSUME NEW row \in Rows
    PROVE  /\ Copy(row) \in Seq(Frames) /\ 1 \in DOMAIN Copy(row)
           /\ Copy(row)[1].op = "put" /\ Copy(row)[1].id = row.id
           /\ \A k \in DOMAIN Copy(row) : Copy(row)[k].op # "dead"
<1>1. row.id \in Ids /\ row.origin \in Origins /\ row.tags \subseteq Range(Author)
  BY DEF Rows
<1>2. PICK i, q : i = row.id /\ q = SetToSeq(row.tags)
  OBVIOUS
<1>3. q \in Seq(row.tags)
  <2>1. IsFiniteSet(row.tags)
    BY <1>1, AuthorsFinite, FS_Subset
  <2> QED BY <2>1, <1>2, SetToSeqIn
<1>4. PICK p : p = [k \in DOMAIN q |-> TagFrame(i, q[k])]
  OBVIOUS
<1>5. p \in Seq(Frames) /\ \A k \in DOMAIN p : p[k].op = "tag"
  <2>1. DOMAIN q = 1 .. Len(q) /\ Len(q) \in Nat /\ \A k \in DOMAIN q : q[k] \in Range(Author)
    BY <1>1, <1>3
  <2>2. \A k \in 1 .. Len(q) : TagFrame(i, q[k]) \in Frames /\ TagFrame(i, q[k]).op = "tag"
    BY <1>1, <1>2, <2>1, FramesAre
  <2>3. p = [k \in 1 .. Len(q) |-> TagFrame(i, q[k])]
    BY <1>4, <2>1
  <2>4. \A k \in 1 .. Len(q) : p[k] = TagFrame(i, q[k])
    BY <2>3
  <2>5. p \in Seq(Frames)
    BY <2>1, <2>2, <2>3, IsASeq
  <2> QED BY <2>1, <2>2, <2>3, <2>4, <2>5
<1>6. PICK f \in Frames : f = PutFrame(row.id, row.origin) /\ f.op = "put" /\ f.id = row.id
  BY <1>1, FramesAre
<1>7. PICK c : c = <<f>> \o p
  OBVIOUS
<1>8. /\ c \in Seq(Frames) /\ DOMAIN c = 1 .. 1 + Len(p) /\ Len(p) \in Nat /\ DOMAIN p = 1 .. Len(p) /\ c[1] = f
      /\ \A k \in 2 .. 1 + Len(p) : c[k] = p[k - 1]
  BY <1>5, <1>7
<1>9. ASSUME NEW k \in DOMAIN c PROVE c[k].op # "dead"
  <2>1. CASE k = 1
    BY <2>1, <1>6, <1>8
  <2>2. CASE k # 1
    <3>1. k \in 2 .. 1 + Len(p) /\ k - 1 \in DOMAIN p
      BY <2>2, <1>8
    <3>2. c[k] = p[k - 1] /\ p[k - 1].op = "tag"
      BY <3>1, <1>5, <1>8
    <3> QED BY <3>2
  <2> QED BY <2>1, <2>2
<1>10. c = Copy(row)
  BY <1>2, <1>4, <1>6, <1>7 DEF Copy
<1>11. 1 \in DOMAIN c
  BY <1>8
<1> QED BY <1>6, <1>8, <1>9, <1>10, <1>11

(* A record is moved to segment sid.                                       *)
Moved(r, rs, s, sid) == r = [rs EXCEPT ![s].seg = sid]
(* Every record is what it was, record s in another segment.               *)
MovedTo(r, rs, s, sid) ==
    /\ LiveRows(r) = LiveRows(rs) /\ LiveIds(r) = LiveIds(rs) /\ DOMAIN r = DOMAIN rs
    /\ \A t \in DOMAIN rs : r[t].id = rs[t].id /\ r[t].seg = IF t = s THEN sid ELSE rs[t].seg

(* A move changes the segment of one record and no record's life.          *)
LEMMA MovedIs ==
    ASSUME NEW S, NEW rs, Table(rs, S), NEW s \in LiveRows(rs), NEW sid \in S, sid # 0, S \subseteq Nat,
           NEW r, Moved(r, rs, s, sid)
    PROVE  Table(r, S) /\ MovedTo(r, rs, s, sid)
<1>1. rs \in Seq(Rows) /\ s \in DOMAIN rs
  BY DEF Table, LiveRows
<1>2. DOMAIN r = DOMAIN rs /\ DOMAIN rs = 1 .. Len(rs) /\ Len(rs) \in Nat
  BY <1>1 DEF Moved
<1>3. ASSUME NEW t \in DOMAIN rs
      PROVE  /\ r[t] \in Rows /\ r[t].id = rs[t].id /\ r[t].dead = rs[t].dead
             /\ r[t].seg = IF t = s THEN sid ELSE rs[t].seg
  <2>1. rs[t] \in Rows
    BY <1>1
  <2>2. r[t] = IF t = s THEN [rs[t] EXCEPT !.seg = sid] ELSE rs[t]
    BY <1>1 DEF Moved
  <2>3. CASE t = s
    BY <2>1, <2>2, <2>3 DEF Rows
  <2>4. CASE t # s
    BY <2>1, <2>2, <2>4 DEF Rows
  <2> QED BY <2>3, <2>4
<1>4. r \in Seq(Rows)
  <2>1. r = [t \in 1 .. Len(rs) |-> r[t]]
    BY <1>1, <1>2 DEF Moved
  <2>2. \A t \in 1 .. Len(rs) : r[t] \in Rows
    BY <1>2, <1>3
  <2> QED BY <1>2, <2>1, <2>2, IsASeq
<1>5. LiveRows(r) = LiveRows(rs)
  BY <1>2, <1>3 DEF LiveRows
<1>6. \A t \in DOMAIN r : r[t].seg \in S \cup {0}
  BY <1>2, <1>3 DEF Table
<1>7. ASSUME NEW t \in LiveRows(r) PROVE r[t].seg # 0 /\ \A u \in LiveRows(r) : r[t].id = r[u].id => t = u
  BY <1>3, <1>5 DEF Table, LiveRows
<1>8. Table(r, S)
  BY <1>4, <1>6, <1>7 DEF Table
<1>9. LiveIds(r) = LiveIds(rs)
  BY <1>3, <1>5 DEF LiveIds, LiveRows
<1> QED BY <1>2, <1>3, <1>5, <1>8, <1>9 DEF MovedTo

(* A live record is copied to the active segment and its row moved; a      *)
(* record that died while it waited is skipped.                            *)
LEMMA CompactChunkStep ==
    ASSUME LogInv, CompactChunk
    PROVE  LogInv'
<1>1. /\ LogFiles(segs, active) /\ Table(rows, DOMAIN segs) /\ CompOK
      /\ synced \in 0 .. Len(segs[active]) /\ Len(segs[active]) \in Nat
      /\ acked \subseteq Ids /\ purged \subseteq Ids
  BY InvParts
<1>2. PICK todo : todo = {s \in comp.todo : ~rows[s].dead}
  OBVIOUS
<1>3. PICK s : s = Min(todo)
  OBVIOUS
<1>4. /\ comp.pc = "copy" /\ todo # {}
      /\ RotateIfFull(Framed(Copy(rows[s])), synced)
      /\ rows' = [rows EXCEPT ![s].seg = active]
      /\ comp' = [comp EXCEPT !.todo = todo \ {s}, !.moved = @ \cup {rows[s].id}]
      /\ UNCHANGED <<ckpt, acked, purged>>
  BY <1>2, <1>3 DEF CompactChunk, Copy
<1>5. comp.todo \subseteq DOMAIN rows /\ comp.sid \in DOMAIN segs \ {active}
      /\ \A t \in LiveRows(rows) : rows[t].seg = comp.sid => t \in comp.todo
  BY <1>1, <1>4 DEF CompOK
<1>6. rows \in Seq(Rows) /\ DOMAIN rows \subseteq Nat
  BY <1>1 DEF Table
<1>7. s \in todo /\ s \in LiveRows(rows) /\ rows[s] \in Rows
  <2>1. todo \subseteq Nat
    BY <1>2, <1>5, <1>6
  <2>2. s \in todo
    BY <1>3, <1>4, <2>1, MinIs
  <2> QED BY <2>2, <1>2, <1>5, <1>6 DEF LiveRows
<1>8. PICK fr : fr = Copy(rows[s])
  OBVIOUS
<1>9. /\ fr \in Seq(Frames) /\ 1 \in DOMAIN fr /\ fr[1].op = "put" /\ fr[1].id = rows[s].id
      /\ \A k \in DOMAIN fr : fr[k].op # "dead"
  BY <1>7, <1>8, CopyIs
<1>10. active \in DOMAIN segs /\ active # 0 /\ DOMAIN segs \subseteq Nat
  BY <1>1 DEF LogFiles
<1>11. /\ Table(rows', DOMAIN segs) /\ LiveRows(rows') = LiveRows(rows) /\ LiveIds(rows') = LiveIds(rows)
       /\ DOMAIN rows' = DOMAIN rows
       /\ \A t \in DOMAIN rows : rows'[t].id = rows[t].id /\ rows'[t].seg = IF t = s THEN active ELSE rows[t].seg
  <2>1. Moved(rows', rows, s, active)
    BY <1>4 DEF Moved
  <2>2. Table(rows', DOMAIN segs) /\ MovedTo(rows', rows, s, active)
    BY <2>1, <1>1, <1>7, <1>10, MovedIs
  <2> QED BY <2>2 DEF MovedTo
<1>12. Follow(rows', fr, rows, active, DOMAIN segs)
  <2>1. ASSUME NEW t \in LiveRows(rows')
        PROVE  \/ t \in LiveRows(rows) /\ rows[t].id = rows'[t].id /\ rows[t].seg = rows'[t].seg
               \/ /\ rows'[t].seg = active
                  /\ \E j \in DOMAIN fr : /\ fr[j].op = "put" /\ fr[j].id = rows'[t].id
                                          /\ \A k \in DOMAIN fr : fr[k].op = "dead" /\ fr[k].id = rows'[t].id => k <= j
    <3>1. t \in DOMAIN rows /\ t \in LiveRows(rows)
      BY <1>11 DEF LiveRows
    <3> QED BY <3>1, <1>9, <1>11
  <2>2. \A i : ~DeadIn(fr, i)
    BY <1>9 DEF DeadIn
  <2> QED BY <1>9, <1>11, <2>1, <2>2 DEF Follow
<1>13. Grown(segs, active, fr, Framed(fr), active)
  BY <1>1, <1>9, FramedIs
<1>14. synced \in 0 .. Len(Framed(fr)[active])
  <2>1. Len(segs[active]) <= Len(Framed(fr)[active]) /\ LogFiles(Framed(fr), active)
    BY <1>13, GrownIs DEF GrownHas
  <2>2. Framed(fr)[active] \in Seq(Frames)
    BY <2>1 DEF LogFiles
  <2>3. Len(Framed(fr)[active]) \in Nat
    BY <2>2
  <2> QED BY <1>1, <2>1, <2>3
<1>15. /\ Grown(segs, active, fr, segs', active') /\ synced' \in 0 .. Len(segs'[active'])
       /\ (active' = active => synced' = synced)
  BY <1>1, <1>4, <1>8, <1>13, <1>14, Rotated
<1>16. Unlocked /\ Gone' = 0
  BY <1>4 DEF Unlocked, Gone
<1>17. active' = active => synced <= synced'
  BY <1>1, <1>15
<1>18. Agree(segs', active', synced', rows', ckpt, 0, acked)
  BY <1>11, <1>12, <1>15, <1>16, <1>17, GrowStep
<1>19. CompOK'
  <2>1. comp'.pc = "copy" /\ comp'.sid = comp.sid /\ comp'.todo = todo \ {s}
    BY <1>4
  <2>2. comp.sid \in DOMAIN segs' \ {active'}
    <3>1. active \in Nat /\ DOMAIN segs \subseteq 1 .. active
      BY <1>1 DEF LogFiles
    <3>2. DOMAIN segs \subseteq DOMAIN segs' /\ (active' = active \/ active' = active + 1)
      BY <1>15 DEF Grown
    <3>3. active + 1 \notin DOMAIN segs
      BY <3>1
    <3> QED BY <1>5, <3>2, <3>3
  <2>3. todo \ {s} \subseteq DOMAIN rows'
    BY <1>2, <1>5, <1>11
  <2>4. ASSUME NEW t \in LiveRows(rows'), rows'[t].seg = comp.sid PROVE t \in todo \ {s}
    <3>1. t \in LiveRows(rows) /\ t \in DOMAIN rows /\ ~rows[t].dead
      BY <1>11 DEF LiveRows
    <3>2. t # s /\ rows[t].seg = comp.sid
      BY <3>1, <2>4, <1>5, <1>11
    <3> QED BY <3>1, <3>2, <1>2, <1>5
  <2> QED BY <2>1, <2>2, <2>3, <2>4 DEF CompOK
<1> QED BY <1>1, <1>4, <1>16, <1>18, <1>19 DEF LogInv

(* The markers carried over are of no live record's death.                 *)
LEMMA CarriedIs ==
    ASSUME NEW S, Table(rows, S), NEW sid, segs[sid] \in Seq(Frames)
    PROVE  Carried(sid) \in Seq(Frames) /\ \A i \in LiveIds(rows) : ~DeadIn(Carried(sid), i)
<1> DEFINE needed(f) ==
              LET s == SeqOfId(rows, f.id) IN
              /\ f.id \notin comp.moved /\ s # 0
              /\ \/ f.op = "dead" /\ rows[s].dead /\ rows[s].seg # sid
                 \/ f.op = "tag" /\ ~rows[s].dead /\ rows[s].seg < sid
           K == {k \in Markers(sid) : needed(segs[sid][k])}
           X == {segs[sid][k] : k \in K \cap DOMAIN segs[sid]}
<1>1. ASSUME NEW f, needed(f), f.op = "dead" PROVE f.id \notin LiveIds(rows)
  <2>1. SeqOfId(rows, f.id) # 0 /\ rows[SeqOfId(rows, f.id)].dead
    BY <1>1
  <2>2. f.id \in LiveIds(rows) => SeqOfId(rows, f.id) # 0 /\ ~rows[SeqOfId(rows, f.id)].dead
    BY Found
  <2> QED BY <2>1, <2>2
<1>2. Carried(sid) = Picked(segs[sid], K)
  BY DEF Carried
<1>3. \A k \in K : needed(segs[sid][k])
  OBVIOUS
<1> HIDE DEF needed, K
<1>4. Picked(segs[sid], K) \in Seq(X)
  BY PickedIn
<1>5. X \subseteq Frames
  OBVIOUS
<1>6. PICK q : q = Carried(sid)
  OBVIOUS
<1>7. q \in Seq(Frames) /\ \A k \in DOMAIN q : q[k] \in X
  <2>1. q \in Seq(X)
    BY <1>2, <1>4, <1>6
  <2> HIDE DEF X
  <2> QED BY <2>1, <1>5
<1>8. ASSUME NEW i \in LiveIds(rows), DeadIn(q, i) PROVE FALSE
  <2>1. PICK k \in DOMAIN q : q[k].op = "dead" /\ q[k].id = i
    BY <1>8 DEF DeadIn
  <2>2. PICK j \in K : q[k] = segs[sid][j]
    BY <1>7
  <2> QED BY <2>1, <2>2, <1>1, <1>3
<1> QED BY <1>6, <1>7, <1>8

(* A row whose bytes have gone is still a row.                             *)
LEMMA Unbacked ==
    ASSUME NEW w \in Rows, NEW x, x = [w EXCEPT !.seg = 0, !.tags = {}]
    PROVE  x \in Rows /\ x.id = w.id /\ x.dead = w.dead /\ x.seg = 0
<1> DEFINE v == [w EXCEPT !.seg = 0]
<1>1. v \in Rows /\ v.id = w.id /\ v.dead = w.dead /\ v.seg = 0
  BY DEF Rows
<1>2. x = [v EXCEPT !.tags = {}]
  OBVIOUS
<1> HIDE DEF v
<1>3. [v EXCEPT !.tags = {}] \in Rows
  BY <1>1 DEF Rows
<1>4. x.id = v.id /\ x.dead = v.dead /\ x.seg = v.seg
  BY <1>1, <1>2 DEF Rows
<1> QED BY <1>1, <1>2, <1>3, <1>4

(* The dead records of segment sid have no bytes any more; nothing else    *)
(* changes.                                                                *)
DroppedOf(r, rs, sid) ==
    /\ LiveRows(r) = LiveRows(rs) /\ LiveIds(r) = LiveIds(rs) /\ DOMAIN r = DOMAIN rs
    /\ \A s \in LiveRows(rs) : r[s].id = rs[s].id /\ r[s].seg = rs[s].seg
    /\ \A s \in DOMAIN r : r[s].seg # sid

(* With every live record moved away, dropping the segment from the rows   *)
(* changes no record's life.                                               *)
LEMMA DroppedIs ==
    ASSUME NEW S, Table(rows, S), NEW sid \in Nat \ {0}, \A s \in LiveRows(rows) : rows[s].seg # sid
    PROVE  Table(Dropped(sid), S) /\ DroppedOf(Dropped(sid), rows, sid)
<1>1. PICK r : r = Dropped(sid)
  OBVIOUS
<1>2. rows \in Seq(Rows) /\ DOMAIN rows = 1 .. Len(rows) /\ Len(rows) \in Nat
  BY DEF Table
<1>3. DOMAIN r = DOMAIN rows
  BY <1>1 DEF Dropped
<1>4. ASSUME NEW t \in DOMAIN rows
      PROVE  /\ r[t] \in Rows /\ r[t].id = rows[t].id /\ r[t].dead = rows[t].dead
             /\ r[t].seg = IF rows[t].seg = sid THEN 0 ELSE rows[t].seg
  <2>1. rows[t] \in Rows
    BY <1>2
  <2>2. r[t] = IF rows[t].seg = sid THEN [rows[t] EXCEPT !.seg = 0, !.tags = {}] ELSE rows[t]
    BY <1>1 DEF Dropped
  <2>3. CASE rows[t].seg = sid
    <3>1. PICK w \in Rows : w = rows[t]
      BY <2>1
    <3>2. r[t] = [w EXCEPT !.seg = 0, !.tags = {}]
      BY <2>2, <2>3, <3>1
    <3>3. r[t] \in Rows /\ r[t].id = w.id /\ r[t].dead = w.dead /\ r[t].seg = 0
      BY <3>2, Unbacked
    <3> QED BY <2>3, <3>1, <3>3
  <2>4. CASE rows[t].seg # sid
    BY <2>1, <2>2, <2>4 DEF Rows
  <2> QED BY <2>3, <2>4
<1>5. r \in Seq(Rows)
  <2>1. r = [t \in 1 .. Len(rows) |-> r[t]]
    BY <1>1, <1>2 DEF Dropped
  <2>2. \A t \in 1 .. Len(rows) : r[t] \in Rows
    BY <1>2, <1>4
  <2> QED BY <1>2, <2>1, <2>2, IsASeq
<1>6. LiveRows(r) = LiveRows(rows)
  BY <1>3, <1>4 DEF LiveRows
<1>7. \A t \in DOMAIN r : r[t].seg \in S \cup {0} /\ r[t].seg # sid
  BY <1>3, <1>4 DEF Table
<1>8. \A t \in LiveRows(rows) : r[t].id = rows[t].id /\ r[t].seg = rows[t].seg
  BY <1>4 DEF LiveRows
<1>9. ASSUME NEW t \in LiveRows(r) PROVE r[t].seg # 0 /\ \A u \in LiveRows(r) : r[t].id = r[u].id => t = u
  BY <1>6, <1>8 DEF Table
<1>10. Table(r, S)
  BY <1>5, <1>7, <1>9 DEF Table
<1>11. LiveIds(r) = LiveIds(rows)
  BY <1>6, <1>8 DEF LiveIds
<1> QED BY <1>1, <1>3, <1>6, <1>7, <1>8, <1>10, <1>11 DEF DroppedOf

(* All records are done: the markers that are still needed are carried     *)
(* over, the log is synced and the checkpoint names the segment deleted.   *)
LEMMA CompactFinishStep ==
    ASSUME LogInv, CompactFinish
    PROVE  LogInv'
<1>1. /\ LogFiles(segs, active) /\ Table(rows, DOMAIN segs) /\ CompOK
      /\ synced \in 0 .. Len(segs[active]) /\ Len(segs[active]) \in Nat
  BY InvParts
<1>2. PICK sid : sid = comp.sid
  OBVIOUS
<1>3. PICK fr : fr = Carried(sid)
  OBVIOUS
<1>4. PICK files : files = Framed(fr)
  OBVIOUS
<1>5. /\ comp.pc = "copy" /\ \A s \in comp.todo : rows[s].dead
      /\ RotateIfFull(files, Len(files[active]))
      /\ rows' = Dropped(sid)
      /\ ckpt' = Checkpoint(rows', DOMAIN segs', active', synced', {sid})
      /\ comp' = [pc |-> "remove", sid |-> sid]
      /\ Acknowledge
  BY <1>2, <1>3, <1>4 DEF CompactFinish
<1>6. sid \in DOMAIN segs \ {active} /\ \A t \in LiveRows(rows) : rows[t].seg = sid => t \in comp.todo
  BY <1>1, <1>2, <1>5 DEF CompOK
<1>7. \A t \in LiveRows(rows) : rows[t].seg # sid
  BY <1>5, <1>6 DEF LiveRows
<1>8. sid \in Nat \ {0} /\ segs[sid] \in Seq(Frames)
  BY <1>1, <1>6 DEF LogFiles
<1>9. /\ Table(rows', DOMAIN segs) /\ LiveRows(rows') = LiveRows(rows) /\ LiveIds(rows') = LiveIds(rows)
      /\ DOMAIN rows' = DOMAIN rows /\ \A s \in DOMAIN rows' : rows'[s].seg # sid
      /\ \A s \in LiveRows(rows) : rows'[s].id = rows[s].id /\ rows'[s].seg = rows[s].seg
  BY <1>1, <1>5, <1>7, <1>8, DroppedIs DEF DroppedOf
<1>10. fr \in Seq(Frames) /\ \A i \in LiveIds(rows) : ~DeadIn(fr, i)
  BY <1>1, <1>3, <1>8, CarriedIs
<1>11. Follow(rows', fr, rows, active, DOMAIN segs)
  BY <1>9, <1>10 DEF Follow
<1>12. Grown(segs, active, fr, files, active)
  BY <1>1, <1>4, <1>10, FramedIs
<1>13. Len(files[active]) \in 0 .. Len(files[active])
  <2>1. LogFiles(files, active)
    BY <1>12, GrownIs
  <2>2. files[active] \in Seq(Frames)
    BY <2>1 DEF LogFiles
  <2> QED BY <2>2
<1>14. /\ Grown(segs, active, fr, segs', active') /\ synced' \in 0 .. Len(segs'[active'])
       /\ (active' = active /\ synced' = Len(files[active])) \/ (active' # active /\ synced' = Len(segs'[active']))
  BY <1>1, <1>5, <1>12, <1>13, Rotated
<1>15. synced' = Len(segs'[active'])
  <2>1. active' = active => segs'[active] = files[active]
    BY <1>12, <1>14 DEF Grown
  <2> QED BY <2>1, <1>14
<1>16. Unlocked /\ Gone' = sid
  BY <1>5 DEF Unlocked, Gone
<1>17. /\ Agree(segs', active', synced', rows', ckpt', Gone', acked')
       /\ ckpt' # NoCkpt /\ ckpt'.at = active' /\ ckpt'.deleted = {sid}
  <2>1. PICK del : del = {sid}
    OBVIOUS
  <2>2. (del = {} /\ sid = 0) \/ (del = {sid} /\ sid \in DOMAIN segs \ {active})
    BY <2>1, <1>6
  <2>3. \A s \in DOMAIN rows' : rows'[s].seg \notin del
    BY <2>1, <1>9
  <2>4. ckpt' = Checkpoint(rows', DOMAIN segs', active', synced', del)
    BY <2>1, <1>5
  <2>5. /\ Agree(segs', active', synced', rows', ckpt', Gone', acked')
        /\ ckpt' # NoCkpt /\ ckpt'.at = active' /\ ckpt'.deleted = del
    BY <2>2, <2>3, <2>4, <1>5, <1>9, <1>11, <1>14, <1>15, <1>16, CheckpointStep
  <2> QED BY <2>1, <2>5
<1>18. CompOK'
  <2>1. comp'.pc = "remove" /\ comp'.sid = sid
    BY <1>5
  <2>2. sid \in DOMAIN segs' \ {active'}
    <3>1. active \in Nat /\ DOMAIN segs \subseteq 1 .. active
      BY <1>1 DEF LogFiles
    <3>2. DOMAIN segs \subseteq DOMAIN segs' /\ (active' = active \/ active' = active + 1)
      BY <1>14 DEF Grown
    <3>3. active + 1 \notin DOMAIN segs
      BY <3>1
    <3> QED BY <1>6, <3>2, <3>3
  <2> QED BY <2>1, <2>2, <1>9, <1>17 DEF CompOK
<1> QED BY <1>5, <1>17, <1>18, AnsweredIds DEF LogInv

(* What a crash leaves of the files.                                       *)
LEMMA CutIs ==
    ASSUME LogFiles(segs, active), NEW n \in 0 .. Len(segs[active]), NEW out, active \notin out
    PROVE  /\ DOMAIN Cut(n) = DOMAIN segs
           /\ Shrunk(segs, active, n, out, Restrict(Cut(n), DOMAIN segs \ out))
           /\ Shrunk(segs, active, n, {}, Cut(n))
<1>1. PICK q : q = SubSeq(segs[active], 1, n)
  OBVIOUS
<1>2. PICK C : C = Cut(n)
  OBVIOUS
<1>3. C = [segs EXCEPT ![active] = q] /\ active \in DOMAIN segs
  BY <1>1, <1>2 DEF Cut, LogFiles
<1>4. DOMAIN C = DOMAIN segs /\ C[active] = q /\ \A h \in DOMAIN segs : h # active => C[h] = segs[h]
  BY <1>3
<1>5. PICK G : G = Restrict(C, DOMAIN segs \ out)
  OBVIOUS
<1>6. DOMAIN G = DOMAIN segs \ out /\ \A h \in DOMAIN segs \ out : G[h] = C[h]
  BY <1>5 DEF Restrict
<1>7. Shrunk(segs, active, n, out, G)
  BY <1>1, <1>3, <1>4, <1>6 DEF Shrunk
<1>8. Shrunk(segs, active, n, {}, C)
  BY <1>1, <1>3, <1>4 DEF Shrunk
<1> QED BY <1>2, <1>4, <1>5, <1>7, <1>8

(* Open with a checkpoint that is accepted: its table and what is behind   *)
(* it.                                                                     *)
LEMMA RestartFromCheckpointStep ==
    ASSUME LogInv, RestartFromCheckpoint
    PROVE  LogInv'
<1>1. /\ LogFiles(segs, active) /\ CompOK /\ synced \in 0 .. Len(segs[active]) /\ Len(segs[active]) \in Nat
      /\ acked \subseteq Ids /\ purged \subseteq Ids
  BY InvParts
<1>2. PICK n \in synced .. Len(segs[active]) :
            /\ Usable(Cut(n))
            /\ rows' = ReplayFrom(ckpt.rows, segs', ckpt.at, ckpt.len)
            /\ segs' = Restrict(Cut(n), DOMAIN segs \ ckpt.deleted)
            /\ synced' = n /\ comp' = Idle
            /\ UNCHANGED <<active, acked, purged, ckpt>>
  BY DEF RestartFromCheckpoint, Reopen
<1>3. Agree(segs, active, synced, rows, ckpt, Gone, acked)
  BY DEF LogInv
<1>4. ckpt # NoCkpt /\ ckpt.listed \subseteq DOMAIN Cut(n)
  BY <1>2 DEF Usable
<1>5. Fits(ckpt, segs, active, synced, Gone)
  BY <1>3, <1>4 DEF Agree
<1>6. active \in Nat /\ DOMAIN segs \subseteq 1 .. active /\ ckpt.at \in DOMAIN segs /\ ckpt.deleted \subseteq 1 .. active - 1
  BY <1>1, <1>5 DEF Fits, LogFiles
<1>7. active \notin ckpt.deleted /\ n \in 0 .. Len(segs[active])
  BY <1>1, <1>6
<1>8. DOMAIN Cut(n) = DOMAIN segs /\ Shrunk(segs, active, n, ckpt.deleted, segs')
  BY <1>1, <1>2, <1>7, CutIs
<1>9. ckpt.at # Gone /\ (Gone # 0 => ckpt.at = active)
  <2>1. CASE comp.pc = "remove"
    BY <2>1, <1>1 DEF CompOK, Gone
  <2>2. CASE comp.pc # "remove"
    BY <2>2, <1>6 DEF Gone
  <2> QED BY <2>1, <2>2
<1>10. Agree(segs', active, n, ReplayFrom(ckpt.rows, segs', ckpt.at, ckpt.len), ckpt, 0, acked)
  BY <1>3, <1>4, <1>8, <1>9, FromCheckpoint
<1>11. Gone' = 0 /\ CompOK'
  BY <1>2 DEF Gone, CompOK, Idle
<1> QED BY <1>1, <1>2, <1>10, <1>11 DEF LogInv

(* A full replay's checkpoint is where the table last grew.                *)
LEMMA ReplayCheckpointIs ==
    ASSUME NEW G, LogFiles(G, active), NEW c, c = CheckpointOfReplay(G)
    PROVE  c = NoCkpt \/ \E p, nx : ReplayedTo(c, G, p, nx)
<1> DEFINE upTo(sid) == Restrict(G, {x \in DOMAIN G : x <= sid})
           before(sid) == Restrict(G, {x \in DOMAIN G : x < sid})
           grew == {sid \in DOMAIN G \ {active} : Len(ReplayAll(upTo(sid))) > Len(ReplayAll(before(sid)))}
           p == Max(grew)
           after == {x \in DOMAIN G : x > p}
           nx == Min(after)
<1>1. c = IF grew = {} THEN NoCkpt
          ELSE Checkpoint(ReplayAll(UpToSeg(G, p)), DOMAIN G, nx, 0, {})
  BY DEF CheckpointOfReplay, UpToSeg
<1>2. grew \subseteq DOMAIN G \ {active}
  OBVIOUS
<1> HIDE DEF grew
<1>3. active \in Nat /\ active \in DOMAIN G /\ DOMAIN G \subseteq 1 .. active
  BY DEF LogFiles
<1>4. ASSUME grew # {} PROVE ReplayedTo(c, G, p, nx)
  <2>1. grew \subseteq 0 .. active
    BY <1>2, <1>3
  <2>2. p \in grew
    BY <2>1, <1>3, <1>4, MaxIs
  <2> HIDE DEF p
  <2>3. p \in DOMAIN G /\ p < active
    <3>1. p \in 1 .. active /\ p # active
      BY <2>2, <1>2, <1>3
    <3> QED BY <3>1, <2>2, <1>2, <1>3
  <2>4. after \subseteq Nat /\ after # {}
    BY <2>3, <1>3
  <2>5. nx \in after /\ \A x \in after : nx <= x
    <3> HIDE DEF after
    <3> QED BY <2>4, MinIs
  <2> HIDE DEF nx
  <2> QED BY <2>3, <2>5, <1>1, <1>4 DEF ReplayedTo
<1> QED BY <1>1, <1>4

(* Open with no checkpoint, or a refused one: the table of all the         *)
(* segments.                                                               *)
LEMMA RestartReplayingAllStep ==
    ASSUME LogInv, RestartReplayingAll
    PROVE  LogInv'
<1>1. /\ LogFiles(segs, active) /\ synced \in 0 .. Len(segs[active]) /\ Len(segs[active]) \in Nat
      /\ acked \subseteq Ids /\ purged \subseteq Ids
  BY InvParts
<1>2. PICK n \in synced .. Len(segs[active]) :
            /\ rows' = ReplayAll(Cut(n)) /\ ckpt' = CheckpointOfReplay(Cut(n))
            /\ segs' = Cut(n) /\ synced' = n /\ comp' = Idle
            /\ UNCHANGED <<active, acked, purged>>
  BY DEF RestartReplayingAll, Reopen
<1>3. Agree(segs, active, synced, rows, ckpt, Gone, acked)
  BY DEF LogInv
<1>4. PICK G, c : G = Cut(n) /\ c = CheckpointOfReplay(G)
  OBVIOUS
<1>5. Shrunk(segs, active, n, {}, G)
  <2>1. n \in 0 .. Len(segs[active]) /\ active \notin {}
    BY <1>1
  <2>2. PICK out : out = {}
    OBVIOUS
  <2>3. active \notin out
    BY <2>2
  <2>4. Shrunk(segs, active, n, {}, Cut(n))
    BY <2>1, <2>3, <1>1, CutIs
  <2> QED BY <2>4, <1>4
<1>6. LogFiles(G, active)
  BY <1>5, ShrunkIs DEF ShrunkHas
<1>7. c = NoCkpt \/ \E p, nx : ReplayedTo(c, G, p, nx)
  BY <1>4, <1>6, ReplayCheckpointIs
<1>8. Agree(G, active, n, ReplayAll(G), c, 0, acked)
  BY <1>3, <1>5, <1>7, FromNothing
<1>9. Gone' = 0 /\ CompOK'
  BY <1>2 DEF Gone, CompOK, Idle
<1> QED BY <1>1, <1>2, <1>4, <1>8, <1>9 DEF LogInv

-----------------------------------------------------------------------------
(* The theorems.                                                           *)

(* An empty store.                                                         *)
LEMMA LogInvInit ==
    ASSUME Init
    PROVE  LogInv
<1>1. /\ segs = [sid \in {1} |-> <<>>] /\ active = 1 /\ synced = 0 /\ rows = <<>>
      /\ ckpt = NoCkpt /\ comp.pc = "idle" /\ acked = {} /\ purged = {}
  BY DEF Init, Idle
<1>2. LogFiles(segs, active) /\ synced \in 0 .. Len(segs[active])
  BY <1>1 DEF LogFiles
<1>3. Table(rows, DOMAIN segs) /\ Logged(rows, segs) /\ LiveIds(rows) = {}
  BY <1>1 DEF Table, Logged, LiveRows, LiveIds
<1>4. Agree(segs, active, synced, rows, ckpt, Gone, acked)
  BY <1>1, <1>2, <1>3 DEF Agree
<1>5. CompOK
  BY <1>1 DEF CompOK
<1> QED BY <1>1, <1>4, <1>5 DEF LogInv

(* Every step.                                                             *)
LEMMA LogInvNext ==
    ASSUME LogInv, [Next]_vars
    PROVE  LogInv'
<1>1. CASE Next
  <2>1. CASE \E i \in Ids, o \in Origins : Ingest(i, o)
    BY <2>1, IngestStep
  <2>2. CASE \E s \in DOMAIN rows : Prune(s)
    BY <2>2, PruneStep
  <2>3. CASE Sync
    BY <2>3, SyncStep
  <2>4. CASE Flush
    BY <2>4, FlushesStep
  <2>5. CASE Snapshot
    BY <2>5, SnapshotStep
  <2>6. CASE \E sid \in DOMAIN segs : CompactStart(sid)
    BY <2>6, CompactStartStep
  <2>7. CASE CompactChunk
    BY <2>7, CompactChunkStep
  <2>8. CASE CompactFinish
    BY <2>8, CompactFinishStep
  <2>9. CASE CompactRemove
    BY <2>9, CompactRemoveStep
  <2>10. CASE RestartFromCheckpoint
    BY <2>10, RestartFromCheckpointStep
  <2>11. CASE RestartReplayingAll
    BY <2>11, RestartReplayingAllStep
  <2> QED BY <1>1, <2>1, <2>2, <2>3, <2>4, <2>5, <2>6, <2>7, <2>8, <2>9, <2>10, <2>11 DEF Next
<1>2. CASE UNCHANGED vars
  BY <1>2 DEF vars, LogInv, CompOK, Gone
<1> QED BY <1>1, <1>2

(* In every reachable state the table, the segment files and the           *)
(* checkpoint agree, whatever was written, compacted, crashed or replayed. *)
THEOREM Agreement == Spec => []LogInv
<1> QED BY LogInvInit, LogInvNext, PTL DEF Spec

(* LogInv is at least as strong as the type invariant.                     *)
LEMMA ImpliesTypeOK ==
    ASSUME LogInv
    PROVE  TypeOK
<1>1. Agree(segs, active, synced, rows, ckpt, Gone, acked) /\ CompOK /\ acked \subseteq Ids /\ purged \subseteq Ids
  BY DEF LogInv
<1>2. LogFiles(segs, active) /\ Table(rows, DOMAIN segs) /\ synced \in 0 .. Len(segs[active])
      /\ (ckpt # NoCkpt => Fits(ckpt, segs, active, synced, Gone))
  BY <1>1 DEF Agree
<1>3. active \in DOMAIN segs /\ DOMAIN segs \subseteq 1 .. active /\ \A sid \in DOMAIN segs : segs[sid] \in Seq(Frames)
  BY <1>2 DEF LogFiles
<1>4. rows \in Seq(Rows) /\ \A s \in DOMAIN rows : rows[s].seg = 0 \/ rows[s].seg \in DOMAIN segs
  BY <1>2 DEF Table
<1>5. ckpt = NoCkpt \/ ckpt.at \in 1 .. active
  BY <1>2, <1>3 DEF Fits
<1> QED BY <1>1, <1>2, <1>3, <1>4, <1>5 DEF TypeOK, CompOK

(* A table has one live record of an id.                                   *)
LEMMA ImpliesOneLiveRecord ==
    ASSUME LogInv
    PROVE  OneLiveRecord
  BY DEF LogInv, Agree, Table, OneLiveRecord

(* What was answered for is live, and live records have bytes.             *)
LEMMA ImpliesAckedNoteKept ==
    ASSUME LogInv
    PROVE  AckedNoteKept
<1>1. Agree(segs, active, synced, rows, ckpt, Gone, acked)
  BY DEF LogInv
<1>2. Table(rows, DOMAIN segs) /\ \A i \in acked : ~IsVersioned(i) => i \in LiveIds(rows)
  BY <1>1 DEF Agree
<1>3. \A s \in LiveRows(rows) : rows[s].seg # 0
  BY <1>2 DEF Table
<1> QED BY <1>2, <1>3 DEF LiveIds, AckedNoteKept

(* Types, and every record with bytes points into a segment file that      *)
(* exists, whatever a compaction removed or a restart found.               *)
THEOREM TypeCorrect == Spec => []TypeOK
<1> QED BY Agreement, ImpliesTypeOK, PTL

(* An event that arrives twice, is replayed from two segments or copied by *)
(* a compaction that crashed before it removed the original still has one  *)
(* live record: Store.put and the replay of a segment both ask _seq_of.    *)
THEOREM Deduped == Spec => []OneLiveRecord
<1> QED BY Agreement, ImpliesOneLiveRecord, PTL

(* A note the relay answered "saved" for can be read, through crashes,     *)
(* compactions and refused checkpoints, until its author deletes it or it  *)
(* is pruned.                                                              *)
THEOREM NotesKept == Spec => []AckedNoteKept
<1> QED BY Agreement, ImpliesAckedNoteKept, PTL

=============================================================================
