------------------------ MODULE PcdbCheckpointProofs -------------------------
(***************************************************************************)
(* Proofs about PcdbCheckpoint, for any number of rows, operations,        *)
(* checkpoints, upgrades and refusals.  What holds whatever happens to a   *)
(* checkpoint comes first: the types, and that the log alone recovers the  *)
(* table (the inductive invariant Base).  Then what holds until a start    *)
(* has refused one: it recovers the table exactly (IInv), so the files     *)
(* implement the durable table.                                            *)
(***************************************************************************)
EXTENDS PcdbCheckpoint, NatOrder, SequenceTheorems

Value == Nat \X Nat

(* The rows of the first n operations of a log, and the last of them that  *)
(* wrote row i.                                                            *)
RowsOf(ops, n) == {0} \cup {ops[k] : k \in 1 .. n}
WritesOf(ops, n, i) == {k \in 1 .. n : ops[k] = i}
TopRow(ops, n) == Max(RowsOf(ops, n))
Last(ops, n, i) == Max(WritesOf(ops, n, i))

(* A row is appended right after the row before it: what is below a row    *)
(* the log names was written earlier.                                      *)
Dense(ops) == \A k \in 1 .. Len(ops) : \A j \in 1 .. ops[k] - 1 : \E l \in 1 .. k - 1 : ops[l] = j

(* The highest row there is, or zero.                                      *)
LEMMA TopRowIs ==
    ASSUME NEW ops \in Seq(Files), NEW n \in 0 .. Len(ops)
    PROVE  /\ TopRow(ops, n) \in 0 .. MaxRow
           /\ \A k \in 1 .. n : ops[k] <= TopRow(ops, n)
           /\ TopRow(ops, n) = 0 \/ \E k \in 1 .. n : ops[k] = TopRow(ops, n)
<1> DEFINE S == RowsOf(ops, n)
<1>1. S \subseteq 0 .. MaxRow /\ S # {} /\ MaxRow \in Nat
  BY CheckpointAssumption DEF RowsOf, Files
<1>2. Max(S) \in S /\ \A x \in S : x <= Max(S)
  <2> HIDE DEF S
  <2> QED
    BY <1>1, MaxIs
<1> QED
  BY <1>1, <1>2 DEF RowsOf, TopRow

LEMMA TopRowUnique ==
    ASSUME NEW ops \in Seq(Files), NEW n \in 0 .. Len(ops), NEW t \in Nat,
           \A k \in 1 .. n : ops[k] <= t, t = 0 \/ \E k \in 1 .. n : ops[k] = t
    PROVE  TopRow(ops, n) = t
<1> DEFINE S == RowsOf(ops, n)
<1>0. \A k \in 1 .. n : ops[k] \in Int
  BY CheckpointAssumption DEF Files
<1>1. S \subseteq Int /\ t \in S /\ \A x \in S : x <= t
  <2>1. S \subseteq Int
    BY <1>0 DEF RowsOf
  <2>2. t \in S
    BY DEF RowsOf
  <2>3. \A x \in S : x <= t
    BY DEF RowsOf
  <2> QED
    BY <2>1, <2>2, <2>3
<1>2. Max(S) = t
  <2> HIDE DEF S
  <2> QED
    BY <1>1, MaxUnique
<1> QED
  BY <1>2 DEF TopRow

(* The last marked position of a sequence, or zero.                        *)
LEMMA LastIs ==
    ASSUME NEW ops \in Seq(Files), NEW n \in 0 .. Len(ops), NEW i, \E k \in 1 .. n : ops[k] = i
    PROVE  /\ Last(ops, n, i) \in 1 .. n
           /\ ops[Last(ops, n, i)] = i
           /\ \A k \in 1 .. n : ops[k] = i => k <= Last(ops, n, i)
<1> DEFINE S == WritesOf(ops, n, i)
<1>1. S \subseteq 0 .. n /\ S # {} /\ n \in Nat
  BY DEF WritesOf
<1>2. Max(S) \in S /\ \A x \in S : x <= Max(S)
  <2> HIDE DEF S
  <2> QED
    BY <1>1, MaxIs
<1> QED
  BY <1>2 DEF WritesOf, Last

LEMMA LastUnique ==
    ASSUME NEW ops \in Seq(Files), NEW n \in 0 .. Len(ops), NEW i, NEW m \in 1 .. n,
           ops[m] = i, \A k \in 1 .. n : ops[k] = i => k <= m
    PROVE  Last(ops, n, i) = m
<1> DEFINE S == WritesOf(ops, n, i)
<1>1. S \subseteq Int /\ m \in S /\ \A x \in S : x <= m
  BY DEF WritesOf
<1>2. Max(S) = m
  <2> HIDE DEF S
  <2> QED
    BY <1>1, MaxUnique
<1> QED
  BY <1>2 DEF Last

(* TableOf in these terms.                                                 *)
LEMMA TableOfIs ==
    ASSUME NEW ops \in Seq(Files), NEW e
    PROVE  TableOf(ops, e) = [i \in 1 .. TopRow(ops, Len(ops)) |-> <<e, Last(ops, Len(ops), i)>>]
<1>1. {0} \cup {ops[k] : k \in DOMAIN ops} = RowsOf(ops, Len(ops))
  BY DEF RowsOf
<1>2. ASSUME NEW i PROVE LastWrite(ops, i) = Last(ops, Len(ops), i)
  <2>1. {k \in DOMAIN ops : ops[k] = i} = WritesOf(ops, Len(ops), i)
    BY DEF WritesOf
  <2> QED
    BY <2>1 DEF LastWrite, Last
<1> QED
  BY <1>1, <1>2 DEF TableOf, TopRow

(* Every row up to the highest was written.                                *)
LEMMA DenseRows ==
    ASSUME NEW ops \in Seq(Files), Dense(ops), NEW n \in 0 .. Len(ops), NEW i \in 1 .. TopRow(ops, n)
    PROVE  \E k \in 1 .. n : ops[k] = i
<1>1. PICK k \in 1 .. n : ops[k] = TopRow(ops, n)
  BY TopRowIs
<1>2. CASE i = TopRow(ops, n)
  BY <1>1, <1>2
<1>3. CASE i # TopRow(ops, n)
  <2>1. i \in 1 .. ops[k] - 1
    BY <1>1, <1>3, TopRowIs
  <2>2. PICK l \in 1 .. k - 1 : ops[l] = i
    BY <2>1 DEF Dense
  <2> QED
    BY <2>2
<1> QED
  BY <1>2, <1>3

(* A prefix of the log.                                                    *)
LEMMA PrefixOf ==
    ASSUME NEW ops \in Seq(Files), NEW m \in 0 .. Len(ops)
    PROVE  /\ SubSeq(ops, 1, m) \in Seq(Files) /\ Len(SubSeq(ops, 1, m)) = m
           /\ \A k \in 1 .. m : SubSeq(ops, 1, m)[k] = ops[k]
           /\ Dense(ops) => Dense(SubSeq(ops, 1, m))
           /\ \A n \in 0 .. m : /\ TopRow(SubSeq(ops, 1, m), n) = TopRow(ops, n)
                                /\ \A i : Last(SubSeq(ops, 1, m), n, i) = Last(ops, n, i)
<1> DEFINE p == SubSeq(ops, 1, m)
<1>1. p \in Seq(Files) /\ Len(p) = m /\ \A k \in 1 .. m : p[k] = ops[k]
  OBVIOUS
<1> HIDE DEF p
<1>2. Dense(ops) => Dense(p)
  <2> SUFFICES ASSUME Dense(ops), NEW k \in 1 .. m, NEW j \in 1 .. p[k] - 1
               PROVE  \E l \in 1 .. k - 1 : p[l] = j
    BY <1>1 DEF Dense
  <2>1. PICK l \in 1 .. k - 1 : ops[l] = j
    BY <1>1 DEF Dense
  <2> QED
    BY <1>1, <2>1
<1>3. ASSUME NEW n \in 0 .. m, NEW i
      PROVE  RowsOf(p, n) = RowsOf(ops, n) /\ WritesOf(p, n, i) = WritesOf(ops, n, i)
  BY <1>1 DEF RowsOf, WritesOf
<1> QED
  BY <1>1, <1>2, <1>3 DEF TopRow, Last, p

(* One more operation.                                                     *)
LEMMA AppendOf ==
    ASSUME NEW ops \in Seq(Files), Dense(ops), NEW i \in Files, i <= TopRow(ops, Len(ops)) + 1
    PROVE  LET new == Append(ops, i) n == Len(ops) IN
           /\ new \in Seq(Files) /\ Len(new) = n + 1 /\ Dense(new)
           /\ \A m \in 0 .. n : /\ TopRow(new, m) = TopRow(ops, m)
                                /\ \A j : Last(new, m, j) = Last(ops, m, j)
           /\ TopRow(new, n + 1) = IF i > TopRow(ops, n) THEN i ELSE TopRow(ops, n)
           /\ Last(new, n + 1, i) = n + 1
           /\ \A j : j # i => Last(new, n + 1, j) = Last(ops, n, j)
<1> DEFINE new == Append(ops, i)
           n == Len(ops)
<1>1. /\ new \in Seq(Files) /\ Len(new) = n + 1 /\ n \in Nat
      /\ \A k \in 1 .. n : new[k] = ops[k]
      /\ new[n + 1] = i
  OBVIOUS
<1>2. TopRow(ops, n) \in Nat /\ \A k \in 1 .. n : ops[k] \in Nat
  BY TopRowIs, CheckpointAssumption DEF Files
<1> HIDE DEF new
<1>3. Dense(new)
  <2> SUFFICES ASSUME NEW k \in 1 .. n + 1, NEW j \in 1 .. new[k] - 1
               PROVE  \E l \in 1 .. k - 1 : new[l] = j
    BY <1>1 DEF Dense
  <2>1. CASE k <= n
    <3>1. PICK l \in 1 .. k - 1 : ops[l] = j
      BY <1>1, <2>1 DEF Dense
    <3> QED
      BY <1>1, <2>1, <3>1
  <2>2. CASE k = n + 1
    <3>1. j \in 1 .. TopRow(ops, n)
      BY <1>1, <1>2, <2>2, CheckpointAssumption DEF Files
    <3>2. PICK l \in 1 .. n : ops[l] = j
      BY <3>1, DenseRows
    <3> QED
      BY <1>1, <2>2, <3>2
  <2> QED
    BY <1>1, <2>1, <2>2
<1>4. ASSUME NEW m \in 0 .. n, NEW j
      PROVE  RowsOf(new, m) = RowsOf(ops, m) /\ WritesOf(new, m, j) = WritesOf(ops, m, j)
  BY <1>1 DEF RowsOf, WritesOf
<1>5. TopRow(new, n + 1) = IF i > TopRow(ops, n) THEN i ELSE TopRow(ops, n)
  <2> DEFINE t == IF i > TopRow(ops, n) THEN i ELSE TopRow(ops, n)
  <2>1. t \in Nat /\ n + 1 \in 0 .. Len(new)
    BY <1>1, <1>2, CheckpointAssumption DEF Files
  <2>2. \A k \in 1 .. n + 1 : new[k] <= t
    <3>1. \A k \in 1 .. n : ops[k] <= TopRow(ops, n)
      BY <1>1, TopRowIs
    <3>2. i \in Nat
      BY CheckpointAssumption DEF Files
    <3> QED
      BY <1>1, <1>2, <3>1, <3>2
  <2>3. t = 0 \/ \E k \in 1 .. n + 1 : new[k] = t
    <3>1. CASE i > TopRow(ops, n)
      BY <1>1, <3>1
    <3>2. CASE ~(i > TopRow(ops, n)) /\ TopRow(ops, n) # 0
      <4>1. PICK k \in 1 .. n : ops[k] = TopRow(ops, n)
        BY <3>2, <1>1, TopRowIs
      <4> QED
        BY <1>1, <3>2, <4>1
    <3> QED
      BY <3>1, <3>2
  <2> HIDE DEF t
  <2>4. TopRow(new, n + 1) = t
    BY <1>1, <2>1, <2>2, <2>3, TopRowUnique
  <2> QED
    BY <2>4 DEF t
<1>6. Last(new, n + 1, i) = n + 1
  BY <1>1, LastUnique
<1>7. ASSUME NEW j, j # i PROVE WritesOf(new, n + 1, j) = WritesOf(ops, n, j)
  BY <1>1, <1>7 DEF WritesOf
<1> QED
  BY <1>1, <1>3, <1>4, <1>5, <1>6, <1>7 DEF TopRow, Last, new

(* What a checkpoint and the operations after it give: a row some later    *)
(* operation wrote has that operation's value, another its value in the    *)
(* files.                                                                  *)
LEMMA ReplayedIs ==
    ASSUME NEW ops \in Seq(Files), Dense(ops), NEW c, NEW m,
           m.pos \in 0 .. Len(ops), m.n = TopRow(ops, m.pos)
    PROVE  LET r == Replayed(c, m, ops) n == Len(ops) IN
           /\ r = [i \in 1 .. TopRow(ops, n) |-> r[i]]
           /\ \A i \in 1 .. TopRow(ops, n) :
                 \/ (\E k \in m.pos + 1 .. n : ops[k] = i) /\ r[i] = <<m.epoch, Last(ops, n, i)>>
                 \/ /\ ~ \E k \in m.pos + 1 .. n : ops[k] = i
                    /\ i \in 1 .. m.n /\ r[i] = c[i] /\ Last(ops, n, i) = Last(ops, m.pos, i)
<1> DEFINE n == Len(ops)
           S == {m.n} \cup {ops[k] : k \in m.pos + 1 .. n}
           later(i) == {k \in m.pos + 1 .. n : ops[k] = i}
           r == Replayed(c, m, ops)
<1>1. n \in Nat /\ m.pos \in Nat /\ m.n \in 0 .. MaxRow /\ MaxRow \in Nat
  BY TopRowIs, CheckpointAssumption
<1>2. Max(S) = TopRow(ops, n)
  <2>1. S \subseteq 0 .. MaxRow /\ S # {}
    BY <1>1 DEF Files
  <2>2. Max(S) \in S /\ \A x \in S : x <= Max(S)
    <3> HIDE DEF S
    <3> QED
      BY <1>1, <2>1, MaxIs
  <2>3. Max(S) \in Nat
    BY <1>1, <2>1, <2>2
  <2>4. \A k \in 1 .. n : ops[k] <= Max(S)
    <3> SUFFICES ASSUME NEW k \in 1 .. n PROVE ops[k] <= Max(S)
      OBVIOUS
    <3>0. ops[k] \in Nat
      BY <1>1 DEF Files
    <3>1. CASE k > m.pos
      BY <1>1, <2>2, <3>1
    <3>2. CASE k <= m.pos
      <4>1. ops[k] <= m.n
        BY <1>1, <3>2, TopRowIs
      <4>2. m.n <= Max(S)
        BY <2>2
      <4> HIDE DEF S
      <4> QED
        BY <1>1, <2>3, <3>0, <4>1, <4>2
    <3> QED
      BY <1>1, <3>1, <3>2
  <2>5. Max(S) = 0 \/ \E k \in 1 .. n : ops[k] = Max(S)
    <3>1. CASE Max(S) = m.n
      <4>1. m.n = 0 \/ \E k \in 1 .. m.pos : ops[k] = m.n
        BY TopRowIs
      <4> HIDE DEF S
      <4> QED
        BY <1>1, <3>1, <4>1
    <3>2. CASE \E k \in m.pos + 1 .. n : ops[k] = Max(S)
      <4> HIDE DEF S
      <4> QED
        BY <1>1, <3>2
    <3> QED
      BY <2>2, <3>1, <3>2
  <2> HIDE DEF S
  <2> QED
    BY <1>1, <2>3, <2>4, <2>5, TopRowUnique
<1>3. r = [i \in 1 .. TopRow(ops, n) |-> IF later(i) # {} THEN <<m.epoch, Max(later(i))>> ELSE c[i]]
  BY <1>2 DEF Replayed
<1>4. ASSUME NEW i \in 1 .. TopRow(ops, n), NEW k \in m.pos + 1 .. n, ops[k] = i
      PROVE  Max(later(i)) = Last(ops, n, i)
  <2>1. /\ Last(ops, n, i) \in 1 .. n /\ ops[Last(ops, n, i)] = i
        /\ \A l \in 1 .. n : ops[l] = i => l <= Last(ops, n, i)
    BY <1>1, <1>4, LastIs
  <2>2. Last(ops, n, i) \in later(i) /\ \A l \in later(i) : l <= Last(ops, n, i)
    BY <1>1, <1>4, <2>1
  <2>3. later(i) \subseteq Int
    BY <1>1
  <2> HIDE DEF later
  <2> QED
    BY <2>2, <2>3, MaxUnique
<1>5. ASSUME NEW i \in 1 .. TopRow(ops, n), ~ \E k \in m.pos + 1 .. n : ops[k] = i
      PROVE  i \in 1 .. m.n /\ Last(ops, n, i) = Last(ops, m.pos, i)
  <2>1. PICK k \in 1 .. n : ops[k] = i
    BY <1>1, DenseRows
  <2>2. k \in 1 .. m.pos
    BY <1>1, <1>5, <2>1
  <2>3. i <= m.n /\ i \in Nat
    BY <1>1, <2>1, <2>2, TopRowIs
  <2>4. WritesOf(ops, n, i) = WritesOf(ops, m.pos, i)
    BY <1>1, <1>5 DEF WritesOf
  <2> QED
    BY <1>1, <2>3, <2>4 DEF Last
<1>6. ASSUME NEW i \in 1 .. TopRow(ops, n)
      PROVE  \/ (\E k \in m.pos + 1 .. n : ops[k] = i) /\ r[i] = <<m.epoch, Last(ops, n, i)>>
             \/ /\ ~ \E k \in m.pos + 1 .. n : ops[k] = i
                /\ i \in 1 .. m.n /\ r[i] = c[i] /\ Last(ops, n, i) = Last(ops, m.pos, i)
  <2>1. CASE \E k \in m.pos + 1 .. n : ops[k] = i
    BY <1>3, <1>4, <2>1
  <2>2. CASE ~ \E k \in m.pos + 1 .. n : ops[k] = i
    BY <1>3, <1>5, <2>2
  <2> QED
    BY <2>1, <2>2
<1> QED
  BY <1>3, <1>6
-----------------------------------------------------------------------------
(* What holds whatever start was refused.                                  *)

Types ==
    /\ log \in Seq(Files) /\ synced \in 0 .. Len(log)
    /\ ram \in Seq(Value) /\ epochs \in Nat \ {0} /\ epoch \in 1 .. epochs
    /\ ckptN \in 0 .. Len(ram) /\ dirty \subseteq 1 .. ckptN /\ ckid \in Nat
    /\ col \in [Files -> Value] /\ colS \in [Files -> Value]
    /\ journal.id \in Nat /\ DOMAIN journal.pages \subseteq Files
    /\ \A i \in DOMAIN journal.pages : journal.pages[i] \in Value
    /\ manifest \in [id : Nat, n : Nat, pos : Nat, epoch : Nat, version : Nat]
    /\ pc \in {"idle", "tail", "journal", "sync", "manifest", "apply", "done", "commit"}
    /\ version \in Nat \ {0} /\ refusals \in Nat

LogInv ==
    /\ Dense(log) /\ Len(ram) = TopRow(log, Len(log))
    /\ pc # "idle" => synced = Len(log)

ManifestInv ==
    /\ manifest.pos <= synced /\ manifest.n = TopRow(log, manifest.pos)
    /\ manifest.version # 0 => manifest.epoch \in 1 .. epochs

Base == Types /\ LogInv /\ ManifestInv /\ LogAloneRecovers

-----------------------------------------------------------------------------
(* The numbers of the model.                                               *)
LEMMA Bounds == MaxRow \in Nat /\ Files = 1 .. MaxRow /\ Files \subseteq Nat
  BY CheckpointAssumption DEF Files

(* A table that is made of a log has a row for every row of it, and values. *)
LEMMA TableOfType ==
    ASSUME NEW ops \in Seq(Files), Dense(ops), NEW e \in Nat
    PROVE  /\ TableOf(ops, e) \in Seq(Value)
           /\ Len(TableOf(ops, e)) = TopRow(ops, Len(ops))
<1> DEFINE t == TopRow(ops, Len(ops))
           T == [i \in 1 .. t |-> <<e, Last(ops, Len(ops), i)>>]
<1>1. t \in Nat
  BY TopRowIs, Bounds
<1>2. \A i \in 1 .. t : Last(ops, Len(ops), i) \in Nat
  BY DenseRows, LastIs
<1>3. T \in Seq(Value) /\ Len(T) = t
  <2> HIDE DEF t
  <2> QED
    BY <1>1, <1>2 DEF Value
<1> QED
  BY <1>3, TableOfIs

(* An empty table and no file.                                             *)
LEMMA BaseInit == Init => Base
<1> SUFFICES ASSUME Init PROVE Base
  OBVIOUS
<1>1. Len(log) = 0 /\ log \in Seq(Files) /\ Dense(log)
  BY DEF Init, Dense
<1>2. TopRow(log, 0) = 0
  <2>1. RowsOf(log, 0) = {0}
    BY DEF RowsOf
  <2> QED
    BY <2>1, MaxUnique DEF TopRow
<1>3. ram = <<>> /\ Len(ram) = 0 /\ ram \in Seq(Value)
  BY DEF Init
<1>4. col \in [Files -> Value] /\ colS \in [Files -> Value]
  BY DEF Init, Empty, Value
<1>5. Types
  BY <1>1, <1>3, <1>4 DEF Init, Types, NoJournal, NoManifest
<1>6. LogInv /\ ManifestInv
  BY <1>1, <1>2, <1>3 DEF Init, LogInv, ManifestInv, NoManifest
<1>7. LogAloneRecovers
  <2>1. TableOf(log, epoch) \in Seq(Value) /\ Len(TableOf(log, epoch)) = 0
    BY <1>1, <1>2, TableOfType DEF Init
  <2> QED
    BY <1>3, <2>1, SeqEqual DEF LogAloneRecovers
<1> QED
  BY <1>5, <1>6, <1>7 DEF Base

(* The columns a step of save leaves hold values.                          *)
LEMMA PatchedType ==
    ASSUME Types, LogInv, NEW f \in [Files -> Value], NEW S, S \subseteq 1 .. Len(ram)
    PROVE  Patched(f, S) \in [Files -> Value]
<1>1. \A i \in S : ram[i] \in Value
  BY DEF Types
<1> QED
  BY <1>1 DEF Patched

(* A table that is the log's stays so when the last operation's row is set. *)
LEMMA WriteTable ==
    ASSUME NEW ops \in Seq(Files), Dense(ops), NEW i \in Files, i <= TopRow(ops, Len(ops)) + 1,
           NEW e \in Nat, NEW r \in Seq(Value), Len(r) = TopRow(Append(ops, i), Len(ops) + 1),
           \A j \in 1 .. Len(r) : r[j] = IF j = i THEN <<e, Len(ops) + 1>> ELSE TableOf(ops, e)[j]
    PROVE  r = TableOf(Append(ops, i), e)
<1> DEFINE n == Len(ops)
           new == Append(ops, i)
           t == TopRow(ops, n)
           T == TableOf(new, e)
<1>1. /\ new \in Seq(Files) /\ Len(new) = n + 1 /\ Dense(new)
      /\ TopRow(new, n + 1) = IF i > t THEN i ELSE t
      /\ Last(new, n + 1, i) = n + 1
      /\ \A j : j # i => Last(new, n + 1, j) = Last(ops, n, j)
  BY AppendOf
<1>2. TableOf(ops, e) = [j \in 1 .. t |-> <<e, Last(ops, n, j)>>]
  BY TableOfIs
<1>3. T \in Seq(Value) /\ Len(T) = Len(r)
  BY <1>1, TableOfType
<1>4. T = [j \in 1 .. Len(r) |-> <<e, Last(new, n + 1, j)>>]
  <2>1. Len(r) = TopRow(new, n + 1)
    OBVIOUS
  <2> HIDE DEF new
  <2>2. T = [j \in 1 .. TopRow(new, Len(new)) |-> <<e, Last(new, Len(new), j)>>]
    BY <1>1, TableOfIs
  <2> QED
    BY <1>1, <2>1, <2>2
<1>5. ASSUME NEW j \in 1 .. Len(r) PROVE r[j] = T[j]
  <2> HIDE DEF new, T
  <2>1. CASE j = i
    BY <1>1, <1>4, <2>1
  <2>2. CASE j # i
    <3>1. j \in 1 .. t
      <4>1. t \in Nat /\ i \in Nat
        BY TopRowIs, Bounds
      <4>2. Len(r) = IF i > t THEN i ELSE t
        BY <1>1 DEF new
      <4>3. i <= t + 1
        OBVIOUS
      <4> HIDE DEF t
      <4> QED
        BY <2>2, <4>1, <4>2, <4>3
    <3>2. r[j] = TableOf(ops, e)[j]
      BY <2>2
    <3>3. TableOf(ops, e)[j] = <<e, Last(ops, n, j)>>
      BY <1>2, <3>1
    <3>4. T[j] = <<e, Last(ops, n, j)>>
      BY <1>1, <1>4, <2>2
    <3> QED
      BY <3>2, <3>3, <3>4
  <2> QED
    BY <2>1, <2>2
<1> HIDE DEF T
<1>6. r = T
  BY <1>3, <1>5, SeqEqual
<1> QED
  BY <1>6 DEF T

(* A write appends its operation and sets its row.                         *)
LEMMA WriteIs ==
    ASSUME Base, NEW i \in Files, Write(i)
    PROVE  /\ log' \in Seq(Files) /\ Len(log') = Len(log) + 1 /\ Dense(log')
           /\ \A k \in 1 .. Len(log) : log'[k] = log[k]
           /\ \A m \in 0 .. Len(log) : /\ TopRow(log', m) = TopRow(log, m)
                                       /\ \A j : Last(log', m, j) = Last(log, m, j)
           /\ ram' \in Seq(Value) /\ Len(ram') = TopRow(log', Len(log) + 1) /\ Len(ram') >= Len(ram)
           /\ \A j \in 1 .. Len(ram') : ram'[j] = IF j = i THEN <<epoch, Len(log) + 1>> ELSE ram[j]
           /\ ram = TableOf(log, epoch) => ram' = TableOf(log', epoch)
<1> DEFINE n == Len(log)
<1>1. /\ log \in Seq(Files) /\ Dense(log) /\ Len(ram) = TopRow(log, n) /\ n \in Nat
      /\ ram \in Seq(Value) /\ epoch \in Nat
  BY DEF Base, Types, LogInv
<1>2. TopRow(log, n) \in 0 .. MaxRow /\ Files \subseteq Nat
  BY <1>1, TopRowIs, Bounds
<1>3. log' = Append(log, i) /\ i <= TopRow(log, n) + 1 /\ i \in 1 .. Len(ram) + 1
  BY <1>1, <1>2 DEF Write
<1>4. /\ log' \in Seq(Files) /\ Len(log') = n + 1 /\ Dense(log')
      /\ \A m \in 0 .. n : TopRow(log', m) = TopRow(log, m) /\ \A j : Last(log', m, j) = Last(log, m, j)
      /\ TopRow(log', n + 1) = IF i > TopRow(log, n) THEN i ELSE TopRow(log, n)
      /\ Last(log', n + 1, i) = n + 1
      /\ \A j : j # i => Last(log', n + 1, j) = Last(log, n, j)
  BY <1>1, <1>3, AppendOf
<1>7. \A k \in 1 .. n : log'[k] = log[k]
  BY <1>1, <1>3
<1>5. /\ ram' \in Seq(Value) /\ Len(ram') = TopRow(log', n + 1) /\ Len(ram') >= Len(ram)
      /\ \A j \in 1 .. Len(ram') : ram'[j] = IF j = i THEN <<epoch, n + 1>> ELSE ram[j]
  <2> DEFINE v == <<epoch, n + 1>>
  <2>0. v \in Value
    BY <1>1 DEF Value
  <2>1. CASE i > Len(ram)
    <3>1. ram' = Append(ram, v) /\ i = Len(ram) + 1
      BY <1>1, <1>3, <2>1 DEF Write
    <3>2. /\ ram' \in Seq(Value) /\ Len(ram') = Len(ram) + 1
          /\ \A j \in 1 .. Len(ram) + 1 : ram'[j] = IF j = i THEN v ELSE ram[j]
      <4> HIDE DEF v
      <4> QED
        BY <1>1, <2>0, <3>1
    <3> QED
      BY <1>1, <1>2, <1>4, <3>1, <3>2
  <2>2. CASE ~(i > Len(ram))
    <3>1. ram' = [ram EXCEPT ![i] = v] /\ i \in 1 .. Len(ram)
      BY <1>1, <1>3, <2>2 DEF Write
    <3>2. /\ ram' \in Seq(Value) /\ Len(ram') = Len(ram)
          /\ \A j \in 1 .. Len(ram) : ram'[j] = IF j = i THEN v ELSE ram[j]
      <4> HIDE DEF v
      <4> QED
        BY <1>1, <2>0, <3>1, ExceptSeq
    <3>3. TopRow(log', n + 1) = Len(ram)
      BY <1>1, <1>4, <2>2
    <3> QED
      BY <1>1, <3>2, <3>3
  <2> QED
    BY <2>1, <2>2
<1>6. ram = TableOf(log, epoch) => ram' = TableOf(log', epoch)
  <2> SUFFICES ASSUME ram = TableOf(log, epoch) PROVE ram' = TableOf(log', epoch)
    OBVIOUS
  <2>2. Len(ram') = TopRow(Append(log, i), Len(log) + 1)
    BY <1>3, <1>5
  <2>3. \A j \in 1 .. Len(ram') :
           ram'[j] = IF j = i THEN <<epoch, Len(log) + 1>> ELSE TableOf(log, epoch)[j]
    BY <1>5
  <2>4. ram' = TableOf(Append(log, i), epoch)
    BY <1>1, <1>3, <1>5, <2>2, <2>3, WriteTable
  <2> QED
    BY <1>3, <2>4
<1> QED
  BY <1>1, <1>4, <1>5, <1>6, <1>7

(* A row of the table changes in memory.                                   *)
LEMMA WriteBase == ASSUME Base, NEW i \in Files, Write(i) PROVE Base'
<1> DEFINE n == Len(log)
<1>1. log \in Seq(Files) /\ n \in Nat /\ ram \in Seq(Value) /\ epoch \in Nat
  BY DEF Base, Types
<1>2. /\ log' \in Seq(Files) /\ Len(log') = n + 1 /\ Dense(log')
      /\ \A m \in 0 .. n : TopRow(log', m) = TopRow(log, m)
      /\ ram' \in Seq(Value) /\ Len(ram') = TopRow(log', n + 1) /\ Len(ram') >= Len(ram)
      /\ ram = TableOf(log, epoch) => ram' = TableOf(log', epoch)
  BY WriteIs
<1>6. Types'
  <2>1. dirty' \subseteq 1 .. ckptN'
    <3>1. dirty' = IF i <= ckptN THEN dirty \cup {i} ELSE dirty
      BY DEF Write
    <3>2. dirty \subseteq 1 .. ckptN /\ ckptN \in Nat /\ ckptN' = ckptN /\ i \in Nat /\ i >= 1
      BY Bounds DEF Write, Base, Types
    <3> QED
      BY <3>1, <3>2
  <2>2. UNCHANGED <<synced, epoch, ckptN, ckid, col, colS, journal, manifest, pc, version, refusals, epochs>>
    BY DEF Write, fileVars
  <2> QED
    BY <1>1, <1>2, <2>1, <2>2 DEF Base, Types
<1>7. LogInv'
  BY <1>1, <1>2 DEF LogInv, Write, Base
<1>8. ManifestInv'
  <2>1. manifest.pos \in 0 .. n
    BY <1>1 DEF Base, Types, ManifestInv
  <2> QED
    BY <1>2, <2>1 DEF Base, ManifestInv, Write, fileVars
<1>9. LogAloneRecovers'
  BY <1>2 DEF Base, LogAloneRecovers, Write
<1> QED
  BY <1>6, <1>7, <1>8, <1>9 DEF Base

(* What Base says of the table, the files and the manifest.                *)
LEMMA BaseFacts ==
    ASSUME Base
    PROVE  /\ log \in Seq(Files) /\ Dense(log) /\ Len(log) \in Nat
           /\ ram \in Seq(Value) /\ Len(ram) = TopRow(log, Len(log)) /\ Len(ram) \in 0 .. MaxRow
           /\ MaxRow \in Nat /\ 1 .. Len(ram) \subseteq Files
           /\ epoch \in Nat /\ epochs \in Nat /\ ckptN \in 0 .. Len(ram)
           /\ synced \in 0 .. Len(log) /\ manifest.pos \in 0 .. synced
<1>1. log \in Seq(Files) /\ Dense(log) /\ Len(log) \in 0 .. Len(log) /\ Len(ram) = TopRow(log, Len(log))
  BY DEF Base, Types, LogInv
<1>2. Len(ram) \in 0 .. MaxRow
  BY <1>1, TopRowIs
<1> QED
  BY <1>1, <1>2, Bounds DEF Base, Types, ManifestInv

(* The steps of save touch neither the log nor, until the commit, RAM.     *)
LEMMA SaveBase ==
    ASSUME Base, \/ SaveStart \/ WriteTail \/ WriteJournal \/ SyncColumns \/ WriteManifest
                 \/ ApplyJournal \/ RemoveJournal \/ SaveFails
    PROVE  Base'
<1> USE DEF Base, LogInv
<1>1. UNCHANGED <<log, ram, epoch, epochs, ckptN, dirty, ckid, version, refusals>>
  BY DEF SaveStart, WriteTail, WriteJournal, SyncColumns, WriteManifest, ApplyJournal, RemoveJournal,
         SaveFails, ramVars
<1>2. synced' \in 0 .. Len(log) /\ synced <= synced' /\ (pc' # "idle" => synced' = Len(log))
  BY DEF Types, SaveStart, WriteTail, WriteJournal, SyncColumns, WriteManifest, ApplyJournal,
         RemoveJournal, SaveFails
<1>3. LogInv'
  BY <1>1, <1>2
<1>4. LogAloneRecovers'
  BY <1>1 DEF LogAloneRecovers
<1>5. dirty \subseteq 1 .. Len(ram) /\ NewRows \subseteq 1 .. Len(ram) /\ ram \in Seq(Value)
  BY DEF Types, NewRows
<1>6. Len(ram) \in 0 .. MaxRow /\ dirty \subseteq Files
  BY <1>5, BaseFacts
<1>7. col' \in [Files -> Value] /\ colS' \in [Files -> Value]
  <2>1. \A S : S \subseteq 1 .. Len(ram) => Patched(col, S) \in [Files -> Value]
    BY PatchedType DEF Types
  <2> QED
    BY <1>5, <2>1
       DEF Types, SaveStart, WriteTail, WriteJournal, SyncColumns, WriteManifest, ApplyJournal,
           RemoveJournal, SaveFails, fileVars
<1>8. /\ journal'.id \in Nat /\ DOMAIN journal'.pages \subseteq Files
      /\ \A i \in DOMAIN journal'.pages : journal'.pages[i] \in Value
  <2>1. CASE WriteJournal
    <3>1. \A i \in dirty : ram[i] \in Value
      BY <1>5
    <3>2. journal' = journal \/ journal' = [id |-> ckid + 1, pages |-> [i \in dirty |-> ram[i]]]
      BY <2>1 DEF WriteJournal
    <3>3. CASE journal' = journal
      BY <3>3 DEF Types
    <3>4. CASE journal' = [id |-> ckid + 1, pages |-> [i \in dirty |-> ram[i]]]
      <4>1. ckid \in Nat
        BY DEF Types
      <4>2. journal'.id = ckid + 1 /\ journal'.pages = [i \in dirty |-> ram[i]]
        BY <3>4
      <4> QED
        BY <1>6, <3>1, <4>1, <4>2
    <3> QED
      BY <3>2, <3>3, <3>4
  <2>2. CASE RemoveJournal
    BY <2>2 DEF RemoveJournal, NoJournal
  <2>3. CASE ~WriteJournal /\ ~RemoveJournal
    BY <2>3 DEF Types, SaveStart, WriteTail, SyncColumns, WriteManifest, ApplyJournal, SaveFails, fileVars
  <2> QED
    BY <2>1, <2>2, <2>3
<1>9. pc' \in {"idle", "tail", "journal", "sync", "manifest", "apply", "done", "commit"}
  BY DEF SaveStart, WriteTail, WriteJournal, SyncColumns, WriteManifest, ApplyJournal, RemoveJournal,
         SaveFails
<1>10. /\ manifest' \in [id : Nat, n : Nat, pos : Nat, epoch : Nat, version : Nat]
       /\ ManifestInv'
  <2>1. CASE WriteManifest
    <3>1. manifest' = [id |-> ckid + 1, n |-> Len(ram), pos |-> Len(log), epoch |-> epoch,
                       version |-> version]
      BY <2>1 DEF WriteManifest
    <3>2. synced' = Len(log)
      BY <1>2, <2>1 DEF WriteManifest
    <3> QED
      BY <1>1, <3>1, <3>2 DEF Types, ManifestInv
  <2>2. CASE ~WriteManifest
    <3>1. manifest' = manifest
      BY <2>2 DEF SaveStart, WriteTail, WriteJournal, SyncColumns, ApplyJournal, RemoveJournal,
                  SaveFails, fileVars
    <3> QED
      BY <1>1, <1>2, <3>1 DEF Types, ManifestInv
  <2> QED
    BY <2>1, <2>2
<1>11. Types'
  BY <1>1, <1>2, <1>7, <1>8, <1>9, <1>10 DEF Types
<1> QED
  BY <1>3, <1>4, <1>10, <1>11

(* RAM is read back from the files.                                        *)
LEMMA CommitBase == ASSUME Base, Commit PROVE Base'
<1> USE DEF Base, LogInv
<1>1. Len(ram) \in 0 .. MaxRow /\ log \in Seq(Files) /\ col \in [Files -> Value] /\ MaxRow \in Nat
  BY BaseFacts DEF Types
<1>2. ram' \in Seq(Value) /\ Len(ram') = Len(ram)
  <2>1. \A i \in 1 .. Len(ram) : col[i] \in Value
    BY <1>1, Bounds
  <2>2. ram' = SubSeq(col, 1, Len(ram))
    BY DEF Commit
  <2> QED
    BY <1>1, <2>1, <2>2, SubSeqProperties
<1>3. Types'
  BY <1>1, <1>2 DEF Types, Commit, fileVars
<1>4. LogInv' /\ ManifestInv'
  BY <1>2 DEF ManifestInv, Commit, fileVars
<1>5. LogAloneRecovers'
  <2> SUFFICES ASSUME Len(ram) = 0 PROVE ram' = TableOf(log, epoch)
    BY DEF LogAloneRecovers, Commit
  <2>1. TableOf(log, epoch) \in Seq(Value) /\ Len(TableOf(log, epoch)) = 0
    BY BaseFacts, TableOfType
  <2> QED
    BY <1>2, <2>1, SeqEqual
<1> QED
  BY <1>3, <1>4, <1>5
-----------------------------------------------------------------------------
(* A longer log has no fewer rows.                                         *)
LEMMA TopRowGrows ==
    ASSUME NEW ops \in Seq(Files), NEW n \in 0 .. Len(ops), NEW m \in 0 .. n
    PROVE  TopRow(ops, m) <= TopRow(ops, n)
<1>1. m \in 0 .. Len(ops) /\ TopRow(ops, m) \in Nat /\ TopRow(ops, n) \in Nat
  BY TopRowIs, Bounds
<1>2. CASE TopRow(ops, m) = 0
  BY <1>1, <1>2
<1>3. CASE TopRow(ops, m) # 0
  <2>1. PICK k \in 1 .. m : ops[k] = TopRow(ops, m)
    BY <1>1, <1>3, TopRowIs
  <2>2. k \in 1 .. n
    OBVIOUS
  <2> QED
    BY <2>1, <2>2, TopRowIs
<1> QED
  BY <1>2, <1>3

(* What a crash leaves: a prefix of the log that holds what was safe, and  *)
(* in every row of the files one of the two values it may have.            *)
LEMMA AfterCrashIs ==
    ASSUME Base, NEW x \in AfterCrash
    PROVE  /\ x[1] \in [Files -> Value] /\ x[2] \in [Files -> Value]
           /\ \A i \in Files : x[1][i] \in {col[i], colS[i]} /\ x[2][i] \in {col[i], colS[i]}
           /\ x[3] \in Seq(Files) /\ Dense(x[3]) /\ Len(x[3]) \in synced .. Len(log)
           /\ x[3] = SubSeq(log, 1, Len(x[3]))
           /\ \A k \in 1 .. Len(x[3]) : x[3][k] = log[k]
           /\ \A n \in 0 .. Len(x[3]) : /\ TopRow(x[3], n) = TopRow(log, n)
                                        /\ \A i : Last(x[3], n, i) = Last(log, n, i)
<1>1. /\ log \in Seq(Files) /\ Dense(log) /\ synced \in 0 .. Len(log) /\ Len(log) \in Nat
      /\ col \in [Files -> Value] /\ colS \in [Files -> Value]
  BY BaseFacts DEF Base, Types
<1>2. PICK n \in synced .. Len(log) : x[3] = SubSeq(log, 1, n)
  <2>1. CASE x = <<col, colS, log>>
    <3>1. log = SubSeq(log, 1, Len(log))
      BY <1>1, SubSeqProperties
    <3>2. Len(log) \in synced .. Len(log) /\ x[3] = log
      BY <1>1, <2>1
    <3> QED
      BY <3>1, <3>2
  <2>2. CASE x # <<col, colS, log>>
    <3>1. PICK c \in Torn, n \in synced .. Len(log) : x = <<c, c, SubSeq(log, 1, n)>>
      BY <2>2 DEF AfterCrash
    <3> QED
      BY <3>1
  <2> QED
    BY <2>1, <2>2
<1>3. n \in 0 .. Len(log)
  BY <1>1
<1>4. /\ x[3] \in Seq(Files) /\ Len(x[3]) = n /\ Dense(x[3])
      /\ \A k \in 1 .. n : x[3][k] = log[k]
      /\ \A m \in 0 .. n : /\ TopRow(x[3], m) = TopRow(log, m)
                           /\ \A i : Last(x[3], m, i) = Last(log, m, i)
  <2> DEFINE p == SubSeq(log, 1, n)
  <2>1. /\ p \in Seq(Files) /\ Len(p) = n /\ Dense(p)
        /\ \A k \in 1 .. n : p[k] = log[k]
        /\ \A m \in 0 .. n : TopRow(p, m) = TopRow(log, m) /\ \A i : Last(p, m, i) = Last(log, m, i)
    BY <1>1, <1>3, PrefixOf
  <2>2. x[3] = p
    BY <1>2
  <2> HIDE DEF p
  <2> QED
    BY <2>1, <2>2, Zenon
<1>5. /\ x[1] \in [Files -> Value] /\ x[2] \in [Files -> Value]
      /\ \A i \in Files : x[1][i] \in {col[i], colS[i]} /\ x[2][i] \in {col[i], colS[i]}
  <2>1. CASE x = <<col, colS, log>>
    BY <1>1, <2>1
  <2>2. CASE x # <<col, colS, log>>
    <3>1. PICK c \in Torn : x[1] = c /\ x[2] = c
      BY <2>2 DEF AfterCrash
    <3>2. PICK S \in SUBSET Files : c = [i \in Files |-> IF i \in S THEN col[i] ELSE colS[i]]
      BY DEF Torn
    <3>3. c \in [Files -> Value] /\ \A i \in Files : c[i] \in {col[i], colS[i]}
      BY <1>1, <3>2
    <3> QED
      BY <3>1, <3>3
  <2> QED
    BY <2>1, <2>2
<1> QED
  BY <1>2, <1>4, <1>5

(* A full replay starts a numbering of its own.                            *)
LEMMA WholeLogBase ==
    ASSUME Base, NEW x \in AfterCrash, NEW v \in Nat \ {0}, ReplayWholeLog(x, v),
           journal' = journal, refusals' \in Nat
    PROVE  Base' /\ RecoveredExact'
<1>1. /\ x[1] \in [Files -> Value] /\ x[2] \in [Files -> Value]
      /\ x[3] \in Seq(Files) /\ Dense(x[3]) /\ Len(x[3]) \in synced .. Len(log)
      /\ \A n \in 0 .. Len(x[3]) : TopRow(x[3], n) = TopRow(log, n)
  BY AfterCrashIs
<1>2. epochs \in Nat /\ synced \in 0 .. Len(log) /\ manifest.pos \in 0 .. synced /\ Len(log) \in Nat
  BY BaseFacts
<1>3. log' = x[3] /\ ram' = TableOf(x[3], epochs + 1) /\ epoch' = epochs + 1 /\ epochs' = epochs + 1
  BY DEF ReplayWholeLog
<1>4. ram' \in Seq(Value) /\ Len(ram') = TopRow(log', Len(log')) /\ Len(ram') \in Nat
  BY <1>1, <1>2, <1>3, TableOfType, LenProperties
<1>5. Types'
  <2>1. /\ ckptN' = 0 /\ dirty' = {} /\ ckid' = 0 /\ pc' = "idle" /\ version' = v
        /\ col' = x[1] /\ colS' = x[2] /\ manifest' = manifest /\ synced' = synced
    BY DEF ReplayWholeLog
  <2>2. log' \in Seq(Files) /\ synced' \in 0 .. Len(log')
    BY <1>1, <1>2, <1>3, <2>1
  <2>3. ckptN' \in 0 .. Len(ram') /\ dirty' \subseteq 1 .. ckptN' /\ ckid' \in Nat
    BY <1>4, <2>1
  <2>4. epochs' \in Nat \ {0} /\ epoch' \in 1 .. epochs'
    BY <1>2, <1>3
  <2>5. /\ journal'.id \in Nat /\ DOMAIN journal'.pages \subseteq Files
        /\ \A i \in DOMAIN journal'.pages : journal'.pages[i] \in Value
        /\ manifest' \in [id : Nat, n : Nat, pos : Nat, epoch : Nat, version : Nat]
    BY <2>1 DEF Base, Types
  <2> QED
    BY <1>1, <1>4, <2>1, <2>2, <2>3, <2>4, <2>5 DEF Types
<1>6. LogInv'
  BY <1>1, <1>3, <1>4 DEF LogInv, ReplayWholeLog
<1>7. ManifestInv'
  <2>1. manifest' = manifest /\ synced' = synced /\ manifest.pos \in 0 .. Len(x[3])
    BY <1>1, <1>2 DEF ReplayWholeLog
  <2>2. TopRow(log', manifest.pos) = TopRow(log, manifest.pos)
    BY <1>1, <1>3, <2>1
  <2> QED
    BY <1>2, <1>3, <2>1, <2>2 DEF Base, ManifestInv
<1>8. RecoveredExact' /\ LogAloneRecovers'
  BY <1>3 DEF RecoveredExact, LogAloneRecovers
<1> QED
  BY <1>5, <1>6, <1>7, <1>8 DEF Base
(* The rows the journal is applied to hold values.                         *)
LEMMA JournalAppliedType ==
    ASSUME Base, NEW c \in [Files -> Value]
    PROVE  JournalApplied(c) \in [Files -> Value]
<1>1. \A i \in DOMAIN journal.pages : journal.pages[i] \in Value
  BY DEF Base, Types
<1> QED
  BY <1>1 DEF JournalApplied

(* A start from the checkpoint replays the log from its position.          *)
LEMMA OpenBase == ASSUME Base, NEW v \in Nat \ {0}, Open(v) PROVE Base'
<1> DEFINE m == manifest
<1>1. PICK x \in AfterCrash :
        LET c == JournalApplied(x[1]) ops == x[3] IN
        /\ manifest.version = v
        /\ col' = c /\ colS' = IF journal.id = manifest.id THEN c ELSE x[2]
        /\ journal' = NoJournal
        /\ log' = ops /\ UNCHANGED synced
        /\ ram' = Replayed(c, manifest, ops)
        /\ epoch' = manifest.epoch
        /\ ckptN' = manifest.n
        /\ dirty' = {i \in 1 .. manifest.n : \E k \in manifest.pos + 1 .. Len(ops) : ops[k] = i}
        /\ ckid' = manifest.id
        /\ pc' = "idle" /\ version' = v
        /\ UNCHANGED <<manifest, refusals, epochs>>
  BY DEF Open
<1> DEFINE c == JournalApplied(x[1])
<1>2. /\ x[1] \in [Files -> Value] /\ x[2] \in [Files -> Value]
      /\ x[3] \in Seq(Files) /\ Dense(x[3]) /\ Len(x[3]) \in synced .. Len(log)
      /\ \A n \in 0 .. Len(x[3]) : TopRow(x[3], n) = TopRow(log, n)
  BY AfterCrashIs
<1>3. /\ log' = x[3] /\ synced' = synced /\ ram' = Replayed(c, m, log') /\ col' = c /\ manifest' = m
      /\ epoch' = m.epoch /\ ckptN' = m.n /\ ckid' = m.id /\ pc' = "idle" /\ version' = v
      /\ refusals' = refusals /\ epochs' = epochs /\ m.version = v
  BY <1>1
<1>4. log' \in Seq(Files) /\ Dense(log') /\ Len(log') \in synced .. Len(log)
  BY <1>2, <1>3
<1>5. /\ synced \in 0 .. Len(log) /\ m.pos \in 0 .. synced /\ m.pos \in 0 .. Len(log')
      /\ Len(log') \in Nat
  BY <1>4, BaseFacts
<1>6. m.n = TopRow(log', m.pos) /\ m.n \in 0 .. MaxRow /\ MaxRow \in Nat /\ m.n <= TopRow(log', Len(log'))
  <2>1. m.n = TopRow(log, m.pos)
    BY DEF Base, ManifestInv
  <2>2. m.n = TopRow(log', m.pos)
    BY <1>2, <1>3, <1>5, <2>1
  <2>3. TopRow(log', m.pos) <= TopRow(log', Len(log'))
    BY <1>4, <1>5, TopRowGrows
  <2>4. TopRow(log', m.pos) \in 0 .. MaxRow
    BY <1>4, <1>5, TopRowIs
  <2> QED
    BY <2>2, <2>3, <2>4, Bounds
<1>7. c \in [Files -> Value]
  BY <1>2, JournalAppliedType
<1>8. m.epoch \in 1 .. epochs /\ epochs \in Nat /\ m.epoch \in Nat
  BY <1>3, BaseFacts DEF Base, ManifestInv
<1> HIDE DEF c, m
<1>9. /\ ram' = [i \in 1 .. TopRow(log', Len(log')) |-> ram'[i]]
      /\ \A i \in 1 .. TopRow(log', Len(log')) :
            \/ ram'[i] = <<m.epoch, Last(log', Len(log'), i)>>
            \/ i \in 1 .. m.n /\ ram'[i] = c[i]
  <2> DEFINE ops == log'
             r == Replayed(c, m, ops)
  <2>1. ops \in Seq(Files) /\ Dense(ops) /\ m.pos \in 0 .. Len(ops) /\ m.n = TopRow(ops, m.pos)
    BY <1>4, <1>5, <1>6
  <2> HIDE DEF ops
  <2>2. /\ r = [i \in 1 .. TopRow(ops, Len(ops)) |-> r[i]]
        /\ \A i \in 1 .. TopRow(ops, Len(ops)) :
              \/ r[i] = <<m.epoch, Last(ops, Len(ops), i)>>
              \/ i \in 1 .. m.n /\ r[i] = c[i]
    BY <2>1, ReplayedIs
  <2>3. ram' = r
    BY <1>3 DEF ops
  <2> HIDE DEF r
  <2> QED
    BY <2>2, <2>3 DEF ops
<1>10. /\ ram' \in Seq(Value) /\ Len(ram') = TopRow(log', Len(log'))
  <2> DEFINE t == TopRow(log', Len(log'))
             r == ram'
  <2>1. t \in Nat
    BY <1>4, <1>5, TopRowIs, Bounds
  <2>2. ASSUME NEW i \in 1 .. t PROVE r[i] \in Value
    <3>1. CASE r[i] = <<m.epoch, Last(log', Len(log'), i)>>
      <4>1. \E k \in 1 .. Len(log') : log'[k] = i
        BY <1>4, <1>5, DenseRows
      <4>2. Last(log', Len(log'), i) \in Nat
        BY <1>4, <1>5, <4>1, LastIs
      <4> QED
        BY <1>8, <3>1, <4>2 DEF Value
    <3>2. CASE i \in 1 .. m.n /\ r[i] = c[i]
      BY <1>6, <1>7, <3>2, Bounds
    <3> QED
      BY <1>9, <3>1, <3>2
  <2>3. r = [i \in 1 .. t |-> r[i]]
    BY <1>9
  <2> HIDE DEF t, r
  <2>4. r \in Seq(Value) /\ Len(r) = t
    BY <2>1, <2>2, <2>3
  <2> QED
    BY <2>4 DEF t, r
<1>11. Types'
  <2>1. colS' \in [Files -> Value] /\ col' \in [Files -> Value]
    BY <1>1, <1>2, <1>7 DEF c
  <2>2. dirty' \subseteq 1 .. m.n
    BY <1>1 DEF m
  <2>3. ckptN' \in 0 .. Len(ram') /\ dirty' \subseteq 1 .. ckptN'
    BY <1>3, <1>6, <1>10, <2>2
  <2>4. journal' = NoJournal /\ m \in [id : Nat, n : Nat, pos : Nat, epoch : Nat, version : Nat]
    BY <1>1 DEF Base, Types, m
  <2>5. synced' \in 0 .. Len(log')
    BY <1>3, <1>4, <1>5
  <2>6. refusals \in Nat /\ epochs \in Nat \ {0}
    BY DEF Base, Types
  <2>7. journal'.id = 0 /\ DOMAIN journal'.pages = {}
    BY <2>4 DEF NoJournal
  <2> QED
    BY <1>3, <1>4, <1>8, <1>10, <2>1, <2>3, <2>4, <2>5, <2>6, <2>7 DEF Types
<1>12. LogInv'
  BY <1>3, <1>4, <1>10 DEF LogInv
<1>13. ManifestInv'
  BY <1>3, <1>5, <1>6, <1>8 DEF ManifestInv
<1>14. LogAloneRecovers'
  <2> SUFFICES ASSUME m.n = 0 PROVE ram' = TableOf(log', m.epoch)
    BY <1>3 DEF LogAloneRecovers
  <2> DEFINE T == TableOf(log', m.epoch)
             r == ram'
  <2>1. T \in Seq(Value) /\ Len(T) = TopRow(log', Len(log'))
    BY <1>4, <1>8, TableOfType
  <2>2. \A i \in 1 .. Len(r) : r[i] = T[i]
    <3>1. T = [i \in 1 .. TopRow(log', Len(log')) |-> <<m.epoch, Last(log', Len(log'), i)>>]
      BY <1>4, TableOfIs
    <3>2. \A i \in 1 .. Len(r) : ram'[i] = <<m.epoch, Last(log', Len(log'), i)>>
      BY <1>9, <1>10
    <3> HIDE DEF T
    <3> QED
      BY <1>10, <3>1, <3>2
  <2>3. r \in Seq(Value) /\ Len(r) = Len(T)
    BY <1>10, <2>1
  <2> HIDE DEF T, r
  <2>4. r = T
    BY <2>1, <2>2, <2>3, SeqEqual
  <2> QED
    BY <2>4 DEF T, r
<1> QED
  BY <1>11, <1>12, <1>13, <1>14 DEF Base

(* The version a start runs under.                                         *)
LEMMA RestartVersion ==
    ASSUME Base, NEW v \in version .. Min({version + 1, 1 + MaxUpgrades})
    PROVE  v \in Nat \ {0} /\ v >= version
<1> DEFINE S == {version + 1, 1 + MaxUpgrades}
<1>1. S \subseteq Nat /\ S # {} /\ version \in Nat \ {0}
  BY CheckpointAssumption DEF Base, Types
<1>2. Min(S) \in Nat
  <2> HIDE DEF S
  <2> QED
    BY <1>1, MinIs
<1> QED
  BY <1>1, <1>2

(* A crash and the load after it.                                          *)
LEMMA RestartBase == ASSUME Base, Restart PROVE Base'
<1>1. PICK v \in version .. Min({version + 1, 1 + MaxUpgrades}) : Open(v) \/ Refuse(v) \/ Unreadable(v)
  BY DEF Restart
<1>2. v \in Nat \ {0}
  BY RestartVersion
<1>3. CASE Open(v)
  BY <1>2, <1>3, OpenBase
<1>4. CASE Refuse(v)
  <2>1. PICK x \in AfterCrash : ReplayWholeLog(x, v) /\ journal' = journal /\ refusals' = refusals
    BY <1>4 DEF Refuse
  <2>2. refusals' \in Nat
    BY <2>1 DEF Base, Types
  <2> QED
    BY <1>2, <2>1, <2>2, WholeLogBase
<1>5. CASE Unreadable(v)
  <2>1. PICK x \in AfterCrash : ReplayWholeLog(x, v) /\ journal' = journal /\ refusals' = refusals + 1
    BY <1>5 DEF Unreadable
  <2>2. refusals' \in Nat
    BY <2>1 DEF Base, Types
  <2> QED
    BY <1>2, <2>1, <2>2, WholeLogBase
<1> QED
  BY <1>1, <1>3, <1>4, <1>5

(* Base is inductive.                                                      *)
LEMMA BaseStep == Base /\ [Next]_vars => Base'
<1> SUFFICES ASSUME Base, [Next]_vars PROVE Base'
  OBVIOUS
<1>1. CASE \E i \in Files : Write(i)
  BY <1>1, WriteBase
<1>2. CASE \/ SaveStart \/ WriteTail \/ WriteJournal \/ SyncColumns \/ WriteManifest
           \/ ApplyJournal \/ RemoveJournal \/ SaveFails
  BY <1>2, SaveBase
<1>3. CASE Commit
  BY <1>3, CommitBase
<1>4. CASE Restart
  BY <1>4, RestartBase
<1>5. CASE UNCHANGED vars
  BY <1>5 DEF vars, ramVars, fileVars, Base, Types, LogInv, ManifestInv, LogAloneRecovers
<1> QED
  BY <1>1, <1>2, <1>3, <1>4, <1>5 DEF Next

LEMMA BaseAlways == Spec => []Base
  BY BaseInit, BaseStep, PTL DEF Spec

(* The state of the store and of its files keeps its shape, for every      *)
(* bound, every crash and every refused start.                             *)
THEOREM TypeCorrect == Spec => []TypeOK
<1>1. Base => TypeOK
  <2> SUFFICES ASSUME Base PROVE TypeOK
    OBVIOUS
  <2>1. Len(ram) <= MaxRow
    BY BaseFacts
  <2> QED
    BY <2>1 DEF Base, Types, ManifestInv, TypeOK
<1> QED
  BY <1>1, BaseAlways, PTL

(* A store that has no committed checkpoint of its own answers like a full *)
(* replay of its log: whatever the column files, the journal and the       *)
(* refused manifest hold.                                                  *)
THEOREM LogRecoversAlone == Spec => []LogAloneRecovers
<1>1. Base => LogAloneRecovers
  BY DEF Base
<1> QED
  BY <1>1, BaseAlways, PTL

-----------------------------------------------------------------------------
(* A checkpoint cut short at any write, and any power cut, are recovered   *)
(* exactly, as long as no start refused a checkpoint that was there; after *)
(* one that did, the manifest on disk describes another numbering of the   *)
(* rows, and a crash during the next checkpoint can mix the two.           *)


Trusted == version = 1 /\ refusals = 0

(* Row i is safe with value v under manifest m: v is the value the         *)
(* checkpoint describes, or the replay of the safe log replaces it.        *)
Good(m, ops, s, v, i) ==
    \/ v = <<m.epoch, Last(ops, m.pos, i)>>
    \/ \E k \in m.pos + 1 .. s : ops[k] = i

RowSafe(i) ==
    IF journal.id = manifest.id /\ i \in DOMAIN journal.pages
    THEN Good(manifest, log, synced, journal.pages[i], i)
    ELSE Good(manifest, log, synced, col[i], i) /\ Good(manifest, log, synced, colS[i], i)

FileInv == manifest.id # 0 => \A i \in 1 .. manifest.n : RowSafe(i)

(* RAM and the files, row by row.                                          *)
ColumnInv ==
    /\ \A i \in 1 .. ckptN : i \notin dirty => col[i] = ram[i] /\ colS[i] = ram[i]
    /\ pc \in {"journal", "sync", "manifest", "apply", "done", "commit"} =>
          \A i \in NewRows : col[i] = ram[i]
    /\ pc \in {"manifest", "apply", "done", "commit"} => \A i \in NewRows : colS[i] = ram[i]
    /\ pc \in {"done", "commit"} => \A i \in dirty : col[i] = ram[i]
    /\ pc = "commit" => \A i \in dirty : colS[i] = ram[i]

JournalInv ==
    /\ journal.id = 0 => DOMAIN journal.pages = {}
    /\ journal.id # 0 => journal.id = ckid + 1 /\ dirty # {} /\ DOMAIN journal.pages \subseteq dirty
    /\ pc \in {"sync", "manifest", "apply", "done"} /\ dirty # {} =>
          journal.id = ckid + 1 /\ journal.pages = [i \in dirty |-> ram[i]]
    /\ pc = "commit" => journal.id = 0

IdInv ==
    /\ manifest.id = 0 => manifest.version = 0 /\ ckptN = 0
    /\ manifest.id # 0 => /\ manifest.id \in {ckid, ckid + 1}
                          /\ manifest.epoch = epoch /\ manifest.version = 1
    /\ pc \in {"apply", "done", "commit"} =>
          manifest.id = ckid + 1 /\ manifest.pos = Len(log) /\ manifest.n = Len(ram)

Exact == RecoveredExact /\ FileInv /\ ColumnInv /\ JournalInv /\ IdInv

IInv == Base /\ (Trusted => Exact)
-----------------------------------------------------------------------------
(* Safety of a row is a matter of the log's safe part.                     *)
LEMMA GoodKept ==
    ASSUME NEW m, NEW ops, NEW ops2, NEW s \in Nat, NEW s2 \in Nat, s <= s2, m.pos \in 0 .. s,
           \A k \in 1 .. s : ops2[k] = ops[k], NEW i, Last(ops2, m.pos, i) = Last(ops, m.pos, i),
           NEW v, Good(m, ops, s, v, i)
    PROVE  Good(m, ops2, s2, v, i)
<1>1. CASE v = <<m.epoch, Last(ops, m.pos, i)>>
  BY <1>1 DEF Good
<1>2. CASE \E k \in m.pos + 1 .. s : ops[k] = i
  <2>1. PICK k \in m.pos + 1 .. s : ops[k] = i
    BY <1>2
  <2>2. k \in m.pos + 1 .. s2 /\ k \in 1 .. s
    OBVIOUS
  <2> QED
    BY <2>1, <2>2 DEF Good
<1> QED
  BY <1>1, <1>2 DEF Good

(* RAM's rows are the log's.                                               *)
LEMMA RamIs ==
    ASSUME Base, RecoveredExact
    PROVE  \A i \in 1 .. Len(ram) : ram[i] = <<epoch, Last(log, Len(log), i)>>
<1>1. log \in Seq(Files) /\ Len(ram) = TopRow(log, Len(log))
  BY BaseFacts
<1>2. ram = [i \in 1 .. Len(ram) |-> <<epoch, Last(log, Len(log), i)>>]
  BY <1>1, TableOfIs DEF RecoveredExact
<1> QED
  BY <1>2

(* While save runs the whole log is safe, so RAM's value of a row is one   *)
(* the last checkpoint may be left with.                                   *)
LEMMA RamGood ==
    ASSUME Base, RecoveredExact, pc # "idle", manifest.epoch = epoch, NEW i \in 1 .. Len(ram)
    PROVE  Good(manifest, log, synced, ram[i], i)
<1>1. /\ synced = Len(log) /\ Len(log) \in Nat /\ manifest.pos \in 0 .. Len(log)
  BY BaseFacts DEF Base, LogInv
<1>2. ram[i] = <<epoch, Last(log, Len(log), i)>>
  BY RamIs
<1>3. CASE \E k \in manifest.pos + 1 .. synced : log[k] = i
  BY <1>3 DEF Good
<1>4. CASE ~ \E k \in manifest.pos + 1 .. synced : log[k] = i
  <2>1. WritesOf(log, Len(log), i) = WritesOf(log, manifest.pos, i)
    BY <1>1, <1>4 DEF WritesOf
  <2> QED
    BY <1>2, <2>1 DEF Good, Last
<1> QED
  BY <1>3, <1>4

(* The rows of RAM: those below the last checkpoint and the new ones.      *)
LEMMA RowsSplit ==
    ASSUME Base
    PROVE  /\ dirty \subseteq 1 .. ckptN /\ 1 .. ckptN \subseteq 1 .. Len(ram)
           /\ \A i \in 1 .. Len(ram) : i \in 1 .. ckptN \/ i \in NewRows
           /\ \A i \in NewRows : i \in 1 .. Len(ram) /\ i \notin 1 .. ckptN /\ i \notin dirty
           /\ 1 .. Len(ram) \subseteq Files
           /\ manifest.n \in 0 .. Len(ram) /\ manifest.pos \in 0 .. Len(log)
<1>1. /\ ckptN \in 0 .. Len(ram) /\ Len(ram) \in Nat /\ dirty \subseteq 1 .. ckptN
      /\ 1 .. Len(ram) \subseteq Files
  BY BaseFacts DEF Base, Types
<1>2. /\ log \in Seq(Files) /\ Len(log) \in 0 .. Len(log) /\ manifest.pos \in 0 .. Len(log)
      /\ manifest.n = TopRow(log, manifest.pos) /\ Len(ram) = TopRow(log, Len(log))
  BY BaseFacts DEF Base, ManifestInv
<1>3. TopRow(log, manifest.pos) <= TopRow(log, Len(log))
  BY <1>2, TopRowGrows
<1>4. TopRow(log, manifest.pos) \in Nat
  BY <1>2, TopRowIs, Bounds
<1> QED
  BY <1>1, <1>2, <1>3, <1>4 DEF NewRows
-----------------------------------------------------------------------------
(* At first the files recover the empty table.                             *)
LEMMA ExactInit == Init => Exact
<1> SUFFICES ASSUME Init PROVE Exact
  OBVIOUS
<1>1. Base
  BY BaseInit
<1>2. RecoveredExact
  BY <1>1 DEF Base, LogAloneRecovers, RecoveredExact, Init
<1>3. journal.id = 0 /\ DOMAIN journal.pages = {} /\ manifest.id = 0 /\ manifest.version = 0
  BY DEF Init, NoJournal, NoManifest
<1> QED
  BY <1>2, <1>3 DEF Init, Exact, FileInv, ColumnInv, JournalInv, IdInv

(* A row changed below the checkpoint is dirty, one behind it is not yet   *)
(* counted by a manifest.                                                  *)
LEMMA WriteExact == ASSUME Base, Exact, NEW i \in Files, Write(i) PROVE Exact'
<1> USE DEF Exact
<1>1. /\ \A k \in 1 .. Len(log) : log'[k] = log[k]
      /\ \A m \in 0 .. Len(log) : \A j : Last(log', m, j) = Last(log, m, j)
      /\ Len(ram') >= Len(ram) /\ Len(ram') \in Nat
      /\ \A j \in 1 .. Len(ram') : ram'[j] = IF j = i THEN <<epoch, Len(log) + 1>> ELSE ram[j]
      /\ ram = TableOf(log, epoch) => ram' = TableOf(log', epoch)
  BY WriteIs
<1>2. UNCHANGED <<synced, epoch, ckptN, ckid, col, colS, journal, manifest, version>>
      /\ pc = "idle" /\ pc' = "idle"
  BY DEF Write, fileVars
<1>3. RecoveredExact'
  BY <1>1, <1>2 DEF RecoveredExact
<1>4. FileInv'
  <2> SUFFICES ASSUME manifest.id # 0, NEW j \in 1 .. manifest.n PROVE RowSafe(j)'
    BY <1>2 DEF FileInv
  <2>1. RowSafe(j)
    BY DEF FileInv
  <2>2. synced \in Nat /\ manifest.pos \in 0 .. synced /\ manifest.pos \in 0 .. Len(log)
        /\ \A k \in 1 .. synced : log'[k] = log[k]
    BY <1>1, BaseFacts
  <2>3. \A v : Good(manifest, log, synced, v, j) => Good(manifest, log', synced, v, j)
    <3>1. Last(log', manifest.pos, j) = Last(log, manifest.pos, j) /\ synced <= synced
      BY <1>1, <2>2
    <3> QED
      BY <2>2, <3>1, GoodKept
  <2> QED
    BY <1>2, <2>1, <2>3 DEF RowSafe
<1>5. dirty \subseteq dirty' /\ \A j \in 1 .. ckptN : j \notin dirty' => j \notin dirty /\ j # i
  BY DEF Write
<1>6. ColumnInv'
  <2> SUFFICES ASSUME NEW j \in 1 .. ckptN, j \notin dirty'
               PROVE  col[j] = ram'[j] /\ colS[j] = ram'[j]
    BY <1>2 DEF ColumnInv
  <2>1. j \in 1 .. Len(ram) /\ Len(ram) \in Nat
    BY RowsSplit, BaseFacts
  <2>2. ram'[j] = ram[j]
    BY <1>1, <1>5, <2>1
  <2> QED
    BY <1>5, <2>2 DEF ColumnInv
<1>7. JournalInv'
  BY <1>2, <1>5 DEF JournalInv
<1>8. IdInv'
  BY <1>2 DEF IdInv
<1> QED
  BY <1>3, <1>4, <1>6, <1>7, <1>8

(* The log a checkpoint will describe is durable first.                    *)
LEMMA SaveStartExact == ASSUME Base, Exact, SaveStart PROVE Exact'
<1> USE DEF Exact
<1>1. UNCHANGED <<log, ram, epoch, ckptN, dirty, ckid, col, colS, journal, manifest>>
      /\ synced' = Len(log) /\ pc' = "tail"
  BY DEF SaveStart, ramVars, fileVars
<1>2. FileInv'
  <2> SUFFICES ASSUME manifest.id # 0, NEW j \in 1 .. manifest.n PROVE RowSafe(j)'
    BY <1>1 DEF FileInv
  <2>1. RowSafe(j)
    BY DEF FileInv
  <2>2. synced \in Nat /\ Len(log) \in Nat /\ manifest.pos \in 0 .. synced /\ synced <= Len(log)
    BY BaseFacts
  <2>3. \A v : Good(manifest, log, synced, v, j) => Good(manifest, log, Len(log), v, j)
    BY <2>2, GoodKept
  <2> QED
    BY <1>1, <2>1, <2>3 DEF RowSafe
<1>3. RecoveredExact' /\ ColumnInv' /\ JournalInv' /\ IdInv'
  BY <1>1 DEF RecoveredExact, ColumnInv, JournalInv, IdInv
<1> QED
  BY <1>2, <1>3

(* What a step of save that writes columns leaves of the rows a manifest   *)
(* covers.                                                                 *)
LEMMA ColumnsSafe ==
    ASSUME Base, Exact, pc # "idle", UNCHANGED <<log, synced, journal, manifest>>,
           \A i \in 1 .. Len(ram) : col'[i] \in {col[i], ram[i]} /\ colS'[i] \in {colS[i], col[i]}
    PROVE  FileInv'
<1> SUFFICES ASSUME manifest.id # 0, NEW i \in 1 .. manifest.n PROVE RowSafe(i)'
  BY DEF FileInv
<1>1. RowSafe(i) /\ i \in 1 .. Len(ram) /\ manifest.epoch = epoch
  BY RowsSplit DEF Exact, FileInv, IdInv
<1>2. Good(manifest, log, synced, ram[i], i)
  BY <1>1, RamGood DEF Exact
<1> QED
  BY <1>1, <1>2 DEF RowSafe

(* New rows go behind those the manifest counts.                           *)
LEMMA WriteTailExact == ASSUME Base, Exact, WriteTail PROVE Exact'
<1> USE DEF Exact
<1>1. UNCHANGED <<log, synced, ram, epoch, ckptN, dirty, ckid, colS, journal, manifest>>
      /\ pc = "tail" /\ pc' = "journal"
      /\ \A i \in Files : col'[i] = IF i \in NewRows THEN ram[i] ELSE col[i]
  BY DEF WriteTail, ramVars, Patched
<1>2. FileInv'
  BY <1>1, ColumnsSafe, RowsSplit
<1>3. ColumnInv'
  <2>1. NewRows' = NewRows
    BY <1>1 DEF NewRows
  <2>2. \A i \in NewRows : col'[i] = ram[i]
    BY <1>1, RowsSplit
  <2>3. \A i \in 1 .. ckptN : col'[i] = col[i]
    BY <1>1, RowsSplit
  <2> QED
    BY <1>1, <2>1, <2>2, <2>3 DEF ColumnInv
<1>4. RecoveredExact' /\ JournalInv' /\ IdInv'
  BY <1>1 DEF RecoveredExact, JournalInv, IdInv
<1> QED
  BY <1>2, <1>3, <1>4

(* The rows appended are fsynced.                                          *)
LEMMA SyncColumnsExact == ASSUME Base, Exact, SyncColumns PROVE Exact'
<1> USE DEF Exact
<1>1. UNCHANGED <<log, synced, ram, epoch, ckptN, dirty, ckid, col, journal, manifest>>
      /\ pc = "sync" /\ pc' = "manifest" /\ colS' = col
  BY DEF SyncColumns, ramVars
<1>2. FileInv'
  BY <1>1, ColumnsSafe
<1>3. ColumnInv'
  BY <1>1 DEF ColumnInv, NewRows
<1>4. RecoveredExact' /\ JournalInv' /\ IdInv'
  BY <1>1 DEF RecoveredExact, JournalInv, IdInv
<1> QED
  BY <1>2, <1>3, <1>4

(* Applying the journal's pages, and a save that fails part way: only rows *)
(* of RAM reach the files.                                                 *)
LEMMA ApplyJournalExact == ASSUME Base, Exact, ApplyJournal PROVE Exact'
<1> USE DEF Exact
<1>1. UNCHANGED <<log, synced, ram, epoch, ckptN, dirty, ckid, colS, journal, manifest>>
      /\ pc = "apply" /\ pc' = "done"
      /\ \A i \in Files : col'[i] = IF i \in dirty THEN ram[i] ELSE col[i]
  BY DEF ApplyJournal, ramVars, Patched
<1>2. FileInv'
  BY <1>1, ColumnsSafe, RowsSplit
<1>3. ColumnInv'
  <2>1. NewRows' = NewRows
    BY <1>1 DEF NewRows
  <2>2. /\ \A i \in NewRows : col'[i] = col[i]
        /\ \A i \in dirty : col'[i] = ram[i]
        /\ \A i \in 1 .. ckptN : i \notin dirty => col'[i] = col[i]
    BY <1>1, RowsSplit
  <2> QED
    BY <1>1, <2>1, <2>2 DEF ColumnInv
<1>4. RecoveredExact' /\ JournalInv' /\ IdInv'
  BY <1>1 DEF RecoveredExact, JournalInv, IdInv
<1> QED
  BY <1>2, <1>3, <1>4

(* What a failed save wrote is rows behind those the manifest counts, or   *)
(* pages the journal holds.                                                *)
LEMMA SaveFailsExact == ASSUME Base, Exact, SaveFails PROVE Exact'
<1> USE DEF Exact
<1>1. UNCHANGED <<log, synced, ram, epoch, ckptN, dirty, ckid, colS, journal, manifest>>
      /\ pc # "idle" /\ pc' = "idle"
  BY DEF SaveFails, ramVars
<1>2. PICK S : S \subseteq NewRows \cup dirty /\ col' = Patched(col, S)
  BY DEF SaveFails
<1>3. \A i \in Files : col'[i] = IF i \in S THEN ram[i] ELSE col[i]
  BY <1>2 DEF Patched
<1>4. FileInv'
  BY <1>1, <1>3, ColumnsSafe, RowsSplit
<1>5. ColumnInv'
  <2>1. \A i \in 1 .. ckptN : i \notin dirty => col'[i] = col[i]
    BY <1>2, <1>3, RowsSplit
  <2> QED
    BY <1>1, <2>1 DEF ColumnInv
<1>6. RecoveredExact' /\ JournalInv' /\ IdInv'
  BY <1>1 DEF RecoveredExact, JournalInv, IdInv
<1> QED
  BY <1>4, <1>5, <1>6
(* The journal holds the changed pages before any is written in place.     *)
LEMMA WriteJournalExact == ASSUME Base, Exact, WriteJournal PROVE Exact'
<1> USE DEF Exact
<1>1. UNCHANGED <<log, synced, ram, epoch, ckptN, dirty, ckid, col, colS, manifest>>
      /\ pc = "journal" /\ pc' = "sync"
  BY DEF WriteJournal, ramVars
<1>2. ckid \in Nat /\ manifest.id \in Nat /\ journal.id \in Nat
  BY DEF Base, Types
<1>3. CASE dirty = {}
  <2>1. journal' = journal
    BY <1>3 DEF WriteJournal
  <2>2. FileInv'
    BY <1>1, <2>1, ColumnsSafe
  <2> QED
    BY <1>1, <1>3, <2>1, <2>2 DEF RecoveredExact, ColumnInv, JournalInv, IdInv, NewRows
<1>4. CASE dirty # {}
  <2>1. journal'.id = ckid + 1 /\ journal'.pages = [i \in dirty |-> ram[i]]
    BY <1>4 DEF WriteJournal
  <2>2. FileInv'
    <3> SUFFICES ASSUME manifest.id # 0, NEW i \in 1 .. manifest.n PROVE RowSafe(i)'
      BY <1>1 DEF FileInv
    <3>1. RowSafe(i) /\ i \in 1 .. Len(ram) /\ manifest.epoch = epoch
      BY RowsSplit DEF FileInv, IdInv
    <3>2. Good(manifest, log, synced, ram[i], i)
      BY <1>1, <3>1, RamGood
    <3>3. CASE i \in dirty /\ manifest.id = ckid + 1
      BY <1>1, <2>1, <3>2, <3>3 DEF RowSafe
    <3>4. CASE ~(i \in dirty /\ manifest.id = ckid + 1)
      <4>1. ~(journal.id = manifest.id /\ i \in DOMAIN journal.pages)
        BY <1>2, <3>4 DEF JournalInv
      <4>2. ~(journal'.id = manifest.id /\ i \in DOMAIN journal'.pages)
        BY <2>1, <3>4
      <4> QED
        BY <1>1, <3>1, <4>1, <4>2 DEF RowSafe
    <3> QED
      BY <3>3, <3>4
  <2>3. JournalInv'
    <3>1. DOMAIN journal'.pages = dirty /\ journal'.id # 0
      BY <1>2, <2>1
    <3> QED
      BY <1>1, <1>4, <2>1, <3>1 DEF JournalInv
  <2> QED
    BY <1>1, <2>2, <2>3 DEF RecoveredExact, ColumnInv, IdInv, NewRows
<1> QED
  BY <1>3, <1>4

(* The manifest describes RAM, which the columns and the journal hold.     *)
LEMMA WriteManifestExact == ASSUME Base, Exact, version = 1, WriteManifest PROVE Exact'
<1> USE DEF Exact
<1>1. UNCHANGED <<log, synced, ram, epoch, ckptN, dirty, ckid, col, colS, journal, version>>
      /\ pc = "manifest" /\ pc' = IF dirty = {} THEN "commit" ELSE "apply"
  BY DEF WriteManifest, ramVars
<1>2. /\ manifest'.id = ckid + 1 /\ manifest'.n = Len(ram) /\ manifest'.pos = Len(log)
      /\ manifest'.epoch = epoch /\ manifest'.version = 1
  BY DEF WriteManifest
<1>3. ckid \in Nat /\ journal.id \in Nat /\ NewRows' = NewRows
  BY <1>1 DEF Base, Types, NewRows
<1>4. FileInv'
  <2> SUFFICES ASSUME NEW i \in 1 .. Len(ram) PROVE RowSafe(i)'
    BY <1>2 DEF FileInv
  <2>1. Good(manifest', log, synced, ram[i], i)
    BY <1>2, RamIs DEF Good
  <2>2. CASE i \in dirty
    <3>1. journal.id = ckid + 1 /\ journal.pages = [j \in dirty |-> ram[j]]
      BY <1>1, <2>2 DEF JournalInv
    <3>2. journal.id = manifest'.id /\ i \in DOMAIN journal.pages /\ journal.pages[i] = ram[i]
      BY <1>2, <2>2, <3>1
    <3> QED
      BY <1>1, <2>1, <3>2 DEF RowSafe
  <2>3. CASE i \notin dirty
    <3>1. col[i] = ram[i] /\ colS[i] = ram[i]
      BY <1>1, <2>3, RowsSplit DEF ColumnInv
    <3>2. ~(journal.id = manifest'.id /\ i \in DOMAIN journal.pages)
      BY <1>2, <1>3, <2>3 DEF JournalInv
    <3> QED
      BY <1>1, <2>1, <3>1, <3>2 DEF RowSafe
  <2> QED
    BY <2>2, <2>3
<1>5. ColumnInv'
  <2>1. CASE dirty = {}
    BY <1>1, <1>3, <2>1 DEF ColumnInv
  <2>2. CASE dirty # {}
    BY <1>1, <1>3, <2>2 DEF ColumnInv
  <2> QED
    BY <2>1, <2>2
<1>6. JournalInv'
  <2>1. CASE dirty = {}
    BY <1>1, <2>1 DEF JournalInv
  <2>2. CASE dirty # {}
    BY <1>1, <2>2 DEF JournalInv
  <2> QED
    BY <2>1, <2>2
<1>7. IdInv' /\ RecoveredExact'
  BY <1>1, <1>2, <1>3 DEF IdInv, RecoveredExact
<1> QED
  BY <1>4, <1>5, <1>6, <1>7

(* After the pages are in place the files hold RAM, row for row.           *)
LEMMA FilesAreRam ==
    ASSUME Base, Exact, pc \in {"done", "commit"}
    PROVE  \A i \in 1 .. Len(ram) : col[i] = ram[i]
  BY RowsSplit DEF Exact, ColumnInv

(* The journal goes once the pages it holds are fsynced.                   *)
LEMMA RemoveJournalExact == ASSUME Base, Exact, RemoveJournal PROVE Exact'
<1> USE DEF Exact
<1>1. UNCHANGED <<log, synced, ram, epoch, ckptN, dirty, ckid, col, manifest>>
      /\ pc = "done" /\ pc' = "commit" /\ colS' = col
      /\ journal'.id = 0 /\ DOMAIN journal'.pages = {}
  BY DEF RemoveJournal, ramVars, NoJournal
<1>2. \A i \in 1 .. Len(ram) : col[i] = ram[i]
  BY <1>1, FilesAreRam
<1>3. FileInv'
  <2> SUFFICES ASSUME manifest.id # 0, NEW i \in 1 .. manifest.n PROVE RowSafe(i)'
    BY <1>1 DEF FileInv
  <2>1. i \in 1 .. Len(ram) /\ manifest.epoch = epoch
    BY RowsSplit DEF IdInv
  <2>2. Good(manifest, log, synced, ram[i], i)
    BY <1>1, <2>1, RamGood
  <2> QED
    BY <1>1, <1>2, <2>1, <2>2 DEF RowSafe
<1>4. ColumnInv'
  BY <1>1, <1>2, RowsSplit DEF ColumnInv, NewRows
<1>5. RecoveredExact' /\ JournalInv' /\ IdInv'
  BY <1>1 DEF RecoveredExact, JournalInv, IdInv
<1> QED
  BY <1>3, <1>4, <1>5

(* The remap of the committed files changes nothing the store reads.       *)
LEMMA CommitKeepsRam == ASSUME Base, Exact, Commit PROVE ram' = ram
<1>1. Len(ram) \in 0 .. MaxRow /\ col \in [Files -> Value] /\ MaxRow \in Nat /\ ram \in Seq(Value)
  BY BaseFacts DEF Base, Types
<1>2. \A i \in 1 .. Len(ram) : col[i] = ram[i]
  BY FilesAreRam DEF Commit
<1>3. ram' = SubSeq(col, 1, Len(ram))
  BY DEF Commit
<1>4. \A i \in 1 .. Len(ram) : col[i] \in Value
  BY <1>1, Bounds
<1>5. ram' \in Seq(Value) /\ Len(ram') = Len(ram) /\ \A i \in 1 .. Len(ram) : ram'[i] = col[i]
  BY <1>1, <1>3, <1>4, SubSeqProperties
<1> QED
  BY <1>1, <1>2, <1>5, SeqEqual

(* RAM is read back from the files: they hold the table.                   *)
LEMMA CommitExact == ASSUME Base, Exact, Commit PROVE Exact'
<1> USE DEF Exact
<1>1. UNCHANGED <<log, synced, ram, epoch, col, colS, journal, manifest>>
      /\ pc = "commit" /\ pc' = "idle" /\ ckptN' = Len(ram) /\ dirty' = {} /\ ckid' = ckid + 1
  BY CommitKeepsRam DEF Commit, fileVars
<1>2. \A i \in 1 .. Len(ram) : col[i] = ram[i] /\ colS[i] = ram[i]
  BY <1>1, FilesAreRam, RowsSplit DEF ColumnInv
<1>3. journal.id = 0 /\ manifest.id = ckid + 1 /\ ckid \in Nat
  BY <1>1 DEF JournalInv, IdInv, Base, Types
<1>4. FileInv'
  BY <1>1 DEF FileInv, RowSafe
<1>5. ColumnInv'
  BY <1>1, <1>2 DEF ColumnInv
<1>6. JournalInv' /\ IdInv' /\ RecoveredExact'
  BY <1>1, <1>3 DEF JournalInv, IdInv, RecoveredExact
<1> QED
  BY <1>4, <1>5, <1>6
-----------------------------------------------------------------------------
(* A start from the checkpoint: whatever the crash left of each row, the   *)
(* journal and the replay make it the log's.                               *)
LEMMA OpenExact ==
    ASSUME Base, Exact, NEW v, v = 1, Open(v)
    PROVE  Exact'
<1> USE DEF Exact
<1> DEFINE m == manifest
<1>1. PICK x \in AfterCrash :
        LET c == JournalApplied(x[1]) ops == x[3] IN
        /\ manifest.version = v
        /\ col' = c /\ colS' = IF journal.id = manifest.id THEN c ELSE x[2]
        /\ journal' = NoJournal
        /\ log' = ops /\ UNCHANGED synced
        /\ ram' = Replayed(c, manifest, ops)
        /\ epoch' = manifest.epoch
        /\ ckptN' = manifest.n
        /\ dirty' = {i \in 1 .. manifest.n : \E k \in manifest.pos + 1 .. Len(ops) : ops[k] = i}
        /\ ckid' = manifest.id
        /\ pc' = "idle" /\ version' = v
        /\ UNCHANGED <<manifest, refusals, epochs>>
  BY DEF Open
<1> DEFINE c == JournalApplied(x[1])
<1>2. /\ \A i \in Files : x[1][i] \in {col[i], colS[i]} /\ x[2][i] \in {col[i], colS[i]}
      /\ x[3] \in Seq(Files) /\ Dense(x[3]) /\ Len(x[3]) \in synced .. Len(log)
      /\ \A k \in 1 .. Len(x[3]) : x[3][k] = log[k]
      /\ \A n \in 0 .. Len(x[3]) : /\ TopRow(x[3], n) = TopRow(log, n)
                                   /\ \A i : Last(x[3], n, i) = Last(log, n, i)
  BY AfterCrashIs
<1>3. /\ log' = x[3] /\ synced' = synced /\ ram' = Replayed(c, m, log') /\ col' = c /\ manifest' = m
      /\ epoch' = m.epoch /\ ckptN' = m.n /\ ckid' = m.id /\ pc' = "idle" /\ m.version = 1
      /\ journal'.id = 0 /\ DOMAIN journal'.pages = {}
      /\ dirty' = {i \in 1 .. m.n : \E k \in m.pos + 1 .. Len(log') : log'[k] = i}
      /\ colS' = IF journal.id = m.id THEN c ELSE x[2]
  BY <1>1 DEF NoJournal
<1>4. m.id # 0
  BY <1>3 DEF IdInv
<1>5. /\ synced \in Nat /\ m.pos \in 0 .. synced /\ Len(log') \in Nat /\ synced <= Len(log')
      /\ m.pos \in 0 .. Len(log') /\ m.n \in Nat /\ m.epoch \in Nat
  BY <1>2, <1>3, BaseFacts DEF Base, Types
<1>6. /\ log' \in Seq(Files) /\ Dense(log') /\ m.n = TopRow(log', m.pos)
      /\ \A k \in 1 .. synced : log'[k] = log[k]
      /\ \A i : Last(log', m.pos, i) = Last(log, m.pos, i)
  <2>1. m.n = TopRow(log, m.pos)
    BY DEF Base, ManifestInv
  <2> QED
    BY <1>2, <1>3, <1>5, <2>1
<1>7. \A i \in 1 .. m.n : i \in Files
  BY RowsSplit
<1>8. ASSUME NEW i \in 1 .. m.n
      PROVE  Good(m, log', synced, c[i], i) /\ Good(m, log', synced, colS'[i], i)
  <2>1. RowSafe(i) /\ i \in Files
    BY <1>4, <1>7 DEF FileInv
  <2>2. x[1][i] \in {col[i], colS[i]} /\ x[2][i] \in {col[i], colS[i]}
    BY <1>2, <2>1
  <2>3. Good(m, log, synced, c[i], i) /\ Good(m, log, synced, colS'[i], i)
    <3>1. CASE journal.id = m.id /\ i \in DOMAIN journal.pages
      <4>1. c[i] = journal.pages[i] /\ colS'[i] = c[i]
        BY <1>3, <2>1, <3>1 DEF JournalApplied
      <4> QED
        BY <2>1, <3>1, <4>1 DEF RowSafe
    <3>2. CASE ~(journal.id = m.id /\ i \in DOMAIN journal.pages)
      <4>1. c[i] = x[1][i] /\ colS'[i] \in {x[1][i], x[2][i]}
        BY <1>3, <2>1, <3>2 DEF JournalApplied
      <4>2. Good(m, log, synced, col[i], i) /\ Good(m, log, synced, colS[i], i)
        BY <2>1, <3>2 DEF RowSafe
      <4> HIDE DEF m, c
      <4> QED
        BY <2>2, <4>1, <4>2
    <3> QED
      BY <3>1, <3>2
  <2>4. Last(log', m.pos, i) = Last(log, m.pos, i) /\ synced <= synced
    BY <1>5, <1>6
  <2> HIDE DEF m, c
  <2>5. ASSUME NEW w, Good(m, log, synced, w, i) PROVE Good(m, log', synced, w, i)
    BY <1>5, <1>6, <2>4, <2>5, GoodKept
  <2> QED
    BY <2>3, <2>5
<1> HIDE DEF m, c
<1>9. ASSUME NEW i \in 1 .. m.n, ~ \E k \in m.pos + 1 .. Len(log') : log'[k] = i, NEW w,
             Good(m, log', synced, w, i)
      PROVE  w = <<m.epoch, Last(log', m.pos, i)>>
  <2>1. ~ \E k \in m.pos + 1 .. synced : log'[k] = i
    BY <1>5, <1>9
  <2> QED
    BY <1>9, <2>1 DEF Good
<1> DEFINE t == TopRow(log', Len(log'))
<1>10. /\ ram' = [i \in 1 .. t |-> ram'[i]]
       /\ \A i \in 1 .. t :
             \/ (\E k \in m.pos + 1 .. Len(log') : log'[k] = i) /\ ram'[i] = <<m.epoch, Last(log', Len(log'), i)>>
             \/ /\ ~ \E k \in m.pos + 1 .. Len(log') : log'[k] = i
                /\ i \in 1 .. m.n /\ ram'[i] = c[i] /\ Last(log', Len(log'), i) = Last(log', m.pos, i)
  <2> DEFINE ops == log'
             r == Replayed(c, m, ops)
  <2>1. ops \in Seq(Files) /\ Dense(ops) /\ m.pos \in 0 .. Len(ops) /\ m.n = TopRow(ops, m.pos)
    BY <1>5, <1>6
  <2> HIDE DEF ops
  <2>2. /\ r = [i \in 1 .. TopRow(ops, Len(ops)) |-> r[i]]
        /\ \A i \in 1 .. TopRow(ops, Len(ops)) :
             \/ (\E k \in m.pos + 1 .. Len(ops) : ops[k] = i) /\ r[i] = <<m.epoch, Last(ops, Len(ops), i)>>
             \/ /\ ~ \E k \in m.pos + 1 .. Len(ops) : ops[k] = i
                /\ i \in 1 .. m.n /\ r[i] = c[i] /\ Last(ops, Len(ops), i) = Last(ops, m.pos, i)
    BY <2>1, ReplayedIs
  <2>3. ram' = r
    BY <1>3 DEF ops
  <2> HIDE DEF r
  <2> QED
    BY <2>2, <2>3 DEF ops
<1>11. ASSUME NEW i \in 1 .. t PROVE ram'[i] = <<m.epoch, Last(log', Len(log'), i)>>
  BY <1>8, <1>9, <1>10
<1>12. RecoveredExact'
  <2>1. ram' = [i \in 1 .. t |-> <<m.epoch, Last(log', Len(log'), i)>>]
    BY <1>10, <1>11
  <2>2. TableOf(log', m.epoch) = [i \in 1 .. t |-> <<m.epoch, Last(log', Len(log'), i)>>]
    BY <1>6, TableOfIs
  <2> QED
    BY <1>3, <2>1, <2>2 DEF RecoveredExact
<1>13. FileInv'
  BY <1>3, <1>4, <1>8 DEF FileInv, RowSafe
<1>14. ColumnInv'
  <2> SUFFICES ASSUME NEW i \in 1 .. m.n, i \notin dirty'
               PROVE  col'[i] = ram'[i] /\ colS'[i] = ram'[i]
    BY <1>3 DEF ColumnInv
  <2>1. ~ \E k \in m.pos + 1 .. Len(log') : log'[k] = i
    BY <1>3
  <2>2. c[i] = <<m.epoch, Last(log', m.pos, i)>> /\ colS'[i] = c[i]
    BY <1>8, <1>9, <2>1
  <2>3. i \in 1 .. t
    <3>1. m.n <= t
      BY <1>5, <1>6, TopRowGrows
    <3>2. t \in Nat
      BY <1>5, <1>6, TopRowIs, Bounds
    <3> HIDE DEF t
    <3> QED
      BY <1>5, <3>1, <3>2
  <2>4. ram'[i] = c[i]
    BY <1>10, <2>1, <2>3
  <2> QED
    BY <1>3, <2>2, <2>4
<1>15. JournalInv' /\ IdInv'
  <2>1. m.epoch = epoch'
    BY <1>3
  <2> QED
    BY <1>3, <1>4, <2>1 DEF JournalInv, IdInv
<1> QED
  BY <1>12, <1>13, <1>14, <1>15

(* Under the only version, a start refuses the checkpoint only when there  *)
(* is none.                                                                *)
LEMMA RefuseExact == ASSUME Base, Exact, Refuse(1) PROVE Exact'
<1> USE DEF Exact
<1>1. PICK x \in AfterCrash : ReplayWholeLog(x, 1) /\ journal' = journal /\ refusals' = refusals
                              /\ manifest.version # 1
  BY DEF Refuse
<1>2. RecoveredExact'
  <2>1. refusals' \in Nat
    BY <1>1 DEF Base, Types
  <2> QED
    BY <1>1, <2>1, WholeLogBase
<1>3. manifest.id = 0 /\ manifest.version = 0 /\ ckptN = 0
  BY <1>1 DEF IdInv
<1>4. dirty = {}
  BY <1>3 DEF Base, Types
<1>5. journal.id = 0 /\ DOMAIN journal.pages = {}
  BY <1>4 DEF JournalInv
<1>6. ckptN' = 0 /\ dirty' = {} /\ ckid' = 0 /\ pc' = "idle" /\ manifest' = manifest
  BY <1>1 DEF ReplayWholeLog
<1> QED
  BY <1>1, <1>2, <1>3, <1>5, <1>6 DEF FileInv, ColumnInv, JournalInv, IdInv

(* A load recovers the table, unless the files were refused.               *)
LEMMA RestartExact == ASSUME Base, Trusted => Exact, Restart, Trusted' PROVE Exact' /\ Trusted
<1>1. PICK v \in version .. Min({version + 1, 1 + MaxUpgrades}) : Open(v) \/ Refuse(v) \/ Unreadable(v)
  BY DEF Restart
<1>2. v \in Nat \ {0} /\ v >= version /\ version \in Nat \ {0} /\ refusals \in Nat
  BY RestartVersion DEF Base, Types
<1>3. version' = v /\ v = 1 /\ version = 1
  BY <1>1, <1>2 DEF Trusted, Open, Refuse, Unreadable, ReplayWholeLog
<1>4. ~Unreadable(v) /\ refusals = 0
  BY <1>1, <1>2 DEF Trusted, Open, Refuse, Unreadable
<1>5. Exact
  BY <1>3, <1>4 DEF Trusted
<1>6. CASE Open(v)
  BY <1>3, <1>4, <1>5, <1>6, OpenExact DEF Trusted
<1>7. CASE Refuse(v)
  BY <1>3, <1>4, <1>5, <1>7, RefuseExact DEF Trusted
<1> QED
  BY <1>1, <1>4, <1>6, <1>7

(* The invariant with exactness is inductive.                              *)
LEMMA IInvStep == IInv /\ [Next]_vars => IInv'
<1> SUFFICES ASSUME IInv, [Next]_vars, Trusted' PROVE Exact'
  BY BaseStep DEF IInv
<1>1. Base /\ (Trusted => Exact)
  BY DEF IInv
<1>2. CASE Restart
  BY <1>1, <1>2, RestartExact
<1>3. CASE ~Restart
  <2>1. Trusted
    BY <1>3 DEF Trusted, Next, vars, Write, SaveStart, WriteTail, WriteJournal, SyncColumns,
                WriteManifest, ApplyJournal, RemoveJournal, Commit, SaveFails
  <2>2. Exact /\ version = 1
    BY <1>1, <2>1 DEF Trusted
  <2>3. CASE UNCHANGED vars
    BY <2>2, <2>3 DEF vars, ramVars, fileVars, Exact, RecoveredExact, FileInv, RowSafe, ColumnInv,
                      NewRows, JournalInv, IdInv
  <2>4. CASE \E i \in Files : Write(i)
    BY <1>1, <2>2, <2>4, WriteExact
  <2> QED
    BY <1>1, <1>3, <2>2, <2>3, <2>4, SaveStartExact, WriteTailExact, WriteJournalExact,
       SyncColumnsExact, WriteManifestExact, ApplyJournalExact, RemoveJournalExact, CommitExact,
       SaveFailsExact DEF Next
<1> QED
  BY <1>2, <1>3

LEMMA IInvAlways == Spec => []IInv
<1>1. Init => IInv
  BY BaseInit, ExactInit DEF IInv
<1> QED
  BY <1>1, IInvStep, PTL DEF Spec

(* Until a start has refused a checkpoint that was there, the store        *)
(* answers like a full replay of its log: after a checkpoint cut short at  *)
(* any write, after any crash, and after the next checkpoint made from     *)
(* what the restart built.                                                 *)
THEOREM ExactUntilRefused == Spec => [](version = 1 /\ refusals = 0 => RecoveredExact)
<1>1. IInv => (version = 1 /\ refusals = 0 => RecoveredExact)
  BY DEF IInv, Trusted, Exact
<1> QED
  BY <1>1, IInvAlways, PTL
-----------------------------------------------------------------------------
(* A store that keeps its version and can read its files: no start refuses *)
(* a checkpoint.                                                           *)
LEMMA TrustedAlways ==
    ASSUME MaxUpgrades = 0, MaxRefusals = 0
    PROVE  Spec => [](Trusted /\ IInv)
<1>1. Init => Trusted
  BY DEF Init, Trusted
<1>2. IInv /\ Trusted /\ [Next]_vars => Trusted'
  <2> SUFFICES ASSUME IInv, Trusted, [Next]_vars PROVE Trusted'
    OBVIOUS
  <2>1. CASE Restart
    <3>1. PICK v \in version .. Min({version + 1, 1 + MaxUpgrades}) : Open(v) \/ Refuse(v) \/ Unreadable(v)
      BY <2>1 DEF Restart
    <3>2. Min({version + 1, 1 + MaxUpgrades}) = 1
      <4> DEFINE S == {version + 1, 1 + MaxUpgrades}
      <4>1. S \subseteq Nat /\ S # {} /\ 1 \in S /\ \A y \in S : y >= 1
        BY DEF Trusted
      <4>2. Min(S) \in S /\ \A y \in S : Min(S) <= y
        <5> HIDE DEF S
        <5> QED
          BY <4>1, MinIs
      <4>3. Min(S) \in Nat /\ Min(S) <= 1 /\ Min(S) >= 1
        <5> HIDE DEF S
        <5> QED
          BY <4>1, <4>2
      <4> HIDE DEF S
      <4>4. Min(S) = 1
        BY <4>3
      <4> QED
        BY <4>4 DEF S
    <3>3. v = 1 /\ version = 1 /\ refusals = 0
      BY <3>2 DEF Trusted
    <3>4. ~Unreadable(v)
      BY <3>3 DEF Unreadable
    <3> QED
      BY <3>1, <3>3, <3>4 DEF Trusted, Open, Refuse, ReplayWholeLog
  <2>2. CASE ~Restart
    BY <2>2 DEF Trusted, Next, vars, Write, SaveStart, WriteTail, WriteJournal, SyncColumns,
                WriteManifest, ApplyJournal, RemoveJournal, Commit, SaveFails
  <2> QED
    BY <2>1, <2>2
<1> QED
  BY <1>1, <1>2, IInvAlways, PTL DEF Spec

(* Such a store always answers like a full replay of its log.              *)
THEOREM AlwaysExact ==
    ASSUME MaxUpgrades = 0, MaxRefusals = 0
    PROVE  Spec => []RecoveredExact
<1>1. Trusted /\ IInv => RecoveredExact
  BY DEF IInv, Exact
<1> QED
  BY <1>1, TrustedAlways, PTL

(* The table of the abstract specification.                                *)
LEMMA TableMaps ==
    ASSUME NEW ops \in Seq(Files), NEW e, NEW r, r = TableOf(ops, e)
    PROVE  [i \in DOMAIN r |-> r[i][2]] = Abstract!TableOf(ops)
<1>1. ASSUME NEW S PROVE Max(S) = Abstract!Max(S)
  BY DEF Max, Abstract!Max
<1>2. ASSUME NEW i PROVE LastWrite(ops, i) = Abstract!LastWrite(ops, i)
  BY <1>1 DEF LastWrite, Abstract!LastWrite
<1>3. r = [i \in 1 .. Max({0} \cup {ops[k] : k \in DOMAIN ops}) |-> <<e, LastWrite(ops, i)>>]
  BY DEF TableOf
<1> QED
  BY <1>1, <1>2, <1>3 DEF Abstract!TableOf

(* The files start as the empty durable table, and every step of theirs is *)
(* a step of it or a stutter.                                              *)
LEMMA AbstractInit == Init => Abstract!Init
<1> SUFFICES ASSUME Init PROVE Abstract!Init
  OBVIOUS
<1>1. DOMAIN ram = {}
  BY DEF Init
<1>2. [i \in DOMAIN ram |-> ram[i][2]] = <<>>
  BY <1>1
<1> QED
  BY <1>2 DEF Init, Abstract!Init

LEMMA AbstractStep ==
    ASSUME Trusted, IInv, Trusted', IInv', [Next]_vars
    PROVE  [Abstract!Next]_<<log, synced, [i \in DOMAIN ram |-> ram[i][2]]>>
<1> DEFINE table == [i \in DOMAIN ram |-> ram[i][2]]
<1>1. Base /\ Exact /\ Base' /\ Exact'
  BY DEF IInv
<1>2. ram' = TableOf(log', epoch') /\ log' \in Seq(Files)
  BY <1>1 DEF Exact, RecoveredExact, Base, Types
<1>3. table' = Abstract!TableOf(log')
  BY <1>2, TableMaps
<1>4. Len(table) = Len(ram)
  <2>1. ram \in Seq(Value) /\ Len(ram) \in Nat /\ DOMAIN ram = 1 .. Len(ram)
    BY <1>1, BaseFacts
  <2>2. table = [i \in 1 .. Len(ram) |-> ram[i][2]]
    BY <2>1
  <2> HIDE DEF table
  <2> QED
    BY <2>1, <2>2
<1>5. ASSUME NEW i \in Files, Write(i) PROVE Abstract!Next
  <2>1. i \in 1 .. Len(table) + 1 /\ log' = Append(log, i) /\ synced' = synced
    BY <1>4, <1>5 DEF Write
  <2>2. Abstract!Write(i)
    BY <1>3, <2>1 DEF Abstract!Write
  <2> QED
    BY <2>2, Bounds DEF Abstract!Next
<1>6. CASE SaveStart
  BY <1>6 DEF SaveStart, ramVars, Abstract!Next, Abstract!Save
<1>7. CASE WriteTail \/ WriteJournal \/ SyncColumns \/ WriteManifest \/ ApplyJournal
           \/ RemoveJournal \/ SaveFails \/ UNCHANGED vars
  BY <1>7 DEF WriteTail, WriteJournal, SyncColumns, WriteManifest, ApplyJournal, RemoveJournal,
              SaveFails, vars, ramVars
<1>8. CASE Commit
  BY <1>1, <1>8, CommitKeepsRam DEF Commit
<1>9. CASE Restart
  <2>1. PICK v, x \in AfterCrash : log' = x[3] /\ synced' = synced
    BY <1>9 DEF Restart, Open, Refuse, Unreadable, ReplayWholeLog
  <2>2. Len(x[3]) \in synced .. Len(log) /\ x[3] = SubSeq(log, 1, Len(x[3]))
    BY <1>1, AfterCrashIs
  <2>3. Abstract!Crash
    BY <1>3, <2>1, <2>2 DEF Abstract!Crash
  <2> QED
    BY <2>3 DEF Abstract!Next
<1> QED
  BY <1>5, <1>6, <1>7, <1>8, <1>9 DEF Next

(* The files, the journal and the manifest implement the durable table:    *)
(* a write sets its row, only a crash takes operations back, and never one *)
(* that a save made safe.                                                  *)
THEOREM FilesImplementTable ==
    ASSUME MaxUpgrades = 0, MaxRefusals = 0
    PROVE  Spec => ImplementsDurableTable
<1>1. Init => Abstract!Init
  BY AbstractInit
<1>2. (Trusted /\ IInv) /\ (Trusted /\ IInv)' /\ [Next]_vars
          => [Abstract!Next]_<<log, synced, [i \in DOMAIN ram |-> ram[i][2]]>>
  BY AbstractStep
<1> QED
  BY <1>1, <1>2, TrustedAlways, PTL DEF Spec, ImplementsDurableTable, Abstract!Spec
=============================================================================
