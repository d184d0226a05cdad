--------------------------- MODULE PcdbRunsProofs ----------------------------
(***************************************************************************)
(* Proofs about PcdbRuns: its types, the order a reader meets postings in, *)
(* and that the last checkpoint can be loaded, for any set of flushing     *)
(* threads and any bounds.                                                 *)
(*                                                                         *)
(* The merges are recursive functions.  What they return is shown by       *)
(* induction on the number of steps (NatOrder's UpTo and Recursion), once  *)
(* for a filter and once for the loops that merge under the lock; from     *)
(* there on a list of runs is described by its postings in order (Ordered, *)
(* All) and its runs on disk (Disk).  The invariant says that the list     *)
(* holds what is live in order, that disk runs are backed by their files,  *)
(* that the names threads write under are their own and spared by the      *)
(* sweep, and that the manifest's files are those of a list that held what *)
(* was live when it was taken.                                             *)
(***************************************************************************)
EXTENDS PcdbRuns, NatOrder, SequenceTheorems, TLAPS

(* The values of the recursion in Filtered.                                *)
FilterSteps(g, s, D) ==
    /\ g[0] = <<>> /\ Filtered(s, D) = g[Len(s)]
    /\ \A k \in 1 .. Len(s) : g[k] = IF s[k] \in D THEN g[k - 1] ELSE Append(g[k - 1], s[k])

(* The recursion of Filtered has values: one posting more, or the same.    *)
LEMMA FilteredIs ==
    ASSUME NEW X, NEW s \in Seq(X), NEW D
    PROVE  \E g \in [0 .. Len(s) -> Seq(X)] : FilterSteps(g, s, D)
<1>0. PICK S : S = Seq(X)
  OBVIOUS
<1>1. PICK N \in Nat : N = Len(s) /\ S = Seq(X)
  <2>1. Len(s) \in Nat
    OBVIOUS
  <2> QED BY <1>0, <2>1
<1> DEFINE F == [k \in 1 .. N |-> [q \in S |-> IF s[k] \in D THEN q ELSE Append(q, s[k])]]
<1>2. <<>> \in S
  BY <1>1
<1>3. Closed(F, N, S)
  BY <1>1 DEF Closed
<1>4. PICK g \in [0 .. N -> S] : g[0] = <<>> /\ \A k \in 1 .. N : g[k] = F[k][g[k - 1]]
  <2> HIDE DEF F
  <2>1. N \in Nat
    BY <1>1
  <2>2. \E g \in [0 .. N -> S] : Follows(g, <<>>, F, N)
    BY <1>2, <1>3, <2>1, Recursion
  <2> QED BY <2>2 DEF Follows
<1>5. ASSUME NEW k \in 1 .. N
      PROVE  /\ k \in 0 .. N /\ k # 0 /\ k - 1 \in 0 .. N
             /\ g[k] = IF s[k] \in D THEN g[k - 1] ELSE Append(g[k - 1], s[k])
  <2>1. k \in 0 .. N /\ k # 0 /\ k - 1 \in 0 .. N
    OBVIOUS
  <2>2. PICK q \in S : q = g[k - 1]
    BY <2>1
  <2>3. g[k] = F[k][q]
    BY <1>4, <2>2
  <2> QED BY <2>1, <2>2, <2>3
<1> DEFINE G(h) == [k \in 0 .. N |->
                       IF k = 0 THEN <<>>
                       ELSE IF s[k] \in D THEN h[k - 1] ELSE Append(h[k - 1], s[k])]
<1>6. g = G(g)
  <2> HIDE DEF F
  <2>1. \A k \in 0 .. N : k = 0 \/ k \in 1 .. N
    OBVIOUS
  <2>2. \A k \in 0 .. N : g[k] = G(g)[k]
    BY <1>4, <1>5, <2>1
  <2>3. DOMAIN g = 0 .. N /\ g = [k \in 0 .. N |-> g[k]]
    OBVIOUS
  <2> QED BY <2>2, <2>3
<1>7. PICK f : f = G(f) /\ Filtered(s, D) = f[N]
  BY <1>6, <1>1 DEF Filtered
<1>8. ASSUME NEW k \in 0 .. N PROVE f[k] = g[k]
  <2> DEFINE P == {m \in 0 .. N : f[m] = g[m]}
  <2>1. 0 \in P
    BY <1>7, <1>4
  <2>2. ASSUME NEW m \in 1 .. N, m - 1 \in P PROVE m \in P
    <3>1. f[m] = IF s[m] \in D THEN f[m - 1] ELSE Append(f[m - 1], s[m])
      BY <1>7, <1>5
    <3> QED BY <3>1, <2>2, <1>5
  <2>3. 0 .. N \subseteq P
    <3> HIDE DEF P
    <3> QED BY <2>1, <2>2, UpTo
  <2> QED BY <2>3
<1> HIDE DEF F, G
<1>9. Filtered(s, D) = g[N]
  BY <1>7, <1>8
<1> QED BY <1>1, <1>4, <1>5, <1>9 DEF FilterSteps

Rises(s) == \A x, y \in DOMAIN s : x < y => s[x] < s[y]

(* One more at the end.                                                    *)
LEMMA AppendIs ==
    ASSUME NEW X, NEW q \in Seq(X), NEW v \in X
    PROVE  LET r == Append(q, v) IN
           /\ r \in Seq(X) /\ Len(r) = Len(q) + 1 /\ r[Len(q) + 1] = v
           /\ DOMAIN r = 1 .. Len(q) + 1 /\ DOMAIN q = 1 .. Len(q)
           /\ \A i \in 1 .. Len(q) : r[i] = q[i]
           /\ Range(r) = Range(q) \cup {v}
<1> DEFINE r == Append(q, v)
<1>1. /\ r \in Seq(X) /\ Len(r) = Len(q) + 1 /\ r[Len(q) + 1] = v
      /\ DOMAIN r = 1 .. Len(q) + 1 /\ DOMAIN q = 1 .. Len(q)
      /\ \A i \in 1 .. Len(q) : r[i] = q[i]
  OBVIOUS
<1>2. Len(q) \in Nat
  OBVIOUS
<1> HIDE DEF r
<1>3. \A i \in 1 .. Len(q) + 1 : i \in 1 .. Len(q) \/ i = Len(q) + 1
  BY <1>2
<1>4. Range(r) \subseteq Range(q) \cup {v}
  BY <1>1, <1>3 DEF Range
<1>5. Range(q) \subseteq Range(r)
  BY <1>1, <1>2 DEF Range
<1>6. v \in Range(r)
  BY <1>1, <1>2 DEF Range
<1>7. Range(r) = Range(q) \cup {v}
  BY <1>4, <1>5, <1>6
<1> QED BY <1>1, <1>7 DEF r

(* A filter keeps what is not in D, in order.                              *)
LEMMA FilteredOK ==
    ASSUME NEW X, NEW s \in Seq(X), NEW D
    PROVE  /\ Filtered(s, D) \in Seq(X)
           /\ Range(Filtered(s, D)) = Range(s) \ D
           /\ X \subseteq Int /\ Rises(s) => Rises(Filtered(s, D))
<1>1. PICK N \in Nat : N = Len(s)
  OBVIOUS
<1>2. PICK g \in [0 .. N -> Seq(X)] :
        /\ g[0] = <<>> /\ Filtered(s, D) = g[N]
        /\ \A k \in 1 .. N : g[k] = IF s[k] \in D THEN g[k - 1] ELSE Append(g[k - 1], s[k])
  <2>1. PICK g \in [0 .. Len(s) -> Seq(X)] : FilterSteps(g, s, D)
    BY FilteredIs
  <2> QED BY <1>1, <2>1 DEF FilterSteps
<1> DEFINE First(k) == {s[i] : i \in 1 .. k} \ D
           P == {k \in 0 .. N : Range(g[k]) = First(k) /\ (X \subseteq Int /\ Rises(s) => Rises(g[k]))}
<1>3. 0 \in P
  BY <1>2 DEF Range, Rises
<1>4. ASSUME NEW k \in 1 .. N, k - 1 \in P PROVE k \in P
  <2>1. PICK q \in Seq(X) : q = g[k - 1]
    OBVIOUS
  <2>2. s[k] \in X /\ k \in DOMAIN s /\ DOMAIN s = 1 .. N
    BY <1>1
  <2>3. First(k) = IF s[k] \in D THEN First(k - 1) ELSE First(k - 1) \cup {s[k]}
    <3>1. \A i \in 1 .. k : i \in 1 .. k - 1 \/ i = k
      OBVIOUS
    <3>2. \A i \in 1 .. k - 1 : i \in 1 .. k
      OBVIOUS
    <3> QED BY <3>1, <3>2
  <2>4. Range(q) = First(k - 1) /\ (X \subseteq Int /\ Rises(s) => Rises(q))
    BY <1>4, <2>1
  <2>5. CASE s[k] \in D
    <3>1. g[k] = q
      BY <1>2, <2>1, <2>5
    <3> QED BY <3>1, <2>3, <2>4, <2>5
  <2>6. CASE s[k] \notin D
    <3>1. PICK r \in Seq(X) : r = Append(q, s[k])
      BY <2>2, AppendIs
    <3>2. g[k] = r
      BY <1>2, <2>1, <2>6, <3>1
    <3>3. /\ Len(r) = Len(q) + 1 /\ r[Len(q) + 1] = s[k]
          /\ DOMAIN r = 1 .. Len(q) + 1 /\ DOMAIN q = 1 .. Len(q)
          /\ \A i \in 1 .. Len(q) : r[i] = q[i]
          /\ Range(r) = Range(q) \cup {s[k]}
      BY <2>2, <3>1, AppendIs
    <3>4. Range(r) = First(k)
      BY <2>3, <2>4, <2>6, <3>3
    <3>5. ASSUME X \subseteq Int, Rises(s) PROVE Rises(r)
      <4>1. \A v \in First(k - 1) : v < s[k]
        <5>1. ASSUME NEW i \in 1 .. k - 1 PROVE s[i] < s[k]
          <6>1. i \in DOMAIN s /\ i < k
            BY <2>2
          <6> QED BY <6>1, <2>2, <3>5 DEF Rises
        <5> QED BY <5>1
      <4>2. \A i \in 1 .. Len(q) : q[i] < s[k]
        BY <4>1, <2>4, <3>3 DEF Range
      <4>3. Rises(q)
        BY <2>4, <3>5
      <4>4. Len(q) \in Nat
        OBVIOUS
      <4> HIDE DEF First
      <4>5. ASSUME NEW x \in DOMAIN r, NEW y \in DOMAIN r, x < y PROVE r[x] < r[y]
        <5>1. x \in 1 .. Len(q) /\ (y \in 1 .. Len(q) \/ y = Len(q) + 1)
          BY <4>5, <4>4, <3>3
        <5>2. CASE y \in 1 .. Len(q)
          BY <5>1, <5>2, <4>3, <4>5, <3>3 DEF Rises
        <5>3. CASE y = Len(q) + 1
          BY <5>1, <5>3, <4>2, <3>3
        <5> QED BY <5>1, <5>2, <5>3
      <4> QED BY <4>5 DEF Rises
    <3> HIDE DEF First
    <3> QED BY <3>2, <3>4, <3>5
  <2> QED BY <2>5, <2>6
<1>5. N \in P
  <2> HIDE DEF P
  <2>1. 0 .. N \subseteq P
    BY <1>1, <1>3, <1>4, UpTo
  <2> QED BY <1>1, <2>1
<1>6. First(N) = Range(s) \ D
  BY <1>1 DEF Range
<1>7. g[N] \in Seq(X)
  BY <1>1
<1> QED BY <1>2, <1>5, <1>6, <1>7

-----------------------------------------------------------------------------
(* Lists of runs.                                                          *)
RunOf(m) == [name : Nat, post : Seq(1 .. m)]
Below(s, t) == \A v \in Range(s), w \in Range(t) : v < w
Ordered(rs) ==
    /\ \A k \in DOMAIN rs : Rises(rs[k].post)
    /\ \A j, k \in DOMAIN rs : j < k => Below(rs[j].post, rs[k].post)
All(rs) == UNION {Range(rs[k].post) : k \in DOMAIN rs}
Disk(rs) == {r \in {rs[k] : k \in DOMAIN rs} : r.name # 0}

(* The elements of a sequence of numbers.                                  *)
LEMMA RangeIn ==
    ASSUME NEW X, NEW s \in Seq(X)
    PROVE  Range(s) \subseteq X /\ DOMAIN s = 1 .. Len(s) /\ Len(s) \in Nat
BY DEF Range

(* One posting sequence after another, filtered.                           *)
LEMMA MergedIs ==
    ASSUME NEW m \in Nat, NEW a \in RunOf(m), NEW b \in RunOf(m), NEW D
    PROVE  /\ Merged(a, b, D) \in Seq(1 .. m)
           /\ Range(Merged(a, b, D)) = (Range(a.post) \cup Range(b.post)) \ D
           /\ Rises(a.post) /\ Rises(b.post) /\ Below(a.post, b.post) => Rises(Merged(a, b, D))
<1>1. PICK s \in Seq(1 .. m), t \in Seq(1 .. m) : s = a.post /\ t = b.post
  BY DEF RunOf
<1>2. PICK c \in Seq(1 .. m) : c = s \o t
  <2>1. PICK X : X = 1 .. m
    OBVIOUS
  <2>2. s \in Seq(X) /\ t \in Seq(X)
    BY <1>1, <2>1
  <2>3. s \o t \in Seq(X)
    BY <2>2
  <2> QED BY <2>1, <2>3
<1>3. /\ Len(c) = Len(s) + Len(t) /\ Len(s) \in Nat /\ Len(t) \in Nat
      /\ DOMAIN c = 1 .. Len(c) /\ DOMAIN s = 1 .. Len(s) /\ DOMAIN t = 1 .. Len(t)
      /\ \A i \in 1 .. Len(s) : c[i] = s[i]
      /\ \A i \in 1 .. Len(t) : c[i + Len(s)] = t[i]
  BY <1>2
<1>4. ASSUME NEW i \in DOMAIN c
      PROVE  i \in DOMAIN s \/ (i - Len(s) \in DOMAIN t /\ c[i] = t[i - Len(s)])
  <2>1. i \in 1 .. Len(s) \/ i - Len(s) \in 1 .. Len(t)
    BY <1>3
  <2>2. ASSUME NEW j \in 1 .. Len(t), j = i - Len(s) PROVE c[i] = t[j]
    <3>1. i = j + Len(s)
      BY <1>3, <2>2
    <3> QED BY <3>1, <1>3
  <2> QED BY <2>1, <2>2, <1>3
<1>5. Range(c) = Range(s) \cup Range(t)
  <2>1. Range(c) \subseteq Range(s) \cup Range(t)
    BY <1>3, <1>4 DEF Range
  <2>2. Range(s) \subseteq Range(c)
    BY <1>3 DEF Range
  <2>3. ASSUME NEW j \in 1 .. Len(t) PROVE t[j] \in Range(c)
    <3>1. j + Len(s) \in DOMAIN c /\ c[j + Len(s)] = t[j]
      BY <1>3
    <3> QED BY <3>1 DEF Range
  <2> QED BY <1>3, <2>1, <2>2, <2>3 DEF Range
<1>6. ASSUME Rises(s), Rises(t), Below(s, t) PROVE Rises(c)
  <2>1. ASSUME NEW x \in DOMAIN c, NEW y \in DOMAIN c, x < y PROVE c[x] < c[y]
    <3>1. CASE y \in DOMAIN s
      <4>1. x \in DOMAIN s /\ c[x] = s[x] /\ c[y] = s[y]
        BY <2>1, <3>1, <1>3
      <4> QED BY <2>1, <3>1, <4>1, <1>6 DEF Rises
    <3>2. CASE x \in DOMAIN s /\ y \notin DOMAIN s
      <4>1. c[x] \in Range(s) /\ c[y] \in Range(t)
        BY <3>2, <1>3, <1>4 DEF Range
      <4> QED BY <4>1, <1>6 DEF Below
    <3>3. CASE x \notin DOMAIN s /\ y \notin DOMAIN s
      <4>1. /\ x - Len(s) \in DOMAIN t /\ c[x] = t[x - Len(s)]
            /\ y - Len(s) \in DOMAIN t /\ c[y] = t[y - Len(s)]
        BY <3>3, <1>4
      <4>2. x - Len(s) < y - Len(s)
        BY <2>1, <1>3
      <4> QED BY <4>1, <4>2, <1>6 DEF Rises
    <3>4. y \in DOMAIN s \/ (x \in DOMAIN s /\ y \notin DOMAIN s) \/ (x \notin DOMAIN s /\ y \notin DOMAIN s)
      OBVIOUS
    <3> QED BY <3>1, <3>2, <3>3, <3>4
  <2> QED BY <2>1 DEF Rises
<1>7. PICK f : f = Filtered(c, D) /\ f = Merged(a, b, D)
  BY <1>1, <1>2 DEF Merged
<1>8. f \in Seq(1 .. m) /\ Range(f) = Range(c) \ D /\ (Rises(c) => Rises(f))
  <2>1. PICK X : X = 1 .. m /\ X \subseteq Int
    OBVIOUS
  <2>2. c \in Seq(X)
    BY <1>2, <2>1
  <2>3. /\ Filtered(c, D) \in Seq(X) /\ Range(Filtered(c, D)) = Range(c) \ D
        /\ X \subseteq Int /\ Rises(c) => Rises(Filtered(c, D))
    BY <2>2, FilteredOK
  <2> QED BY <1>7, <2>1, <2>3
<1> QED BY <1>1, <1>5, <1>6, <1>7, <1>8

(* A list that has the same postings run by run.                           *)
LEMMA SamePosts ==
    ASSUME NEW rs, Ordered(rs), NEW r, DOMAIN r = DOMAIN rs, \A k \in DOMAIN rs : r[k].post = rs[k].post
    PROVE  Ordered(r) /\ All(r) = All(rs)
<1>1. Ordered(r)
  BY DEF Ordered
<1>2. All(r) = All(rs)
  BY DEF All
<1> QED BY <1>1, <1>2

(* The neighbours k and k + 1 of list rs have become one run.              *)
Joined(r, rs, k, D) ==
    /\ DOMAIN r = 1 .. Len(rs) - 1
    /\ \A i \in 1 .. k - 1 : r[i] = rs[i]
    /\ r[k].post = Merged(rs[k], rs[k + 1], D)
    /\ \A i \in k + 1 .. Len(rs) - 1 : r[i] = rs[i + 1]

(* Joining two neighbours keeps the order, and every posting that is not   *)
(* in D; only the joined run is new.                                       *)
LEMMA JoinedOK ==
    ASSUME NEW m \in Nat, NEW rs \in Seq(RunOf(m)), Ordered(rs), NEW k \in 1 .. Len(rs) - 1, NEW D,
           NEW r, Joined(r, rs, k, D)
    PROVE  /\ Ordered(r) /\ All(r) \subseteq All(rs) /\ All(rs) \ D \subseteq All(r)
           /\ Disk(r) \subseteq Disk(rs) \cup {r[k]}
           /\ r[k].post \in Seq(1 .. m)
<1>1. PICK N \in Nat : N = Len(rs) /\ DOMAIN rs = 1 .. N /\ DOMAIN r = 1 .. N - 1
  BY DEF Joined
<1>2. k \in 1 .. N - 1 /\ k \in DOMAIN rs /\ k + 1 \in DOMAIN rs /\ rs[k] \in RunOf(m) /\ rs[k + 1] \in RunOf(m)
  BY <1>1
<1>3. PICK p : p = r[k].post
  OBVIOUS
<1>4. Rises(rs[k].post) /\ Rises(rs[k + 1].post) /\ Below(rs[k].post, rs[k + 1].post)
  <2>1. k < k + 1
    OBVIOUS
  <2> QED BY <1>2, <2>1 DEF Ordered
<1>5. p \in Seq(1 .. m) /\ Range(p) = (Range(rs[k].post) \cup Range(rs[k + 1].post)) \ D /\ Rises(p)
  <2>1. PICK a \in RunOf(m), b \in RunOf(m) : a = rs[k] /\ b = rs[k + 1]
    BY <1>2
  <2>2. p = Merged(a, b, D)
    BY <1>3, <2>1 DEF Joined
  <2>3. a \in RunOf(m) /\ b \in RunOf(m)
    BY <2>1
  <2>4. /\ Merged(a, b, D) \in Seq(1 .. m)
        /\ Range(Merged(a, b, D)) = (Range(a.post) \cup Range(b.post)) \ D
        /\ Rises(a.post) /\ Rises(b.post) /\ Below(a.post, b.post) => Rises(Merged(a, b, D))
    BY <2>3, MergedIs
  <2> QED BY <2>1, <2>2, <2>4, <1>4
<1>6. ASSUME NEW i \in DOMAIN r
      PROVE  \/ i < k /\ i \in DOMAIN rs /\ r[i] = rs[i]
             \/ i = k
             \/ i > k /\ i + 1 \in DOMAIN rs /\ r[i] = rs[i + 1]
  <2>1. i \in 1 .. k - 1 \/ i = k \/ i \in k + 1 .. N - 1
    BY <1>1, <1>2
  <2>2. CASE i \in 1 .. k - 1
    BY <2>2, <1>1, <1>2 DEF Joined
  <2>3. CASE i \in k + 1 .. N - 1
    BY <2>3, <1>1, <1>2 DEF Joined
  <2> QED BY <2>1, <2>2, <2>3
<1>7. \A i \in DOMAIN r : Rises(r[i].post)
  BY <1>3, <1>5, <1>6 DEF Ordered
<1>8. ASSUME NEW i \in DOMAIN r, NEW j \in DOMAIN r, i < j PROVE Below(r[i].post, r[j].post)
  <2>0. i \in Nat /\ j \in Nat /\ k \in Nat
    BY <1>1
  <2>1. CASE i < k /\ j < k
    BY <2>0, <2>1, <1>6, <1>8 DEF Ordered
  <2>2. CASE i < k /\ j = k
    <3>1. r[i] = rs[i] /\ i \in DOMAIN rs /\ i < k /\ i < k + 1
      BY <2>0, <2>2, <1>6
    <3>2. Below(rs[i].post, rs[k].post) /\ Below(rs[i].post, rs[k + 1].post)
      BY <3>1, <1>2 DEF Ordered
    <3> QED BY <2>2, <3>1, <3>2, <1>3, <1>5 DEF Below
  <2>3. CASE i < k /\ j > k
    <3>1. r[i] = rs[i] /\ i \in DOMAIN rs /\ r[j] = rs[j + 1] /\ j + 1 \in DOMAIN rs /\ i < j + 1
      BY <2>0, <2>3, <1>6
    <3> QED BY <3>1 DEF Ordered
  <2>4. CASE i = k
    <3>1. r[j] = rs[j + 1] /\ j + 1 \in DOMAIN rs /\ k < j + 1 /\ k + 1 < j + 1
      BY <2>0, <2>4, <1>6, <1>8
    <3>2. Below(rs[k].post, rs[j + 1].post) /\ Below(rs[k + 1].post, rs[j + 1].post)
      BY <3>1, <1>2 DEF Ordered
    <3> QED BY <2>4, <3>1, <3>2, <1>3, <1>5 DEF Below
  <2>5. CASE i > k
    <3>1. /\ r[i] = rs[i + 1] /\ i + 1 \in DOMAIN rs /\ r[j] = rs[j + 1] /\ j + 1 \in DOMAIN rs
          /\ i + 1 < j + 1
      BY <2>0, <2>5, <1>6, <1>8
    <3> QED BY <3>1 DEF Ordered
  <2> QED BY <2>0, <2>1, <2>2, <2>3, <2>4, <2>5
<1>9. All(r) \subseteq All(rs)
  <2>1. ASSUME NEW i \in DOMAIN r PROVE Range(r[i].post) \subseteq All(rs)
    BY <1>2, <1>3, <1>5, <1>6 DEF All
  <2> QED BY <2>1 DEF All
<1>10. All(rs) \ D \subseteq All(r)
  <2>1. ASSUME NEW i \in DOMAIN rs PROVE Range(rs[i].post) \ D \subseteq All(r)
    <3>1. i \in 1 .. k - 1 \/ i = k \/ i = k + 1 \/ i - 1 \in k + 1 .. N - 1
      BY <1>1, <1>2
    <3>2. CASE i \in 1 .. k - 1
      <4>1. i \in DOMAIN r /\ r[i] = rs[i]
        BY <3>2, <1>1, <1>2 DEF Joined
      <4> QED BY <4>1 DEF All
    <3>3. CASE i = k \/ i = k + 1
      <4>1. k \in DOMAIN r
        BY <1>1, <1>2
      <4> QED BY <3>3, <4>1, <1>3, <1>5 DEF All
    <3>4. CASE i - 1 \in k + 1 .. N - 1
      <4>1. PICK j \in k + 1 .. N - 1 : j = i - 1
        BY <3>4
      <4>2. j \in DOMAIN r /\ r[j] = rs[j + 1] /\ j + 1 = i
        BY <4>1, <1>1, <1>2 DEF Joined
      <4> QED BY <4>2 DEF All
    <3> QED BY <3>1, <3>2, <3>3, <3>4
  <2> QED BY <2>1 DEF All
<1>11. Disk(r) \subseteq Disk(rs) \cup {r[k]}
  BY <1>6 DEF Disk
<1> QED BY <1>3, <1>5, <1>7, <1>8, <1>9, <1>10, <1>11 DEF Ordered

(* A list of some of the runs of rs, in their order.                       *)
LEMMA FewerRuns ==
    ASSUME NEW rs, Ordered(rs), NEW r, NEW h \in [DOMAIN r -> DOMAIN rs],
           \A i \in DOMAIN r : r[i] = rs[h[i]],
           \A i, j \in DOMAIN r : i < j => h[i] < h[j]
    PROVE  Ordered(r) /\ All(r) \subseteq All(rs) /\ Disk(r) \subseteq Disk(rs)
<1>1. Ordered(r)
  BY DEF Ordered
<1>2. All(r) \subseteq All(rs)
  BY DEF All
<1>3. Disk(r) \subseteq Disk(rs)
  BY DEF Disk
<1> QED BY <1>1, <1>2, <1>3

(* The two newest runs merged.                                             *)
LEMMA TopMergedIs ==
    ASSUME NEW m \in Nat, NEW rs \in Seq(RunOf(m)), Ordered(rs), RamPair(rs)
    PROVE  LET r == TopMerged(rs) IN
           /\ r \in Seq(RunOf(m)) /\ Len(r) = Len(rs) - 1 /\ Ordered(r)
           /\ All(r) \subseteq All(rs) /\ All(rs) \ dead \subseteq All(r) /\ Disk(r) \subseteq Disk(rs)
           /\ RamOnTop(rs) => RamOnTop(r)
<1>1. PICK N \in Nat : N = Len(rs) /\ N > 1 /\ DOMAIN rs = 1 .. N /\ rs[N].name = 0 /\ rs[N - 1].name = 0
  BY DEF RamPair, InRam
<1>2. PICK k \in 1 .. N - 1 : k = N - 1 /\ k + 1 = N
  BY <1>1
<1>3. rs[k] \in RunOf(m) /\ rs[k + 1] \in RunOf(m)
  BY <1>1, <1>2
<1>4. PICK p \in Seq(1 .. m) : p = Merged(rs[k], rs[k + 1], dead)
  <2>1. PICK a \in RunOf(m), b \in RunOf(m) : a = rs[k] /\ b = rs[k + 1]
    BY <1>3
  <2>2. a \in RunOf(m) /\ b \in RunOf(m)
    BY <2>1
  <2>3. Merged(a, b, dead) \in Seq(1 .. m)
    BY <2>2, MergedIs
  <2> QED BY <2>1, <2>3
<1>5. PICK x \in RunOf(m) : x = Run(0, p)
  BY <1>4 DEF RunOf, Run
<1>6. PICK q \in Seq(RunOf(m)) : q = SubSeq(rs, 1, N - 2)
  <2>1. PICK X : X = RunOf(m)
    OBVIOUS
  <2>2. rs \in Seq(X)
    BY <2>1
  <2>3. SubSeq(rs, 1, N - 2) \in Seq(X)
    BY <2>2, <1>1
  <2> QED BY <2>1, <2>3
<1>7. Len(q) = N - 2 /\ \A i \in 1 .. N - 2 : q[i] = rs[i]
  BY <1>1, <1>6
<1>8. PICK r : r = TopMerged(rs) /\ r = Append(q, x)
  BY <1>1, <1>2, <1>4, <1>5, <1>6 DEF TopMerged
<1>9. /\ r \in Seq(RunOf(m)) /\ Len(r) = N - 1 /\ DOMAIN r = 1 .. N - 1
      /\ r[k] = x /\ \A i \in 1 .. k - 1 : r[i] = rs[i]
  <2>1. q \in Seq(RunOf(m)) /\ x \in RunOf(m)
    BY <1>5, <1>6
  <2>2. /\ Append(q, x) \in Seq(RunOf(m)) /\ Len(Append(q, x)) = Len(q) + 1 /\ Append(q, x)[Len(q) + 1] = x
        /\ DOMAIN Append(q, x) = 1 .. Len(q) + 1
        /\ \A i \in 1 .. Len(q) : Append(q, x)[i] = q[i]
    BY <2>1, AppendIs
  <2> QED BY <2>2, <1>7, <1>8, <1>2, <1>1
<1>10. Joined(r, rs, k, dead)
  <2>1. r[k].post = Merged(rs[k], rs[k + 1], dead)
    BY <1>4, <1>5, <1>9 DEF Run
  <2>2. k + 1 .. N - 1 = {}
    BY <1>1, <1>2
  <2> QED BY <2>1, <2>2, <1>1, <1>9 DEF Joined
<1>11. /\ Ordered(r) /\ All(r) \subseteq All(rs) /\ All(rs) \ dead \subseteq All(r)
       /\ Disk(r) \subseteq Disk(rs) \cup {r[k]}
  <2>1. k \in 1 .. Len(rs) - 1
    BY <1>1, <1>2
  <2> QED BY <2>1, <1>10, JoinedOK
<1>12. r[k].name = 0
  BY <1>5, <1>9 DEF Run
<1>13. Disk(r) \subseteq Disk(rs)
  BY <1>11, <1>12 DEF Disk
<1>14. ASSUME RamOnTop(rs) PROVE RamOnTop(r)
  <2>1. ASSUME NEW i \in DOMAIN r, NEW j \in DOMAIN r, i < j, InRam(r[i]) PROVE InRam(r[j])
    <3>1. i \in 1 .. k - 1 /\ (j \in 1 .. k - 1 \/ j = k)
      BY <2>1, <1>1, <1>2, <1>9
    <3>2. CASE j \in 1 .. k - 1
      <4>1. i \in DOMAIN rs /\ j \in DOMAIN rs /\ r[i] = rs[i] /\ r[j] = rs[j]
        <5>1. i \in 1 .. N /\ j \in 1 .. N
          BY <3>1, <3>2, <1>1, <1>2
        <5>2. r[i] = rs[i] /\ r[j] = rs[j]
          BY <3>1, <3>2, <1>9
        <5> QED BY <5>1, <5>2, <1>1
      <4> QED BY <4>1, <2>1, <1>14 DEF RamOnTop
    <3> QED BY <3>1, <3>2, <1>12 DEF InRam
  <2> QED BY <2>1 DEF RamOnTop
<1> QED BY <1>1, <1>8, <1>9, <1>11, <1>13, <1>14

(* What a loop under the lock may make of a list.                          *)
Keeps(r, rs) ==
    /\ Ordered(r) /\ All(r) \subseteq All(rs) /\ All(rs) \ dead \subseteq All(r)
    /\ Disk(r) \subseteq Disk(rs) /\ (RamOnTop(rs) => RamOnTop(r))
Due(rs, all) == CascadeDue(rs) \/ (all /\ RamPair(rs))

(* The values of the recursion in Collapsed.                               *)
CollapseSteps(g, rs, all) ==
    /\ g[0] = rs /\ Collapsed(rs, all) = g[Len(rs)]
    /\ \A k \in 1 .. Len(rs) : g[k] = IF Due(g[k - 1], all) THEN TopMerged(g[k - 1]) ELSE g[k - 1]

(* The recursion of Collapsed has values: the list of the step before, or  *)
(* that list with its two newest runs merged.                              *)
LEMMA CollapsedIs ==
    ASSUME NEW m \in Nat, NEW rs \in Seq(RunOf(m)), Ordered(rs), NEW all
    PROVE  \E g \in [0 .. Len(rs) -> {q \in Seq(RunOf(m)) : Ordered(q)}] : CollapseSteps(g, rs, all)
<1>0. PICK S : S = {q \in Seq(RunOf(m)) : Ordered(q)}
  OBVIOUS
<1>1. PICK N \in Nat : N = Len(rs) /\ S = {q \in Seq(RunOf(m)) : Ordered(q)}
  <2>1. Len(rs) \in Nat
    OBVIOUS
  <2> QED BY <1>0, <2>1
<1> DEFINE F == [k \in 1 .. N |-> [q \in S |-> IF Due(q, all) THEN TopMerged(q) ELSE q]]
<1>2. rs \in S
  BY <1>1
<1>3. ASSUME NEW q \in S PROVE (IF Due(q, all) THEN TopMerged(q) ELSE q) \in S
  <2>1. q \in Seq(RunOf(m)) /\ Ordered(q)
    BY <1>1
  <2>2. CASE Due(q, all)
    <3>1. RamPair(q)
      BY <2>2 DEF Due, CascadeDue
    <3>2. TopMerged(q) \in Seq(RunOf(m)) /\ Ordered(TopMerged(q))
      BY <2>1, <3>1, TopMergedIs
    <3> QED BY <2>2, <3>2, <1>1
  <2> QED BY <2>2
<1>4. Closed(F, N, S)
  BY <1>3 DEF Closed
<1>5. PICK g \in [0 .. N -> S] : g[0] = rs /\ \A k \in 1 .. N : g[k] = F[k][g[k - 1]]
  <2> HIDE DEF F
  <2>1. N \in Nat
    BY <1>1
  <2>2. \E g \in [0 .. N -> S] : Follows(g, rs, F, N)
    BY <1>2, <1>4, <2>1, Recursion
  <2> QED BY <2>2 DEF Follows
<1>6. ASSUME NEW k \in 1 .. N
      PROVE  /\ k \in 0 .. N /\ k # 0 /\ k - 1 \in 0 .. N
             /\ g[k] = IF Due(g[k - 1], all) THEN TopMerged(g[k - 1]) ELSE g[k - 1]
  <2>1. k \in 0 .. N /\ k # 0 /\ k - 1 \in 0 .. N
    OBVIOUS
  <2>2. PICK q \in S : q = g[k - 1]
    BY <2>1
  <2>3. g[k] = F[k][q]
    BY <1>5, <2>2
  <2> QED BY <2>1, <2>2, <2>3
<1> DEFINE G(h) == [k \in 0 .. N |->
                       IF k = 0 THEN rs
                       ELSE IF CascadeDue(h[k - 1]) \/ (all /\ RamPair(h[k - 1]))
                       THEN TopMerged(h[k - 1]) ELSE h[k - 1]]
<1>7. g = G(g)
  <2> HIDE DEF F
  <2>1. \A k \in 0 .. N : k = 0 \/ k \in 1 .. N
    OBVIOUS
  <2>2. \A k \in 0 .. N : g[k] = G(g)[k]
    BY <1>5, <1>6, <2>1 DEF Due
  <2>3. DOMAIN g = 0 .. N /\ g = [k \in 0 .. N |-> g[k]]
    OBVIOUS
  <2> QED BY <2>2, <2>3
<1>8. PICK f : f = G(f) /\ Collapsed(rs, all) = f[N]
  BY <1>7, <1>1 DEF Collapsed
<1>9. ASSUME NEW k \in 0 .. N PROVE f[k] = g[k]
  <2> DEFINE P == {i \in 0 .. N : f[i] = g[i]}
  <2>1. 0 \in P
    BY <1>8, <1>5
  <2>2. ASSUME NEW i \in 1 .. N, i - 1 \in P PROVE i \in P
    <3>1. f[i] = IF Due(f[i - 1], all) THEN TopMerged(f[i - 1]) ELSE f[i - 1]
      BY <1>8, <1>6 DEF Due
    <3> QED BY <3>1, <2>2, <1>6
  <2>3. 0 .. N \subseteq P
    <3> HIDE DEF P
    <3> QED BY <2>1, <2>2, UpTo
  <2> QED BY <2>3
<1> HIDE DEF F, G
<1>10. Collapsed(rs, all) = g[N]
  BY <1>8, <1>9
<1> QED BY <1>1, <1>5, <1>6, <1>10 DEF CollapseSteps

(* The loops keep what is live, in order; the one of seal_all leaves at    *)
(* most one RAM run on top.                                                *)
LEMMA CollapsedOK ==
    ASSUME NEW m \in Nat, NEW rs \in Seq(RunOf(m)), Ordered(rs), NEW all
    PROVE  LET r == Collapsed(rs, all) IN
           /\ r \in Seq(RunOf(m)) /\ Keeps(r, rs) /\ (all => ~RamPair(r))
           /\ ~RamPair(rs) => r = rs
<1>0. PICK S : S = {q \in Seq(RunOf(m)) : Ordered(q)}
  OBVIOUS
<1>1. PICK N \in Nat : N = Len(rs) /\ S = {q \in Seq(RunOf(m)) : Ordered(q)}
  <2>1. Len(rs) \in Nat
    OBVIOUS
  <2> QED BY <1>0, <2>1
<1>2. PICK g \in [0 .. N -> S] : CollapseSteps(g, rs, all)
  BY <1>1, CollapsedIs
<1>3. /\ g[0] = rs /\ Collapsed(rs, all) = g[N]
      /\ \A k \in 1 .. N : g[k] = IF Due(g[k - 1], all) THEN TopMerged(g[k - 1]) ELSE g[k - 1]
  BY <1>1, <1>2 DEF CollapseSteps
<1> DEFINE Fine(q, k) == /\ Keeps(q, rs) /\ (~Due(q, all) \/ Len(q) = N - k)
                         /\ ~RamPair(rs) => q = rs
           P == {k \in 0 .. N : Fine(g[k], k)}
<1>4. 0 \in P
  <2>1. Keeps(rs, rs)
    BY DEF Keeps
  <2> QED BY <2>1, <1>1, <1>3
<1>5. ASSUME NEW k \in 1 .. N, k - 1 \in P PROVE k \in P
  <2>1. PICK q \in S : q = g[k - 1] /\ Fine(q, k - 1)
    BY <1>5
  <2>2. q \in Seq(RunOf(m)) /\ Ordered(q)
    BY <1>1, <2>1
  <2>3. g[k] = IF Due(q, all) THEN TopMerged(q) ELSE q
    BY <1>3, <2>1
  <2>4. CASE ~Due(q, all)
    BY <2>1, <2>3, <2>4
  <2>5. CASE Due(q, all)
    <3>1. RamPair(q)
      BY <2>5 DEF Due, CascadeDue
    <3>2. PICK r : r = TopMerged(q)
      OBVIOUS
    <3>3. /\ Len(r) = Len(q) - 1 /\ Ordered(r)
          /\ All(r) \subseteq All(q) /\ All(q) \ dead \subseteq All(r) /\ Disk(r) \subseteq Disk(q)
          /\ RamOnTop(q) => RamOnTop(r)
      BY <2>2, <3>1, <3>2, TopMergedIs
    <3>4. Keeps(r, rs)
      BY <3>3, <2>1 DEF Keeps
    <3>5. Len(r) = N - k
      BY <2>1, <2>5, <3>3, <1>1
    <3>6. RamPair(rs)
      BY <2>1, <3>1
    <3> QED BY <2>3, <2>5, <3>2, <3>4, <3>5, <3>6
  <2> QED BY <2>4, <2>5
<1>6. N \in P
  <2> HIDE DEF P
  <2>1. 0 .. N \subseteq P
    BY <1>1, <1>4, <1>5, UpTo
  <2> QED BY <1>1, <2>1
<1>7. PICK r : r = g[N] /\ r \in S /\ Fine(r, N)
  BY <1>1, <1>6
<1>8. r \in Seq(RunOf(m))
  BY <1>1, <1>7
<1>9. all => ~RamPair(r)
  BY <1>7, <1>1 DEF Due, RamPair
<1> QED BY <1>3, <1>7, <1>8, <1>9
-----------------------------------------------------------------------------
(* The inductive invariant.                                                *)

(* List rs and then delta d hold, in order, every posting up to m that is  *)
(* not in D.                                                               *)
Held(rs, d, m, D) ==
    /\ rs \in Seq(RunOf(m)) /\ Ordered(rs) /\ d \in Seq(1 .. m) /\ Rises(d)
    /\ \A v \in All(rs), w \in Range(d) : v < w
    /\ (1 .. m) \ D \subseteq All(rs) \cup Range(d)

Busy(tt) == {t \in Threads : tt[t].pc \in {"seal", "disk"}}
BusyNames(tt) == {tt[t].name : t \in Busy(tt)}

(* Every disk run of rs is the file of its name, which no thread writes.   *)
Backed(rs, fs, s, busy) ==
    \A r \in Disk(rs) : r.name \in 1 .. s /\ r.name \in DOMAIN fs \ busy /\ fs[r.name] = r.post

(* A thread that writes a file has a name of its own, which the sweep      *)
(* spares, and a sealed run's file is already what it will be.             *)
Writing(tt, fs, pend, s) ==
    /\ \A t \in Busy(tt) :
          /\ tt[t].name \in 1 .. s /\ tt[t].name \in pend /\ tt[t].name \in DOMAIN fs
          /\ tt[t].pc = "seal" => fs[tt[t].name] = tt[t].a.post
          /\ \A u \in Busy(tt) : u # t => tt[u].name # tt[t].name
    /\ pend \subseteq 1 .. s

(* The list a checkpoint gives back.                                       *)
Loaded(mf, fs) == [k \in DOMAIN mf.names |-> Run(mf.names[k], fs[mf.names[k]])]

Loads(mf, fs, s, busy, m, D) ==
    /\ mf.n \in 0 .. m /\ mf.dead \subseteq D /\ mf.runSeq \in Nat
    /\ \A k \in DOMAIN mf.names :
          mf.names[k] \in 1 .. mf.runSeq /\ mf.names[k] <= s /\ mf.names[k] \in DOMAIN fs \ busy
    /\ Held(Loaded(mf, fs), <<>>, mf.n, mf.dead)

Shape ==
    /\ n \in 0 .. MaxPost /\ dead \subseteq 1 .. n /\ runSeq \in Nat
    /\ \E b \in Nat : DOMAIN files \subseteq 0 .. b
    /\ DOMAIN th = Threads
    /\ \A t \in Threads : th[t].pc \in {"idle", "cascade", "merge", "seal", "disk"}

RunsInv ==
    /\ Shape
    /\ Held(runs, delta, n, dead)
    /\ Backed(runs, files, runSeq, BusyNames(th))
    /\ Writing(th, files, pending, runSeq)
    /\ Loads(manifest, files, runSeq, BusyNames(th), n, dead)

-----------------------------------------------------------------------------
(* Lists that hold what another holds.                                     *)

(* A function on 1 .. N is a sequence.                                     *)
LEMMA FcnSeq ==
    ASSUME NEW N \in Nat, NEW Y, NEW f \in [1 .. N -> Y]
    PROVE  f \in Seq(Y) /\ Len(f) = N
OBVIOUS

(* A sequence whose elements are in Y.                                     *)
LEMMA IntoSeq ==
    ASSUME NEW X, NEW Y, NEW s \in Seq(X), \A i \in 1 .. Len(s) : s[i] \in Y
    PROVE  s \in Seq(Y)
OBVIOUS

(* More postings may come.                                                 *)
LEMMA Wider ==
    ASSUME NEW m \in Nat, NEW k \in Nat, m <= k
    PROVE  /\ \A d \in Seq(1 .. m) : d \in Seq(1 .. k)
           /\ \A r \in RunOf(m) : r \in RunOf(k)
           /\ \A rs \in Seq(RunOf(m)) : rs \in Seq(RunOf(k))
<1>1. ASSUME NEW d \in Seq(1 .. m) PROVE d \in Seq(1 .. k)
  <2>1. PICK X, Y : X = 1 .. m /\ Y = 1 .. k /\ X \subseteq Y
    OBVIOUS
  <2>2. d \in Seq(X) /\ \A i \in 1 .. Len(d) : d[i] \in Y
    BY <2>1
  <2> QED BY <2>1, <2>2, IntoSeq
<1>2. \A r \in RunOf(m) : r \in RunOf(k)
  BY <1>1 DEF RunOf
<1>3. ASSUME NEW rs \in Seq(RunOf(m)) PROVE rs \in Seq(RunOf(k))
  <2>1. PICK X, Y : X = RunOf(m) /\ Y = RunOf(k) /\ X \subseteq Y
    BY <1>2
  <2>2. rs \in Seq(X) /\ \A i \in 1 .. Len(rs) : rs[i] \in Y
    BY <2>1
  <2> QED BY <2>1, <2>2, IntoSeq
<1> QED BY <1>1, <1>2, <1>3

(* A list that holds less, and nothing live less.                          *)
LEMMA HeldBy ==
    ASSUME NEW rs, NEW d, NEW m, NEW D, Held(rs, d, m, D),
           NEW r \in Seq(RunOf(m)), Ordered(r), All(r) \subseteq All(rs), All(rs) \ D \subseteq All(r)
    PROVE  Held(r, d, m, D)
BY DEF Held

(* The delta as the newest run.                                            *)
LEMMA NewestRun ==
    ASSUME NEW m \in Nat, NEW rs, NEW d, NEW D, Held(rs, d, m, D)
    PROVE  LET r == Append(rs, Run(0, d)) IN Held(r, <<>>, m, D) /\ Disk(r) \subseteq Disk(rs)
<1>1. rs \in Seq(RunOf(m)) /\ Ordered(rs) /\ d \in Seq(1 .. m) /\ Rises(d)
  BY DEF Held
<1>2. PICK x \in RunOf(m) : x = Run(0, d) /\ x.post = d /\ x.name = 0
  <2>1. Run(0, d) \in RunOf(m)
    BY <1>1 DEF RunOf, Run
  <2>2. Run(0, d).post = d /\ Run(0, d).name = 0
    BY DEF Run
  <2> QED BY <2>1, <2>2
<1>3. PICK r : r = Append(rs, x)
  OBVIOUS
<1>4. PICK N \in Nat : N = Len(rs)
  BY <1>1
<1>5. /\ r \in Seq(RunOf(m)) /\ r[N + 1] = x
      /\ DOMAIN r = 1 .. N + 1 /\ DOMAIN rs = 1 .. N
      /\ \A i \in 1 .. N : r[i] = rs[i]
  <2>1. x \in RunOf(m)
    BY <1>2
  <2> QED BY <2>1, <1>1, <1>3, <1>4, AppendIs
<1>6. \A i \in 1 .. N + 1 : i \in 1 .. N \/ i = N + 1
  BY <1>4
<1>7. All(r) = All(rs) \cup Range(d)
  <2>1. All(r) \subseteq All(rs) \cup Range(d)
    BY <1>2, <1>5, <1>6 DEF All
  <2>2. All(rs) \subseteq All(r)
    BY <1>4, <1>5 DEF All
  <2>3. Range(d) \subseteq All(r)
    BY <1>2, <1>4, <1>5 DEF All
  <2> QED BY <2>1, <2>2, <2>3
<1>8. Ordered(r)
  <2>1. \A i \in DOMAIN r : Rises(r[i].post)
    BY <1>1, <1>2, <1>5, <1>6 DEF Ordered
  <2>2. ASSUME NEW i \in DOMAIN r, NEW j \in DOMAIN r, i < j PROVE Below(r[i].post, r[j].post)
    <3>1. i \in 1 .. N /\ (j \in 1 .. N \/ j = N + 1)
      BY <2>2, <1>4, <1>5
    <3>2. CASE j \in 1 .. N
      BY <3>1, <3>2, <2>2, <1>1, <1>5 DEF Ordered
    <3>3. CASE j = N + 1
      <4>1. \A v \in All(rs), w \in Range(d) : v < w
        BY DEF Held
      <4>2. Range(r[i].post) \subseteq All(rs)
        BY <3>1, <1>5 DEF All
      <4> QED BY <3>3, <4>1, <4>2, <1>2, <1>5 DEF Below
    <3> QED BY <3>1, <3>2, <3>3
  <2> QED BY <2>1, <2>2 DEF Ordered
<1>9. Disk(r) \subseteq Disk(rs)
  BY <1>2, <1>5, <1>6 DEF Disk
<1>10. <<>> \in Seq(1 .. m) /\ Rises(<<>>) /\ Range(<<>>) = {}
  BY DEF Rises, Range
<1>11. (1 .. m) \ D \subseteq All(r)
  BY <1>7 DEF Held
<1>12. Held(r, <<>>, m, D)
  BY <1>5, <1>8, <1>10, <1>11 DEF Held
<1> QED BY <1>2, <1>3, <1>9, <1>12

(* take_delta.                                                             *)
LEMMA TakenOK ==
    ASSUME n \in Nat, Held(runs, delta, n, dead)
    PROVE  Held(Taken, <<>>, n, dead) /\ Disk(Taken) \subseteq Disk(runs)
<1>1. CASE delta = <<>>
  BY <1>1 DEF Taken
<1>2. CASE delta # <<>>
  BY <1>2, NewestRun DEF Taken
<1> QED BY <1>1, <1>2

(* A pair of neighbours replaced by a run, or by nothing.                  *)
LEMMA ReplacedIs ==
    ASSUME NEW X, runs \in Seq(X), NEW k \in 1 .. Len(runs) - 1, NEW u \in Seq(X), Len(u) \in {0, 1}
    PROVE  LET r == Replaced(k, u) IN
           /\ r \in Seq(X) /\ Len(r) = Len(runs) - 2 + Len(u) /\ DOMAIN r = 1 .. Len(r)
           /\ \A i \in 1 .. k - 1 : r[i] = runs[i]
           /\ Len(u) = 1 => r[k] = u[1]
           /\ \A i \in k + Len(u) .. Len(r) : r[i] = runs[i + 2 - Len(u)]
<1>1. PICK N \in Nat : N = Len(runs) /\ k \in 1 .. N - 1
  <2>1. Len(runs) \in Nat
    OBVIOUS
  <2> QED BY <2>1
<1>2. \A i \in 1 .. N : runs[i] \in X
  BY <1>1
<1>3. PICK s : s = SubSeq(runs, 1, k - 1)
  OBVIOUS
<1>4. s \in Seq(X) /\ Len(s) = k - 1 /\ \A i \in 1 .. k - 1 : s[i] = runs[i]
  <2>1. k - 1 \in Int /\ \A i \in 1 .. k - 1 : runs[i] \in X
    BY <1>1, <1>2
  <2>2. /\ SubSeq(runs, 1, k - 1) \in Seq(X)
        /\ Len(SubSeq(runs, 1, k - 1)) = IF 1 <= k - 1 THEN k - 1 - 1 + 1 ELSE 0
        /\ \A i \in 1 .. k - 1 - 1 + 1 : SubSeq(runs, 1, k - 1)[i] = runs[1 + i - 1]
    BY <2>1, SubSeqProperties
  <2> QED BY <1>3, <2>2
<1>5. PICK v : v = SubSeq(runs, k + 2, N)
  OBVIOUS
<1>6. v \in Seq(X) /\ Len(v) = N - k - 1 /\ \A i \in 1 .. N - k - 1 : v[i] = runs[i + k + 1]
  <2>1. k + 2 \in Int /\ \A i \in k + 2 .. N : runs[i] \in X
    BY <1>1, <1>2
  <2>2. /\ SubSeq(runs, k + 2, N) \in Seq(X)
        /\ Len(SubSeq(runs, k + 2, N)) = IF k + 2 <= N THEN N - (k + 2) + 1 ELSE 0
        /\ \A i \in 1 .. N - (k + 2) + 1 : SubSeq(runs, k + 2, N)[i] = runs[(k + 2) + i - 1]
    BY <2>1, <1>1, SubSeqProperties
  <2>3. ASSUME NEW i \in 1 .. N - k - 1 PROVE (k + 2) + i - 1 = i + k + 1 /\ i \in 1 .. N - (k + 2) + 1
    BY <1>1
  <2>4. \A i \in 1 .. N - k - 1 : v[i] = runs[i + k + 1]
    BY <1>5, <2>2, <2>3
  <2>5. Len(v) = N - k - 1
    BY <1>1, <1>5, <2>2
  <2> QED BY <1>5, <2>2, <2>4, <2>5
<1>7. PICK l \in 0 .. 1 : l = Len(u)
  OBVIOUS
<1>8. PICK w : w = s \o u
  OBVIOUS
<1>9. w \in Seq(X) /\ Len(w) = k - 1 + l
      /\ \A i \in 1 .. k - 1 + l : w[i] = IF i <= k - 1 THEN s[i] ELSE u[i - (k - 1)]
  <2>1. s \in Seq(X) /\ u \in Seq(X)
    BY <1>4
  <2>2. /\ s \o u \in Seq(X) /\ Len(s \o u) = Len(s) + Len(u)
        /\ \A i \in 1 .. Len(s) + Len(u) : (s \o u)[i] = IF i <= Len(s) THEN s[i] ELSE u[i - Len(s)]
    BY <2>1, ConcatProperties, Zenon
  <2> QED BY <2>2, <1>4, <1>7, <1>8
<1>10. PICK r : r = w \o v
  OBVIOUS
<1>11. /\ r \in Seq(X) /\ Len(r) = N - 2 + l /\ DOMAIN r = 1 .. Len(r)
       /\ \A i \in 1 .. N - 2 + l : r[i] = IF i <= k - 1 + l THEN w[i] ELSE v[i - (k - 1 + l)]
       /\ Replaced(k, u) = r
  <2>1. /\ r \in Seq(X) /\ Len(r) = Len(w) + Len(v)
        /\ \A i \in 1 .. Len(w) + Len(v) : r[i] = IF i <= Len(w) THEN w[i] ELSE v[i - Len(w)]
    <3>1. w \in Seq(X) /\ v \in Seq(X)
      BY <1>6, <1>9
    <3>2. /\ w \o v \in Seq(X) /\ Len(w \o v) = Len(w) + Len(v)
          /\ \A i \in 1 .. Len(w) + Len(v) : (w \o v)[i] = IF i <= Len(w) THEN w[i] ELSE v[i - Len(w)]
      BY <3>1, ConcatProperties, Zenon
    <3> QED BY <3>2, <1>10
  <2>2. Len(w) + Len(v) = N - 2 + l
    BY <1>1, <1>6, <1>7, <1>9
  <2>3. Replaced(k, u) = r
    BY <1>1, <1>3, <1>5, <1>8, <1>10 DEF Replaced
  <2>4. DOMAIN r = 1 .. Len(r)
    BY <2>1
  <2> QED BY <2>1, <2>2, <2>3, <2>4, <1>9
<1>12. ASSUME NEW i \in 1 .. k - 1 PROVE r[i] = runs[i]
  <2>1. i \in 1 .. N - 2 + l /\ i <= k - 1 + l /\ i \in 1 .. k - 1 + l /\ i <= k - 1
    BY <1>1, <1>7
  <2> QED BY <2>1, <1>4, <1>9, <1>11
<1>13. l = 1 => r[k] = u[1]
  <2>1. ASSUME l = 1 PROVE k \in 1 .. N - 2 + l /\ k <= k - 1 + l /\ k \in 1 .. k - 1 + l /\ ~(k <= k - 1) /\ k - (k - 1) = 1
    BY <1>1, <2>1
  <2> QED BY <2>1, <1>9, <1>11
<1>14. ASSUME NEW i \in k + l .. N - 2 + l PROVE r[i] = runs[i + 2 - l]
  <2>1. i - (k - 1 + l) \in 1 .. N - k - 1 /\ ~(i <= k - 1 + l) /\ i \in 1 .. N - 2 + l
    BY <1>1, <1>7
  <2>2. PICK j \in 1 .. N - k - 1 : j = i - (k - 1 + l)
    BY <2>1
  <2>3. j + k + 1 = i + 2 - l
    BY <1>1, <1>7, <2>2
  <2>4. r[i] = v[j] /\ v[j] = runs[j + k + 1]
    BY <1>6, <1>11, <2>1, <2>2
  <2> QED BY <2>3, <2>4
<1> QED BY <1>1, <1>7, <1>11, <1>12, <1>13, <1>14

(* Merged neighbours, swapped in.                                          *)
LEMMA ReplacedOne ==
    ASSUME NEW m \in Nat, NEW d, Held(runs, d, m, dead), NEW k \in 1 .. Len(runs) - 1,
           NEW D \in SUBSET dead, NEW x \in Nat
    PROVE  LET z == Run(x, Merged(runs[k], runs[k + 1], D))
               r == Replaced(k, <<z>>) IN
           Held(r, d, m, dead) /\ Disk(r) \subseteq Disk(runs) \cup {z}
<1>1. runs \in Seq(RunOf(m)) /\ Ordered(runs)
  BY DEF Held
<1>2. PICK N \in Nat : N = Len(runs) /\ k \in 1 .. N - 1
  <2>1. Len(runs) \in Nat
    BY <1>1
  <2> QED BY <2>1
<1>3. PICK a \in RunOf(m), b \in RunOf(m) : a = runs[k] /\ b = runs[k + 1]
  BY <1>1, <1>2
<1>4. PICK p \in Seq(1 .. m) : p = Merged(a, b, D)
  <2>1. a \in RunOf(m) /\ b \in RunOf(m)
    BY <1>3
  <2>2. Merged(a, b, D) \in Seq(1 .. m)
    BY <2>1, MergedIs
  <2> QED BY <2>2
<1>5. PICK z \in RunOf(m) : z = Run(x, p)
  BY <1>4 DEF Run, RunOf
<1>6. PICK X : X = RunOf(m)
  OBVIOUS
<1>7. PICK u \in Seq(X) : u = <<z>> /\ Len(u) = 1 /\ u[1] = z
  <2>1. <<z>> \in Seq(X) /\ Len(<<z>>) = 1 /\ <<z>>[1] = z
    BY <1>5, <1>6
  <2> QED BY <2>1
<1>8. PICK r : r = Replaced(k, u)
  OBVIOUS
<1>9. /\ r \in Seq(X) /\ DOMAIN r = 1 .. N - 1
      /\ \A i \in 1 .. k - 1 : r[i] = runs[i]
      /\ r[k] = z
      /\ \A i \in k + 1 .. N - 1 : r[i] = runs[i + 1]
  <2>1. runs \in Seq(X)
    BY <1>1, <1>6
  <2>2. u \in Seq(X) /\ Len(u) \in {0, 1}
    BY <1>7
  <2>3. /\ r \in Seq(X) /\ Len(r) = Len(runs) - 2 + Len(u) /\ DOMAIN r = 1 .. Len(r)
        /\ \A i \in 1 .. k - 1 : r[i] = runs[i]
        /\ Len(u) = 1 => r[k] = u[1]
        /\ \A i \in k + Len(u) .. Len(r) : r[i] = runs[i + 2 - Len(u)]
    BY <2>1, <2>2, <1>8, ReplacedIs
  <2> QED BY <2>3, <1>2, <1>7
<1>10. Joined(r, runs, k, D)
  <2>1. r[k].post = Merged(runs[k], runs[k + 1], D)
    BY <1>3, <1>4, <1>5, <1>9 DEF Run
  <2> QED BY <2>1, <1>2, <1>9 DEF Joined
<1>11. /\ Ordered(r) /\ All(r) \subseteq All(runs) /\ All(runs) \ D \subseteq All(r)
       /\ Disk(r) \subseteq Disk(runs) \cup {r[k]}
  BY <1>1, <1>10, JoinedOK
<1>12. All(runs) \ dead \subseteq All(r)
  BY <1>11
<1>13. Held(r, d, m, dead)
  <2>1. r \in Seq(RunOf(m))
    BY <1>6, <1>9
  <2> QED BY <2>1, <1>11, <1>12, HeldBy
<1> QED BY <1>3, <1>4, <1>5, <1>7, <1>8, <1>9, <1>11, <1>13

(* Neighbours nothing is left of, dropped.                                 *)
LEMMA ReplacedNone ==
    ASSUME NEW m \in Nat, NEW d, Held(runs, d, m, dead), NEW k \in 1 .. Len(runs) - 1,
           NEW D \in SUBSET dead, Merged(runs[k], runs[k + 1], D) = <<>>
    PROVE  LET r == Replaced(k, <<>>) IN Held(r, d, m, dead) /\ Disk(r) \subseteq Disk(runs)
<1>1. runs \in Seq(RunOf(m)) /\ Ordered(runs)
  BY DEF Held
<1>2. PICK N \in Nat : N = Len(runs) /\ k \in 1 .. N - 1 /\ DOMAIN runs = 1 .. N
  <2>1. Len(runs) \in Nat /\ DOMAIN runs = 1 .. Len(runs)
    BY <1>1
  <2> QED BY <2>1
<1>3. PICK a \in RunOf(m), b \in RunOf(m) : a = runs[k] /\ b = runs[k + 1]
  BY <1>1, <1>2
<1>4. Range(a.post) \cup Range(b.post) \subseteq dead
  <2>1. a \in RunOf(m) /\ b \in RunOf(m)
    BY <1>3
  <2>2. Range(Merged(a, b, D)) = (Range(a.post) \cup Range(b.post)) \ D
    BY <2>1, MergedIs
  <2>3. Range(Merged(a, b, D)) = {}
    BY <1>3 DEF Range
  <2> QED BY <2>2, <2>3
<1>5. PICK X : X = RunOf(m)
  OBVIOUS
<1>6. PICK u \in Seq(X) : u = <<>> /\ Len(u) = 0
  <2>1. <<>> \in Seq(X) /\ Len(<<>>) = 0
    OBVIOUS
  <2> QED BY <2>1
<1>7. PICK r : r = Replaced(k, u)
  OBVIOUS
<1>8. /\ r \in Seq(X) /\ DOMAIN r = 1 .. N - 2
      /\ \A i \in 1 .. k - 1 : r[i] = runs[i]
      /\ \A i \in k .. N - 2 : r[i] = runs[i + 2]
  <2>1. runs \in Seq(X)
    BY <1>1, <1>5
  <2>2. u \in Seq(X) /\ Len(u) \in {0, 1}
    BY <1>6
  <2>3. /\ r \in Seq(X) /\ Len(r) = Len(runs) - 2 + Len(u) /\ DOMAIN r = 1 .. Len(r)
        /\ \A i \in 1 .. k - 1 : r[i] = runs[i]
        /\ Len(u) = 1 => r[k] = u[1]
        /\ \A i \in k + Len(u) .. Len(r) : r[i] = runs[i + 2 - Len(u)]
    BY <2>1, <2>2, <1>7, ReplacedIs
  <2> QED BY <2>3, <1>2, <1>6
<1> DEFINE h == [i \in DOMAIN r |-> IF i < k THEN i ELSE i + 2]
<1>9. h \in [DOMAIN r -> DOMAIN runs]
  BY <1>2, <1>8
<1>10. \A i \in DOMAIN r : r[i] = runs[h[i]]
  BY <1>2, <1>8
<1>11. \A i, j \in DOMAIN r : i < j => h[i] < h[j]
  BY <1>2, <1>8
<1>12. Ordered(r) /\ All(r) \subseteq All(runs) /\ Disk(r) \subseteq Disk(runs)
  <2> HIDE DEF h
  <2> QED BY <1>1, <1>9, <1>10, <1>11, FewerRuns
<1>13. ASSUME NEW i \in DOMAIN runs PROVE Range(runs[i].post) \ dead \subseteq All(r)
  <2>1. i \in 1 .. k - 1 \/ i = k \/ i = k + 1 \/ i - 2 \in k .. N - 2
    BY <1>2
  <2>2. CASE i \in 1 .. k - 1
    <3>1. i \in DOMAIN r /\ r[i] = runs[i]
      BY <2>2, <1>2, <1>8
    <3> QED BY <3>1 DEF All
  <2>3. CASE i = k \/ i = k + 1
    BY <2>3, <1>3, <1>4
  <2>4. CASE i - 2 \in k .. N - 2
    <3>1. PICK j \in k .. N - 2 : j = i - 2
      BY <2>4
    <3>2. j \in DOMAIN r /\ r[j] = runs[i]
      BY <3>1, <1>2, <1>8
    <3> QED BY <3>2 DEF All
  <2> QED BY <2>1, <2>2, <2>3, <2>4
<1>14. All(runs) \ dead \subseteq All(r)
  BY <1>13 DEF All
<1>15. Held(r, d, m, dead)
  <2>1. r \in Seq(RunOf(m))
    BY <1>5, <1>8
  <2> QED BY <2>1, <1>12, <1>14, HeldBy
<1> QED BY <1>6, <1>7, <1>12, <1>15

(* The place found is one where the two runs are neighbours.               *)
LEMMA PlaceOfIs ==
    ASSUME NEW X, runs \in Seq(X), NEW a, NEW b, PlaceOf(a, b) # 0
    PROVE  LET k == PlaceOf(a, b) IN
           k \in 1 .. Len(runs) - 1 /\ runs[k] = a /\ runs[k + 1] = b
<1>1. PICK at : at = {k \in 1 .. Len(runs) - 1 : runs[k] = a /\ runs[k + 1] = b}
  OBVIOUS
<1>2. PlaceOf(a, b) = IF at = {} THEN 0 ELSE Min(at)
  BY <1>1 DEF PlaceOf
<1>3. at \subseteq Nat /\ at # {}
  BY <1>1, <1>2
<1>4. Min(at) \in at
  BY <1>3, MinIs
<1> QED BY <1>1, <1>2, <1>3, <1>4

-----------------------------------------------------------------------------
(* What flush, merge and seal_all make of the list.                        *)

(* A list of runs that are in RAM or were in the list.                     *)
Old(l) == Held(l, <<>>, n, dead) /\ Disk(l) \subseteq Disk(runs)

(* One whose newest run may also have the next name.                       *)
Fresh(l) ==
    /\ Held(l, <<>>, n, dead)
    /\ \A k \in DOMAIN l :
          l[k].name = 0 \/ l[k] \in Disk(runs) \/ (k = Len(l) /\ l[k].name = runSeq + 1)

(* A list without a new name is one with at most one.                      *)
LEMMA OldIsFresh ==
    ASSUME NEW l, Old(l)
    PROVE  Fresh(l)
BY DEF Old, Fresh, Disk

(* The newest run under another name.                                      *)
LEMMA RenamedIs ==
    ASSUME NEW m \in Nat, NEW x \in Nat, NEW l \in Seq(RunOf(m)), l # <<>>
    PROVE  LET r == [l EXCEPT ![Len(l)].name = x] IN
           /\ r \in Seq(RunOf(m)) /\ Len(r) = Len(l) /\ DOMAIN r = DOMAIN l /\ Len(l) \in DOMAIN l
           /\ \A k \in DOMAIN l : r[k].post = l[k].post /\ (k # Len(l) => r[k] = l[k])
           /\ r[Len(l)].name = x
<1>1. PICK N \in Nat : N = Len(l) /\ DOMAIN l = 1 .. N
  OBVIOUS
<1>2. N \in DOMAIN l /\ l[N] \in RunOf(m)
  BY <1>1
<1>3. PICK y \in RunOf(m) : y = [l[N] EXCEPT !.name = x] /\ y.name = x /\ y.post = l[N].post
  <2>1. PICK z \in RunOf(m) : z = l[N]
    BY <1>2
  <2>2. [z EXCEPT !.name = x] \in RunOf(m)
    BY <2>1 DEF RunOf
  <2>3. [z EXCEPT !.name = x].name = x /\ [z EXCEPT !.name = x].post = z.post
    BY <2>1 DEF RunOf
  <2> QED BY <2>1, <2>2, <2>3
<1>4. PICK r : r = [l EXCEPT ![Len(l)].name = x]
  OBVIOUS
<1>5. DOMAIN r = 1 .. N /\ r[N] = y /\ \A k \in 1 .. N : k # N => r[k] = l[k]
  BY <1>1, <1>2, <1>3, <1>4
<1>6. r \in [1 .. N -> RunOf(m)]
  <2>1. \A k \in 1 .. N : l[k] \in RunOf(m)
    BY <1>1
  <2>2. \A k \in 1 .. N : r[k] \in RunOf(m)
    BY <2>1, <1>3, <1>5
  <2>3. r = [k \in 1 .. N |-> r[k]]
    BY <1>1, <1>4
  <2> QED BY <2>2, <2>3
<1>7. r \in Seq(RunOf(m)) /\ Len(r) = N
  <2>1. N \in Nat
    BY <1>1
  <2> QED BY <1>6, <2>1, FcnSeq
<1>8. \A k \in DOMAIN l : r[k].post = l[k].post /\ (k # Len(l) => r[k] = l[k])
  BY <1>1, <1>3, <1>5
<1> QED BY <1>1, <1>2, <1>3, <1>4, <1>5, <1>7, <1>8

(* What a seal leaves.                                                     *)
LEMMA SealedIs ==
    ASSUME NEW m \in Nat, NEW s \in Nat, NEW D, NEW l, Held(l, <<>>, m, D)
    PROVE  LET r == Sealed(l, s) IN
           /\ Held(r, <<>>, m, D)
           /\ DOMAIN r = DOMAIN l /\ Len(r) = Len(l)
           /\ \A k \in DOMAIN l : r[k].post = l[k].post /\ (k # Len(l) => r[k] = l[k])
           /\ SealDue(l) => Len(l) \in DOMAIN l /\ r[Len(l)].name = s + 1
           /\ ~SealDue(l) => r = l
<1>1. l \in Seq(RunOf(m)) /\ Ordered(l) /\ s + 1 \in Nat
  BY DEF Held
<1>2. CASE ~SealDue(l)
  BY <1>2 DEF Sealed
<1>3. CASE SealDue(l)
  <2>1. l # <<>>
    BY <1>3 DEF SealDue
  <2>2. PICK x \in Nat : x = s + 1
    BY <1>1
  <2>3. PICK r : r = [l EXCEPT ![Len(l)].name = x]
    OBVIOUS
  <2>4. r = Sealed(l, s)
    BY <1>3, <2>2, <2>3 DEF Sealed
  <2>5. /\ r \in Seq(RunOf(m)) /\ Len(r) = Len(l) /\ DOMAIN r = DOMAIN l /\ Len(l) \in DOMAIN l
        /\ \A k \in DOMAIN l : r[k].post = l[k].post /\ (k # Len(l) => r[k] = l[k])
        /\ r[Len(l)].name = x
    <3>1. x \in Nat
      BY <2>2
    <3> QED BY <3>1, <2>1, <2>3, <1>1, RenamedIs
  <2>6. Ordered(r) /\ All(r) = All(l)
    BY <2>5, <1>1, SamePosts
  <2>7. Held(r, <<>>, m, D)
    BY <2>5, <2>6, HeldBy
  <2> QED BY <1>3, <2>2, <2>4, <2>5, <2>7
<1> QED BY <1>2, <1>3

(* The list after the flush's own seal.                                    *)
LEMMA SealedFresh ==
    ASSUME n \in Nat, runSeq \in Nat, NEW l, Old(l)
    PROVE  Fresh(Sealed(l, runSeq))
<1>1. Held(l, <<>>, n, dead) /\ Disk(l) \subseteq Disk(runs)
  BY DEF Old
<1>2. PICK r : r = Sealed(l, runSeq)
  OBVIOUS
<1>3. /\ Held(r, <<>>, n, dead)
      /\ DOMAIN r = DOMAIN l /\ Len(r) = Len(l)
      /\ \A k \in DOMAIN l : r[k].post = l[k].post /\ (k # Len(l) => r[k] = l[k])
      /\ SealDue(l) => Len(l) \in DOMAIN l /\ r[Len(l)].name = runSeq + 1
      /\ ~SealDue(l) => r = l
  BY <1>1, <1>2, SealedIs
<1>4. CASE SealDue(l)
  BY <1>1, <1>2, <1>3, <1>4 DEF Fresh, Disk
<1>5. CASE ~SealDue(l)
  BY <1>2, <1>3, <1>5, OldIsFresh
<1> QED BY <1>4, <1>5

(* The loops under the lock.                                               *)
LEMMA CollapsedOld ==
    ASSUME n \in Nat, NEW l, Old(l), NEW all
    PROVE  LET r == Collapsed(l, all) IN
           /\ Old(r) /\ r \in Seq(RunOf(n)) /\ (RamOnTop(l) => RamOnTop(r))
           /\ (all => ~RamPair(r)) /\ (~RamPair(l) => r = l)
<1>1. Held(l, <<>>, n, dead) /\ Disk(l) \subseteq Disk(runs) /\ l \in Seq(RunOf(n)) /\ Ordered(l)
  BY DEF Old, Held
<1>2. PICK r : r = Collapsed(l, all)
  OBVIOUS
<1>3. r \in Seq(RunOf(n)) /\ Keeps(r, l) /\ (all => ~RamPair(r)) /\ (~RamPair(l) => r = l)
  BY <1>1, <1>2, CollapsedOK
<1>4. Held(r, <<>>, n, dead)
  <2>1. Ordered(r) /\ All(r) \subseteq All(l) /\ All(l) \ dead \subseteq All(r)
    BY <1>3 DEF Keeps
  <2> QED BY <2>1, <1>1, <1>3, HeldBy
<1>5. Old(r) /\ (RamOnTop(l) => RamOnTop(r))
  BY <1>1, <1>3, <1>4 DEF Old, Keeps
<1> QED BY <1>2, <1>3, <1>5

(* RAM runs on top of the disk runs, and no two of them.                   *)
LEMMA OneRam ==
    ASSUME NEW X, NEW l \in Seq(X), RamOnTop(l), ~RamPair(l), NEW k \in DOMAIN l, k # Len(l)
    PROVE  l[k].name # 0
<1>1. PICK N \in Nat : N = Len(l) /\ DOMAIN l = 1 .. N
  OBVIOUS
<1>2. N > 1 /\ N \in DOMAIN l /\ N - 1 \in DOMAIN l /\ k \in 1 .. N - 1
  BY <1>1
<1>3. SUFFICES ASSUME InRam(l[k]) PROVE FALSE
  BY DEF InRam
<1>4. InRam(l[N])
  BY <1>1, <1>2, <1>3 DEF RamOnTop
<1>5. InRam(l[N - 1])
  <2>1. k = N - 1 \/ k < N - 1
    BY <1>1, <1>2
  <2> QED BY <1>2, <1>3, <2>1 DEF RamOnTop
<1> QED BY <1>1, <1>2, <1>4, <1>5 DEF RamPair

(* The newest run, with nothing in it, dropped.                            *)
LEMMA DroppedIs ==
    ASSUME NEW m \in Nat, NEW D, NEW l, Held(l, <<>>, m, D), l # <<>>, l[Len(l)].post = <<>>
    PROVE  LET r == SubSeq(l, 1, Len(l) - 1) IN
           /\ Held(r, <<>>, m, D) /\ DOMAIN r = 1 .. Len(l) - 1
           /\ \A k \in DOMAIN r : r[k] = l[k]
<1>1. l \in Seq(RunOf(m)) /\ Ordered(l)
  BY DEF Held
<1>2. PICK N \in Nat : N = Len(l) /\ DOMAIN l = 1 .. N /\ N > 0
  BY <1>1
<1>3. PICK X : X = RunOf(m)
  OBVIOUS
<1>4. PICK r : r = SubSeq(l, 1, N - 1)
  OBVIOUS
<1>5. r \in Seq(X) /\ DOMAIN r = 1 .. N - 1 /\ \A k \in 1 .. N - 1 : r[k] = l[k]
  <2>1. l \in Seq(X)
    BY <1>1, <1>3
  <2>2. N - 1 \in Int /\ \A i \in 1 .. N - 1 : l[i] \in X
    BY <2>1, <1>2
  <2>3. /\ SubSeq(l, 1, N - 1) \in Seq(X)
        /\ Len(SubSeq(l, 1, N - 1)) = IF 1 <= N - 1 THEN N - 1 - 1 + 1 ELSE 0
        /\ \A i \in 1 .. N - 1 - 1 + 1 : SubSeq(l, 1, N - 1)[i] = l[1 + i - 1]
    BY <2>2, SubSeqProperties
  <2>4. Len(r) = N - 1 /\ DOMAIN r = 1 .. Len(r)
    BY <2>3, <1>2, <1>4
  <2> QED BY <2>3, <2>4, <1>2, <1>4
<1> DEFINE h == [i \in DOMAIN r |-> i]
<1>6. h \in [DOMAIN r -> DOMAIN l] /\ (\A i \in DOMAIN r : r[i] = l[h[i]]) /\ (\A i, j \in DOMAIN r : i < j => h[i] < h[j])
  BY <1>2, <1>5
<1>7. Ordered(r) /\ All(r) \subseteq All(l)
  <2> HIDE DEF h
  <2> QED BY <1>1, <1>6, FewerRuns
<1>8. ASSUME NEW i \in DOMAIN l PROVE Range(l[i].post) \subseteq All(r)
  <2>1. i \in 1 .. N - 1 \/ i = N
    BY <1>2
  <2>2. CASE i \in 1 .. N - 1
    BY <2>2, <1>5 DEF All
  <2>3. CASE i = N
    BY <2>3, <1>2 DEF Range
  <2> QED BY <2>1, <2>2, <2>3
<1>9. All(l) \ D \subseteq All(r)
  BY <1>8 DEF All
<1>10. Held(r, <<>>, m, D)
  <2>1. r \in Seq(RunOf(m))
    BY <1>3, <1>5
  <2> QED BY <2>1, <1>7, <1>9, HeldBy
<1> QED BY <1>2, <1>4, <1>5, <1>10

(* seal_all, after the flush's seal: the list it makes; if its assertion   *)
(* holds, every run is on disk.                                            *)
LEMMA AllSealedFresh ==
    ASSUME n \in Nat, runSeq \in Nat, \A r \in Disk(runs) : r.name \in 1 .. runSeq,
           NEW l0, Old(l0), NEW l1, l1 = Sealed(l0, runSeq)
    PROVE  LET l2 == AllSealed(l1) IN
           /\ Fresh(l2)
           /\ RamOnTop(l1) => \A k \in DOMAIN l2 : l2[k].name # 0
<1>1. /\ Held(l0, <<>>, n, dead) /\ Disk(l0) \subseteq Disk(runs) /\ l0 \in Seq(RunOf(n))
  BY DEF Old, Held
<1>2. /\ Held(l1, <<>>, n, dead)
      /\ DOMAIN l1 = DOMAIN l0 /\ Len(l1) = Len(l0)
      /\ \A k \in DOMAIN l0 : l1[k].post = l0[k].post /\ (k # Len(l0) => l1[k] = l0[k])
      /\ SealDue(l0) => Len(l0) \in DOMAIN l0 /\ l1[Len(l0)].name = runSeq + 1
      /\ ~SealDue(l0) => l1 = l0
  BY <1>1, SealedIs
<1>3. l1 \in Seq(RunOf(n)) /\ Ordered(l1)
  BY <1>2 DEF Held
<1>4. PICK l : l = Collapsed(l1, TRUE)
  OBVIOUS
<1>5. CASE SealDue(l0)
  <2>1. l1 # <<>> /\ ~InRam(l1[Len(l1)])
    BY <1>2, <1>3, <1>5 DEF InRam
  <2>2. ~RamPair(l1)
    BY <2>1 DEF RamPair
  <2>3. l = l1
    BY <2>2, <1>3, <1>4, CollapsedOK
  <2>4. AllSealed(l1) = l1
    BY <2>1, <2>3, <1>4 DEF AllSealed
  <2>5. Fresh(l1)
    BY SealedFresh
  <2>6. RamOnTop(l1) => \A k \in DOMAIN l1 : l1[k].name # 0
    BY <2>1, <2>2, <1>3, OneRam DEF InRam
  <2> QED BY <2>4, <2>5, <2>6
<1>6. CASE ~SealDue(l0)
  <2>1. l1 = l0
    BY <1>2, <1>6
  <2>2. /\ Old(l) /\ l \in Seq(RunOf(n)) /\ (RamOnTop(l1) => RamOnTop(l)) /\ ~RamPair(l)
    BY <2>1, <1>4, CollapsedOld
  <2>3. Held(l, <<>>, n, dead) /\ Disk(l) \subseteq Disk(runs)
    BY <2>2 DEF Old
  <2>4. ASSUME RamOnTop(l1), NEW k \in DOMAIN l, k # Len(l) PROVE l[k].name # 0
    BY <2>2, <2>4, OneRam
  <2>5. CASE l = <<>> \/ ~InRam(l[Len(l)])
    <3>1. AllSealed(l1) = l
      BY <2>5, <1>4 DEF AllSealed
    <3>2. Fresh(l)
      BY <2>2, OldIsFresh
    <3>3. ASSUME RamOnTop(l1), NEW k \in DOMAIN l PROVE l[k].name # 0
      <4>1. CASE k # Len(l)
        BY <4>1, <3>3, <2>4
      <4>2. CASE k = Len(l)
        BY <4>2, <2>2, <2>5 DEF InRam
      <4> QED BY <4>1, <4>2
    <3> QED BY <3>1, <3>2, <3>3
  <2>6. CASE l # <<>> /\ InRam(l[Len(l)]) /\ l[Len(l)].post = <<>>
    <3>1. PICK r : r = SubSeq(l, 1, Len(l) - 1)
      OBVIOUS
    <3>2. AllSealed(l1) = r
      BY <2>6, <3>1, <1>4 DEF AllSealed
    <3>3. /\ Held(r, <<>>, n, dead) /\ DOMAIN r = 1 .. Len(l) - 1
          /\ \A k \in DOMAIN r : r[k] = l[k]
      BY <2>3, <2>6, <3>1, DroppedIs
    <3>4. ASSUME NEW k \in DOMAIN r PROVE k \in DOMAIN l /\ k # Len(l) /\ r[k] = l[k]
      BY <3>3, <2>2
    <3>5. Fresh(r)
      BY <3>3, <3>4, <2>3 DEF Fresh, Disk
    <3>6. RamOnTop(l1) => \A k \in DOMAIN r : r[k].name # 0
      BY <3>4, <2>4
    <3> QED BY <3>2, <3>5, <3>6
  <2>7. CASE l # <<>> /\ InRam(l[Len(l)]) /\ l[Len(l)].post # <<>>
    <3>1. ~\E k \in DOMAIN l1 : l1[k].name = runSeq + 1
      <4>1. ASSUME NEW k \in DOMAIN l1, l1[k].name = runSeq + 1 PROVE FALSE
        <5>1. l1[k].name # 0
          BY <4>1
        <5>2. l1[k] \in Disk(runs)
          BY <2>1, <5>1, <1>1 DEF Disk
        <5>3. l1[k].name \in 1 .. runSeq
          BY <5>2
        <5> QED BY <4>1, <5>3
      <4> QED BY <4>1
    <3>2. PICK x \in Nat : x = runSeq + 1
      OBVIOUS
    <3>3. PICK r : r = [l EXCEPT ![Len(l)].name = x]
      OBVIOUS
    <3>4. AllSealed(l1) = r
      BY <2>7, <3>1, <3>2, <3>3, <1>4 DEF AllSealed
    <3>5. /\ r \in Seq(RunOf(n)) /\ Len(r) = Len(l) /\ DOMAIN r = DOMAIN l
          /\ \A k \in DOMAIN l : r[k].post = l[k].post /\ (k # Len(l) => r[k] = l[k])
          /\ r[Len(l)].name = x
      <4>1. x \in Nat
        BY <3>2
      <4> QED BY <4>1, <2>2, <2>7, <3>3, RenamedIs
    <3>6. Held(r, <<>>, n, dead)
      <4>1. Ordered(l)
        BY <2>3 DEF Held
      <4>2. Ordered(r) /\ All(r) = All(l)
        BY <3>5, <4>1, SamePosts
      <4> QED BY <4>2, <3>5, <2>3, HeldBy
    <3>7. Fresh(r)
      BY <3>2, <3>5, <3>6, <2>3 DEF Fresh, Disk
    <3>8. RamOnTop(l1) => \A k \in DOMAIN r : r[k].name # 0
      <4>1. ASSUME RamOnTop(l1), NEW k \in DOMAIN r PROVE r[k].name # 0
        <5>1. CASE k = Len(l)
          BY <5>1, <3>2, <3>5
        <5>2. CASE k # Len(l)
          BY <5>2, <4>1, <3>5, <2>4
        <5> QED BY <5>1, <5>2
      <4> QED BY <4>1
    <3> QED BY <3>4, <3>7, <3>8
  <2> QED BY <2>5, <2>6, <2>7
<1> QED BY <1>5, <1>6

-----------------------------------------------------------------------------
(* The run files.                                                          *)

(* The files with those of a new list.                                     *)
LEMMA NewFilesIs ==
    ASSUME runSeq \in Nat, NEW l, Fresh(l), NEW busy, Backed(runs, files, runSeq, busy)
    PROVE  LET f == NewFiles(l) IN
           /\ DOMAIN files \subseteq DOMAIN f /\ DOMAIN f \subseteq DOMAIN files \cup {runSeq + 1}
           /\ \A x \in DOMAIN files : x \in 0 .. runSeq => f[x] = files[x]
           /\ LastName(l) \in {runSeq, runSeq + 1}
           /\ \A k \in DOMAIN l : l[k].name # 0 =>
                 /\ l[k].name \in DOMAIN f /\ f[l[k].name] = l[k].post
                 /\ l[k].name \in 1 .. LastName(l) /\ l[k].name \notin busy \ {runSeq + 1}
<1> DEFINE new == {k \in DOMAIN l : l[k].name > runSeq}
           f == NewFiles(l)
<1>1. ASSUME NEW k \in DOMAIN l
      PROVE  \/ l[k].name = 0
             \/ l[k].name \in 1 .. runSeq /\ l[k].name \in DOMAIN files \ busy /\ files[l[k].name] = l[k].post
             \/ k = Len(l) /\ l[k].name = runSeq + 1
  BY DEF Fresh, Backed
<1>2. ASSUME NEW k \in DOMAIN l
      PROVE  l[k].name \in 0 .. runSeq + 1 /\ (k \in new <=> l[k].name = runSeq + 1) /\ (k \in new => k = Len(l))
  BY <1>1
<1>3. /\ DOMAIN f = DOMAIN files \cup {l[k].name : k \in new}
      /\ \A x \in DOMAIN f : f[x] = IF x > runSeq /\ \E k \in new : l[k].name = x
                                    THEN l[CHOOSE k \in new : l[k].name = x].post ELSE files[x]
  BY DEF NewFiles
<1> HIDE DEF f
<1>4. DOMAIN files \subseteq DOMAIN f /\ DOMAIN f \subseteq DOMAIN files \cup {runSeq + 1}
  BY <1>2, <1>3
<1>5. ASSUME NEW x \in DOMAIN files, x \in 0 .. runSeq PROVE f[x] = files[x]
  <2>1. ~(x > runSeq)
    BY <1>5
  <2> QED BY <2>1, <1>3
<1>6. ASSUME NEW k \in new PROVE k \in DOMAIN l /\ l[k].name = runSeq + 1 /\ l[k].name \in DOMAIN f /\ f[runSeq + 1] = l[k].post
  <2>1. k \in DOMAIN l /\ l[k].name = runSeq + 1 /\ k = Len(l)
    BY <1>2
  <2>2. runSeq + 1 \in DOMAIN f /\ runSeq + 1 > runSeq
    BY <2>1, <1>3
  <2>3. PICK j : j = CHOOSE i \in new : l[i].name = runSeq + 1
    OBVIOUS
  <2>4. j \in new
    <3> HIDE DEF new
    <3> QED BY <2>1, <2>3
  <2>5. j = k
    BY <2>1, <2>4, <1>2
  <2>6. f[runSeq + 1] = l[j].post
    <3> HIDE DEF new
    <3> QED BY <2>1, <2>2, <2>3, <1>3
  <2> QED BY <2>1, <2>2, <2>5, <2>6
<1> DEFINE T == {runSeq} \cup Range(Names(l))
<1>7. LastName(l) = Max(T)
  BY DEF LastName
<1>8. \A x \in T : x = runSeq \/ \E k \in DOMAIN l : x = l[k].name
  BY DEF Range, Names
<1>9. \A k \in DOMAIN l : l[k].name \in T
  BY DEF Range, Names
<1>10. runSeq \in T /\ T \subseteq Int /\ \A x \in T : x <= runSeq + 1
  <2>1. runSeq \in T
    OBVIOUS
  <2> HIDE DEF T, new
  <2>2. ASSUME NEW x \in T PROVE x \in Int /\ x <= runSeq + 1
    <3>1. CASE x = runSeq
      BY <3>1
    <3>2. CASE \E k \in DOMAIN l : x = l[k].name
      <4>1. x \in 0 .. runSeq + 1
        BY <3>2, <1>2
      <4> QED BY <4>1
    <3> QED BY <3>1, <3>2, <1>8
  <2> QED BY <2>1, <2>2
<1>11. /\ LastName(l) \in {runSeq, runSeq + 1}
       /\ \A k \in DOMAIN l : l[k].name <= LastName(l)
  <2>1. PICK m : m \in T /\ m \in {runSeq, runSeq + 1} /\ \A x \in T : x <= m
    <3>1. CASE runSeq + 1 \in T
      BY <3>1, <1>10
    <3>2. CASE runSeq + 1 \notin T
      <4>1. ASSUME NEW x \in T PROVE x <= runSeq
        <5>1. x \in Int /\ x <= runSeq + 1 /\ x # runSeq + 1
          BY <3>2, <1>10
        <5> QED BY <5>1
      <4> QED BY <4>1, <1>10
    <3> QED BY <3>1, <3>2
  <2> HIDE DEF T
  <2>2. m \in T
    BY <2>1
  <2>3. Max(T) = m
    BY <2>1, <2>2, <1>10, MaxUnique
  <2> QED BY <2>1, <2>3, <1>7, <1>9
<1>12. ASSUME NEW k \in DOMAIN l, l[k].name # 0
       PROVE  /\ l[k].name \in DOMAIN f /\ f[l[k].name] = l[k].post
              /\ l[k].name \in 1 .. LastName(l) /\ l[k].name \notin busy \ {runSeq + 1}
  <2>1. l[k].name \in 1 .. LastName(l)
    BY <1>2, <1>11, <1>12
  <2>2. CASE l[k].name = runSeq + 1
    <3>1. k \in new
      BY <2>2, <1>2
    <3> QED BY <2>1, <2>2, <3>1, <1>6
  <2>3. CASE l[k].name # runSeq + 1
    <3>1. l[k].name \in 1 .. runSeq /\ l[k].name \in DOMAIN files \ busy /\ files[l[k].name] = l[k].post
      BY <2>3, <1>1, <1>12
    <3>2. l[k].name \in 0 .. runSeq
      BY <3>1
    <3> QED BY <2>1, <3>1, <3>2, <1>4, <1>5
  <2> QED BY <2>2, <2>3
<1> QED BY <1>4, <1>5, <1>11, <1>12 DEF f

(* A checkpoint's files are where they were.                               *)
Spared(mf, fs, gs, s, busy) ==
    \A k \in DOMAIN mf.names :
        /\ mf.names[k] \in DOMAIN gs \ busy /\ gs[mf.names[k]] = fs[mf.names[k]]
        /\ mf.names[k] <= s

(* A checkpoint whose files are spared still loads, with more postings and *)
(* deaths since.                                                           *)
LEMMA LoadsKept ==
    ASSUME NEW mf, NEW fs, NEW s \in Nat, NEW busy, NEW m \in Nat, NEW D, Loads(mf, fs, s, busy, m, D),
           NEW gs, NEW s2 \in Nat, NEW busy2, NEW m2 \in Nat, NEW D2, m <= m2, D \subseteq D2,
           Spared(mf, fs, gs, s2, busy2)
    PROVE  Loads(mf, gs, s2, busy2, m2, D2)
<1>1. Loaded(mf, gs) = Loaded(mf, fs)
  BY DEF Loaded, Spared
<1>2. mf.n \in 0 .. m2 /\ mf.dead \subseteq D2 /\ mf.runSeq \in Nat
  BY DEF Loads
<1> QED BY <1>1, <1>2 DEF Loads, Spared

(* What a save leaves of the files backs its list, and spares the threads. *)
LEMMA StoredOK ==
    ASSUME RunsInv, NEW l, Fresh(l), NEW fs, NEW s \in Nat, LastName(l) <= s,
           DOMAIN fs \subseteq DOMAIN NewFiles(l), \A x \in DOMAIN fs : fs[x] = NewFiles(l)[x],
           \A k \in DOMAIN l : l[k].name \in DOMAIN NewFiles(l) => l[k].name \in DOMAIN fs,
           pending \cap DOMAIN NewFiles(l) \subseteq DOMAIN fs
    PROVE  /\ Backed(l, fs, s, BusyNames(th)) /\ Writing(th, fs, pending, s)
           /\ \E b \in Nat : DOMAIN fs \subseteq 0 .. b
           /\ runSeq <= s
<1>1. PICK busy : busy = BusyNames(th)
  OBVIOUS
<1>2. runSeq \in Nat /\ Backed(runs, files, runSeq, busy) /\ Writing(th, files, pending, runSeq)
  BY <1>1 DEF RunsInv, Shape
<1>3. PICK f : f = NewFiles(l)
  OBVIOUS
<1>4. /\ DOMAIN files \subseteq DOMAIN f /\ DOMAIN f \subseteq DOMAIN files \cup {runSeq + 1}
      /\ \A x \in DOMAIN files : x \in 0 .. runSeq => f[x] = files[x]
      /\ LastName(l) \in {runSeq, runSeq + 1}
      /\ \A k \in DOMAIN l : l[k].name # 0 =>
            /\ l[k].name \in DOMAIN f /\ f[l[k].name] = l[k].post
            /\ l[k].name \in 1 .. LastName(l) /\ l[k].name \notin busy \ {runSeq + 1}
  BY <1>2, <1>3, NewFilesIs
<1>5. runSeq <= s /\ LastName(l) \in Nat
  BY <1>2, <1>4
<1>6. busy \subseteq 1 .. runSeq
  BY <1>1, <1>2 DEF Writing, BusyNames
<1>7. Backed(l, fs, s, busy)
  <2>1. ASSUME NEW k \in DOMAIN l, l[k].name # 0
        PROVE  l[k].name \in 1 .. s /\ l[k].name \in DOMAIN fs \ busy /\ fs[l[k].name] = l[k].post
    <3>1. /\ l[k].name \in DOMAIN f /\ f[l[k].name] = l[k].post
          /\ l[k].name \in 1 .. LastName(l) /\ l[k].name \notin busy \ {runSeq + 1}
      BY <1>4, <2>1
    <3>2. runSeq + 1 \notin busy
      BY <1>2, <1>6
    <3>3. l[k].name \in 1 .. s
      BY <3>1, <1>5
    <3>4. l[k].name \in DOMAIN fs
      BY <3>1, <1>3
    <3> QED BY <3>1, <3>2, <3>3, <3>4, <1>3
  <2> QED BY <2>1 DEF Backed, Disk
<1>8. ASSUME NEW t \in Busy(th)
      PROVE  th[t].name \in DOMAIN fs /\ fs[th[t].name] = files[th[t].name] /\ th[t].name \in 1 .. s
  <2>1. th[t].name \in 1 .. runSeq /\ th[t].name \in pending /\ th[t].name \in DOMAIN files
    BY <1>2 DEF Writing
  <2>2. th[t].name \in 0 .. runSeq /\ th[t].name \in 1 .. s
    BY <2>1, <1>2, <1>5
  <2>3. th[t].name \in DOMAIN fs
    BY <2>1, <1>3, <1>4
  <2> QED BY <2>1, <2>2, <2>3, <1>3, <1>4
<1>9. pending \subseteq 1 .. s
  <2>1. pending \subseteq 1 .. runSeq
    BY <1>2 DEF Writing
  <2> QED BY <2>1, <1>2, <1>5
<1>10. Writing(th, fs, pending, s)
  BY <1>2, <1>8, <1>9 DEF Writing
<1>11. \E b \in Nat : DOMAIN fs \subseteq 0 .. b
  <2>1. PICK b \in Nat : DOMAIN files \subseteq 0 .. b
    BY DEF RunsInv, Shape
  <2>2. DOMAIN fs \subseteq 0 .. b + runSeq + 1
    <3>1. ASSUME NEW x \in DOMAIN fs PROVE x \in 0 .. b + runSeq + 1
      <4>1. x \in DOMAIN files \/ x = runSeq + 1
        BY <1>3, <1>4
      <4>2. x \in 0 .. b \/ x = runSeq + 1
        BY <4>1, <2>1
      <4> QED BY <4>2, <2>1, <1>2
    <3> QED BY <3>1
  <2>3. b + runSeq + 1 \in Nat
    BY <2>1, <1>2
  <2> QED BY <2>2, <2>3
<1> QED BY <1>1, <1>5, <1>7, <1>10, <1>11

-----------------------------------------------------------------------------
(* Steps of a thread.                                                      *)

(* Which threads write, after one has changed what it does.                *)
LEMMA BusyIs ==
    ASSUME NEW tt, DOMAIN tt = Threads, NEW t \in Threads, NEW v
    PROVE  LET uu == [tt EXCEPT ![t] = v] IN
           /\ DOMAIN uu = Threads /\ uu[t] = v /\ \A u \in Threads \ {t} : uu[u] = tt[u]
           /\ v.pc \in {"seal", "disk"} => Busy(uu) = Busy(tt) \cup {t}
           /\ v.pc \notin {"seal", "disk"} => Busy(uu) = Busy(tt) \ {t}
<1>1. PICK uu : uu = [tt EXCEPT ![t] = v]
  OBVIOUS
<1>2. DOMAIN uu = Threads /\ uu[t] = v /\ \A u \in Threads \ {t} : uu[u] = tt[u]
  BY <1>1
<1>3. v.pc \in {"seal", "disk"} => Busy(uu) = Busy(tt) \cup {t}
  BY <1>2 DEF Busy
<1>4. v.pc \notin {"seal", "disk"} => Busy(uu) = Busy(tt) \ {t}
  BY <1>2 DEF Busy
<1> QED BY <1>1, <1>2, <1>3, <1>4

(* One that writes nothing before or after.                                *)
LEMMA WritingQuiet ==
    ASSUME NEW tt, DOMAIN tt = Threads, NEW t \in Threads \ Busy(tt), NEW v, v.pc \notin {"seal", "disk"},
           NEW fs, NEW pend, NEW s, Writing(tt, fs, pend, s)
    PROVE  LET uu == [tt EXCEPT ![t] = v] IN
           Writing(uu, fs, pend, s) /\ BusyNames(uu) = BusyNames(tt)
<1>1. PICK uu : uu = [tt EXCEPT ![t] = v]
  OBVIOUS
<1>2. Busy(uu) = Busy(tt) /\ \A u \in Busy(uu) : uu[u] = tt[u]
  <2>1. Busy(uu) = Busy(tt) \ {t} /\ \A u \in Threads \ {t} : uu[u] = tt[u]
    BY <1>1, BusyIs
  <2> QED BY <2>1 DEF Busy
<1>3. Writing(uu, fs, pend, s)
  BY <1>2 DEF Writing
<1>4. BusyNames(uu) = BusyNames(tt)
  BY <1>2 DEF BusyNames
<1> QED BY <1>1, <1>3, <1>4

(* The files but x are the same.                                           *)
Beside(fs, gs, x) == \A y \in DOMAIN fs : y # x => y \in DOMAIN gs /\ gs[y] = fs[y]

(* One that ends a write.                                                  *)
LEMMA WritingStop ==
    ASSUME NEW tt, DOMAIN tt = Threads, NEW t \in Threads, t \in Busy(tt), NEW v, v.pc \notin {"seal", "disk"},
           NEW fs, NEW pend, NEW s, Writing(tt, fs, pend, s),
           NEW gs, Beside(fs, gs, tt[t].name)
    PROVE  LET uu == [tt EXCEPT ![t] = v] IN
           /\ Writing(uu, gs, pend \ {tt[t].name}, s)
           /\ BusyNames(uu) = BusyNames(tt) \ {tt[t].name}
<1>1. PICK uu : uu = [tt EXCEPT ![t] = v]
  OBVIOUS
<1>2. Busy(uu) = Busy(tt) \ {t} /\ \A u \in Busy(uu) : uu[u] = tt[u]
  <2>1. uu[t] = v /\ \A u \in Threads \ {t} : uu[u] = tt[u]
    BY <1>1
  <2>2. Busy(uu) = Busy(tt) \ {t} /\ \A u \in Threads \ {t} : uu[u] = tt[u]
    BY <2>1 DEF Busy
  <2> QED BY <2>2 DEF Busy
<1>3. \A u \in Busy(uu) : tt[u].name # tt[t].name
  BY <1>2 DEF Writing
<1>4. Writing(uu, gs, pend \ {tt[t].name}, s)
  <2>1. ASSUME NEW u \in Busy(uu)
        PROVE  /\ uu[u].name \in 1 .. s /\ uu[u].name \in pend \ {tt[t].name} /\ uu[u].name \in DOMAIN gs
               /\ uu[u].pc = "seal" => gs[uu[u].name] = uu[u].a.post
               /\ \A w \in Busy(uu) : w # u => uu[w].name # uu[u].name
    <3>1. u \in Busy(tt) /\ uu[u] = tt[u] /\ tt[u].name # tt[t].name
      BY <1>2, <1>3
    <3>2. /\ tt[u].name \in 1 .. s /\ tt[u].name \in pend /\ tt[u].name \in DOMAIN fs
          /\ tt[u].pc = "seal" => fs[tt[u].name] = tt[u].a.post
          /\ \A w \in Busy(tt) : w # u => tt[w].name # tt[u].name
      BY <3>1 DEF Writing
    <3>3. tt[u].name \in DOMAIN gs /\ gs[tt[u].name] = fs[tt[u].name]
      BY <3>1, <3>2 DEF Beside
    <3> QED BY <3>1, <3>2, <3>3, <1>2
  <2>2. pend \subseteq 1 .. s
    BY DEF Writing
  <2> QED BY <2>1, <2>2 DEF Writing
<1>5. BusyNames(uu) = BusyNames(tt) \ {tt[t].name}
  BY <1>2, <1>3 DEF BusyNames
<1> QED BY <1>1, <1>4, <1>5

(* One that begins a write, under the next name.                           *)
Begins(tt, t, v, fs, gs, pend, s) ==
    /\ DOMAIN tt = Threads /\ t \in Threads \ Busy(tt) /\ v.pc \in {"seal", "disk"} /\ v.name = s + 1
    /\ Writing(tt, fs, pend, s) /\ Beside(fs, gs, s + 1)
    /\ s + 1 \in DOMAIN gs /\ (v.pc = "seal" => gs[s + 1] = v.a.post)

(* A name of the counter is nobody else's.                                 *)
LEMMA WritingStart ==
    ASSUME NEW tt, NEW t, NEW v, NEW fs, NEW gs, NEW pend, NEW s \in Nat, Begins(tt, t, v, fs, gs, pend, s)
    PROVE  LET uu == [tt EXCEPT ![t] = v] IN
           /\ Writing(uu, gs, pend \cup {s + 1}, s + 1)
           /\ BusyNames(uu) = BusyNames(tt) \cup {s + 1}
<1> USE DEF Begins
<1>1. PICK uu : uu = [tt EXCEPT ![t] = v]
  OBVIOUS
<1>2. Busy(uu) = Busy(tt) \cup {t} /\ uu[t] = v /\ \A u \in Busy(tt) : uu[u] = tt[u] /\ u # t
  <2>1. Busy(uu) = Busy(tt) \cup {t} /\ uu[t] = v /\ \A u \in Threads \ {t} : uu[u] = tt[u]
    BY <1>1, BusyIs
  <2> QED BY <2>1 DEF Busy
<1>3. ASSUME NEW u \in Busy(tt) PROVE tt[u].name \in 1 .. s + 1 /\ tt[u].name # s + 1
  <2>1. tt[u].name \in 1 .. s
    BY DEF Writing
  <2> QED BY <2>1
<1>4. pend \cup {s + 1} \subseteq 1 .. s + 1
  <2>1. pend \subseteq 1 .. s
    BY DEF Writing
  <2> QED BY <2>1
<1>5. ASSUME NEW u \in Busy(uu)
      PROVE  /\ uu[u].name \in 1 .. s + 1 /\ uu[u].name \in pend \cup {s + 1} /\ uu[u].name \in DOMAIN gs
             /\ uu[u].pc = "seal" => gs[uu[u].name] = uu[u].a.post
             /\ \A w \in Busy(uu) : w # u => uu[w].name # uu[u].name
  <2>1. CASE u = t
    <3>1. s + 1 \in 1 .. s + 1
      OBVIOUS
    <3> QED BY <2>1, <3>1, <1>2, <1>3
  <2>2. CASE u # t
    BY <2>2, <1>2, <1>3 DEF Writing, Beside
  <2> QED BY <2>1, <2>2
<1>6. Writing(uu, gs, pend \cup {s + 1}, s + 1)
  BY <1>4, <1>5 DEF Writing
<1>7. BusyNames(uu) = BusyNames(tt) \cup {s + 1}
  BY <1>2 DEF BusyNames
<1> QED BY <1>1, <1>6, <1>7

-----------------------------------------------------------------------------
(* Every step keeps the invariant.                                         *)

(* The empty store.                                                        *)
LEMMA InitInv == Init => RunsInv
<1> SUFFICES ASSUME Init PROVE RunsInv
  OBVIOUS
<1>1. /\ n = 0 /\ dead = {} /\ delta = <<>> /\ runs = <<>> /\ runSeq = 0 /\ pending = {} /\ files = <<>>
      /\ manifest = NoManifest /\ th = [t \in Threads |-> Idle]
  BY DEF Init
<1>2. 0 \in 0 .. MaxPost
  BY RunsAssumption
<1>3. DOMAIN <<>> = {}
  OBVIOUS
<1>4. DOMAIN th = Threads /\ \A t \in Threads : th[t].pc = "idle"
  BY <1>1 DEF Idle
<1>5. Shape
  BY <1>1, <1>2, <1>3, <1>4 DEF Shape
<1>6. Held(<<>>, <<>>, 0, {})
  <2>1. <<>> \in Seq(RunOf(0)) /\ <<>> \in Seq(1 .. 0) /\ 1 .. 0 = {}
    OBVIOUS
  <2> QED BY <1>3, <2>1 DEF Held, Ordered, Rises, All, Range
<1>7. Busy(th) = {} /\ BusyNames(th) = {}
  BY <1>4 DEF Busy, BusyNames
<1>8. Backed(runs, files, runSeq, BusyNames(th))
  BY <1>1, <1>3 DEF Backed, Disk
<1>9. Writing(th, files, pending, runSeq)
  BY <1>1, <1>7 DEF Writing
<1>10. Loads(manifest, files, runSeq, BusyNames(th), n, dead)
  <2>1. manifest.names = <<>> /\ manifest.n = 0 /\ manifest.dead = {} /\ manifest.runSeq = 0
    BY <1>1 DEF NoManifest
  <2>2. Loaded(manifest, files) = <<>>
    BY <2>1, <1>3 DEF Loaded
  <2> QED BY <2>1, <2>2, <1>1, <1>3, <1>6 DEF Loads
<1> QED BY <1>1, <1>5, <1>6, <1>8, <1>9, <1>10 DEF RunsInv

(* A new posting is the greatest, and the last of the delta.               *)
LEMMA AddStep ==
    ASSUME RunsInv, Add
    PROVE  RunsInv'
<1>1. /\ n \in Nat /\ n < MaxPost /\ n' = n + 1 /\ delta' = Append(delta, n + 1)
      /\ UNCHANGED <<dead, runs, runSeq, pending, files, manifest, th>>
  BY DEF Add, RunsInv, Shape
<1>2. Shape'
  <2>1. n' \in 0 .. MaxPost /\ dead' \subseteq 1 .. n'
    BY <1>1, RunsAssumption DEF RunsInv, Shape
  <2> QED BY <1>1, <2>1 DEF RunsInv, Shape
<1>3. Held(runs, Append(delta, n + 1), n + 1, dead)
  <2>1. PICK m \in Nat : m = n + 1 /\ n <= m /\ m \in 1 .. m
    BY <1>1
  <2>2. runs \in Seq(RunOf(n)) /\ Ordered(runs) /\ delta \in Seq(1 .. n) /\ Rises(delta)
    BY DEF RunsInv, Held
  <2>3. runs \in Seq(RunOf(m)) /\ delta \in Seq(1 .. m)
    <3>1. m \in Nat /\ n \in Nat /\ n <= m
      BY <1>1, <2>1
    <3> QED BY <3>1, <2>2, Wider
  <2>4. PICK X : X = 1 .. m
    OBVIOUS
  <2>5. PICK d : d = Append(delta, m)
    OBVIOUS
  <2>6. /\ d \in Seq(X) /\ Len(d) = Len(delta) + 1 /\ d[Len(delta) + 1] = m
        /\ DOMAIN d = 1 .. Len(delta) + 1 /\ DOMAIN delta = 1 .. Len(delta)
        /\ \A i \in 1 .. Len(delta) : d[i] = delta[i]
        /\ Range(d) = Range(delta) \cup {m}
    <3>1. delta \in Seq(X) /\ m \in X
      BY <2>1, <2>3, <2>4
    <3> QED BY <3>1, <2>5, AppendIs
  <2>7. Len(delta) \in Nat /\ \A i \in 1 .. Len(delta) : delta[i] \in 1 .. n
    <3>1. PICK Y : Y = 1 .. n
      OBVIOUS
    <3>2. delta \in Seq(Y)
      BY <2>2, <3>1
    <3>3. Len(delta) \in Nat /\ \A i \in 1 .. Len(delta) : delta[i] \in Y
      BY <3>2
    <3> QED BY <3>1, <3>3
  <2>8. Rises(d)
    <3>1. ASSUME NEW x \in DOMAIN d, NEW y \in DOMAIN d, x < y PROVE d[x] < d[y]
      <4>1. x \in 1 .. Len(delta) /\ (y \in 1 .. Len(delta) \/ y = Len(delta) + 1)
        BY <2>6, <2>7, <3>1
      <4>2. CASE y \in 1 .. Len(delta)
        BY <4>1, <4>2, <3>1, <2>2, <2>6 DEF Rises
      <4>3. CASE y = Len(delta) + 1
        <5>1. d[x] \in 1 .. n /\ d[y] = m
          BY <4>1, <4>3, <2>6, <2>7
        <5> QED BY <5>1, <2>1, <1>1
      <4> QED BY <4>1, <4>2, <4>3
    <3> QED BY <3>1 DEF Rises
  <2>9. All(runs) \subseteq 1 .. n
    <3>1. ASSUME NEW k \in DOMAIN runs PROVE Range(runs[k].post) \subseteq 1 .. n
      <4>1. runs[k] \in RunOf(n)
        BY <2>2
      <4>2. PICK p \in Seq(1 .. n) : p = runs[k].post
        BY <4>1 DEF RunOf
      <4> QED BY <4>2, RangeIn
    <3> QED BY <3>1 DEF All
  <2>10. ASSUME NEW v \in All(runs), NEW w \in Range(d) PROVE v < w
    <3>1. CASE w \in Range(delta)
      BY <3>1 DEF RunsInv, Held
    <3>2. CASE w = m
      BY <3>2, <2>1, <2>9, <1>1
    <3> QED BY <3>1, <3>2, <2>6
  <2>11. (1 .. m) \ dead \subseteq All(runs) \cup Range(d)
    <3>1. ASSUME NEW x \in (1 .. m) \ dead PROVE x \in All(runs) \cup Range(d)
      <4>1. x = m \/ x \in (1 .. n) \ dead
        BY <2>1, <1>1
      <4>2. (1 .. n) \ dead \subseteq All(runs) \cup Range(delta)
        BY DEF RunsInv, Held
      <4> QED BY <4>1, <4>2, <2>6
    <3> QED BY <3>1
  <2>12. Held(runs, d, m, dead)
    BY <2>2, <2>3, <2>4, <2>6, <2>8, <2>10, <2>11 DEF Held
  <2> QED BY <2>1, <2>5, <2>12
<1>4. Loads(manifest, files, runSeq, BusyNames(th), n + 1, dead)
  <2>1. Loads(manifest, files, runSeq, BusyNames(th), n, dead)
    BY DEF RunsInv
  <2>2. manifest.n \in 0 .. n + 1
    BY <1>1, <2>1 DEF Loads
  <2> QED BY <2>1, <2>2 DEF Loads
<1>5. Backed(runs, files, runSeq, BusyNames(th)) /\ Writing(th, files, pending, runSeq)
  BY DEF RunsInv
<1> QED BY <1>1, <1>2, <1>3, <1>4, <1>5 DEF RunsInv

(* A death asks less of the list.                                          *)
LEMMA DieStep ==
    ASSUME RunsInv, NEW p \in 1 .. n, Die(p)
    PROVE  RunsInv'
<1>1. dead' = dead \cup {p} /\ UNCHANGED <<n, delta, runs, runSeq, pending, files, manifest, th>>
  BY DEF Die, list
<1>2. Shape'
  BY <1>1 DEF RunsInv, Shape
<1>3. Held(runs, delta, n, dead')
  BY <1>1 DEF RunsInv, Held
<1>4. Loads(manifest, files, runSeq, BusyNames(th), n, dead')
  BY <1>1 DEF RunsInv, Loads
<1>5. Backed(runs, files, runSeq, BusyNames(th)) /\ Writing(th, files, pending, runSeq)
  BY DEF RunsInv
<1> QED BY <1>1, <1>2, <1>3, <1>4, <1>5 DEF RunsInv

(* A thread's step that writes nothing: what it may do to the list.        *)
Quietly(t, v) ==
    /\ th[t].pc \notin {"seal", "disk"} /\ v.pc \in {"idle", "cascade", "merge"}
    /\ th' = [th EXCEPT ![t] = v]
    /\ Held(runs', delta', n, dead) /\ Disk(runs') \subseteq Disk(runs)
    /\ UNCHANGED <<n, dead, runSeq, pending, files, manifest>>

(* Such a step keeps the invariant.                                        *)
LEMMA QuietStep ==
    ASSUME RunsInv, NEW t \in Threads, NEW v, Quietly(t, v)
    PROVE  RunsInv'
<1> USE DEF Quietly
<1>1. DOMAIN th = Threads
  BY DEF RunsInv, Shape
<1>2. Writing(th', files, pending, runSeq) /\ BusyNames(th') = BusyNames(th)
  <2>1. t \in Threads \ Busy(th) /\ v.pc \notin {"seal", "disk"}
    BY DEF Busy
  <2>2. Writing(th, files, pending, runSeq)
    BY DEF RunsInv
  <2> QED BY <1>1, <2>1, <2>2, WritingQuiet
<1>3. Shape'
  BY <1>1 DEF RunsInv, Shape
<1>4. Backed(runs', files, runSeq, BusyNames(th))
  BY DEF RunsInv, Backed
<1>5. Loads(manifest, files, runSeq, BusyNames(th), n, dead)
  BY DEF RunsInv
<1> QED BY <1>2, <1>3, <1>4, <1>5 DEF RunsInv

(* flush: the delta is the newest run.                                     *)
LEMMA FlushStep ==
    ASSUME RunsInv, NEW t \in Flushers, Flush(t)
    PROVE  RunsInv'
<1>1. /\ th[t] = Idle /\ runs' = Taken /\ delta' = <<>> /\ th' = [th EXCEPT ![t] = [pc |-> "cascade"]]
      /\ UNCHANGED <<n, dead, runSeq, pending, files, manifest>>
  BY DEF Flush
<1>2. Held(Taken, <<>>, n, dead) /\ Disk(Taken) \subseteq Disk(runs)
  <2>1. n \in Nat /\ Held(runs, delta, n, dead)
    BY DEF RunsInv, Shape
  <2> QED BY <2>1, TakenOK
<1>3. t \in Threads /\ th[t].pc \notin {"seal", "disk"}
  BY <1>1 DEF Threads, Idle
<1>4. PICK v : v = [pc |-> "cascade"]
  OBVIOUS
<1>4a. v.pc \in {"idle", "cascade", "merge"}
  BY <1>4 DEF Idle
<1>5. Quietly(t, v)
  BY <1>1, <1>4a, <1>2, <1>3, <1>4 DEF Quietly
<1> QED BY <1>3, <1>5, QuietStep

(* compact_ram picks; the list is as it was.                               *)
LEMMA RamPickStep ==
    ASSUME RunsInv, NEW t \in Flushers, RamPick(t)
    PROVE  RunsInv'
<1>1. PICK v : v = [pc |-> "merge", dead |-> dead, a |-> runs[Len(runs) - 1], b |-> runs[Len(runs)]]
  OBVIOUS
<1>1a. v.pc \in {"idle", "cascade", "merge"}
  BY <1>1
<1>2. /\ th[t].pc = "cascade" /\ th' = [th EXCEPT ![t] = v]
      /\ UNCHANGED <<n, dead, delta, runs, runSeq, pending, files, manifest>>
  BY <1>1 DEF RamPick, list
<1>3. t \in Threads /\ th[t].pc \notin {"seal", "disk"}
  BY <1>2 DEF Threads
<1>4. Held(runs', delta', n, dead) /\ Disk(runs') \subseteq Disk(runs)
  BY <1>2 DEF RunsInv
<1>5. Quietly(t, v)
  BY <1>1, <1>1a, <1>2, <1>3, <1>4 DEF Quietly
<1> QED BY <1>3, <1>5, QuietStep

(* compact_ram returns.                                                    *)
LEMMA RamDoneStep ==
    ASSUME RunsInv, NEW t \in Flushers, RamDone(t)
    PROVE  RunsInv'
<1>1. PICK v : v = Idle
  OBVIOUS
<1>1a. v.pc \in {"idle", "cascade", "merge"}
  BY <1>1 DEF Idle
<1>2. /\ th[t].pc = "cascade" /\ th' = [th EXCEPT ![t] = v]
      /\ UNCHANGED <<n, dead, delta, runs, runSeq, pending, files, manifest>>
  BY <1>1 DEF RamDone, list
<1>3. t \in Threads /\ th[t].pc \notin {"seal", "disk"}
  BY <1>2 DEF Threads
<1>4. Held(runs', delta', n, dead) /\ Disk(runs') \subseteq Disk(runs)
  BY <1>2 DEF RunsInv
<1>5. Quietly(t, v)
  BY <1>1, <1>1a, <1>2, <1>3, <1>4 DEF Quietly
<1> QED BY <1>3, <1>5, QuietStep

(* The swap of two merged RAM runs: they are still neighbours, whatever    *)
(* the list has become meanwhile, or nothing happens.                      *)
LEMMA RamSwapStep ==
    ASSUME RunsInv, NEW t \in Flushers, RamSwap(t)
    PROVE  RunsInv'
<1>1. /\ th[t].pc = "merge" /\ UNCHANGED <<n, dead, delta, runSeq, pending, files, manifest>>
  BY DEF RamSwap
<1>2. t \in Threads /\ th[t].pc \notin {"seal", "disk"}
  BY <1>1 DEF Threads
<1>3. n \in Nat /\ Held(runs, delta, n, dead) /\ runs \in Seq(RunOf(n))
  BY DEF RunsInv, Shape, Held
<1>4. PICK a, b, k : a = th[t].a /\ b = th[t].b /\ k = PlaceOf(a, b)
  OBVIOUS
<1>5. CASE k = 0
  <2>1. PICK v : v = Idle
    OBVIOUS
  <2>1a. v.pc \in {"idle", "cascade", "merge"}
    BY <2>1 DEF Idle
  <2>2. runs' = runs /\ th' = [th EXCEPT ![t] = v]
    BY <1>4, <1>5, <2>1 DEF RamSwap
  <2>3. Held(runs', delta', n, dead) /\ Disk(runs') \subseteq Disk(runs)
    BY <1>1, <1>3, <2>2
  <2>4. Quietly(t, v)
    BY <1>1, <1>2, <2>1, <2>1a, <2>2, <2>3 DEF Quietly
  <2> QED BY <1>2, <2>4, QuietStep
<1>6. CASE k # 0
  <2>1. PICK v : v = [pc |-> "cascade"]
    OBVIOUS
  <2>1a. v.pc \in {"idle", "cascade", "merge"}
    BY <2>1 DEF Idle
  <2>2. th' = [th EXCEPT ![t] = v]
    BY <1>4, <1>6, <2>1 DEF RamSwap
  <2>3. PICK D \in SUBSET dead : runs' = Replaced(k, <<Run(0, Merged(a, b, D))>>)
    BY <1>4, <1>6 DEF RamSwap, Filters
  <2>4. k \in 1 .. Len(runs) - 1 /\ runs[k] = a /\ runs[k + 1] = b
    BY <1>3, <1>4, <1>6, PlaceOfIs
  <2>5. PICK z : z = Run(0, Merged(runs[k], runs[k + 1], D))
    OBVIOUS
  <2>5a. z.name = 0
    BY <2>5 DEF Run
  <2>6. Held(runs', delta, n, dead) /\ Disk(runs') \subseteq Disk(runs) \cup {z}
    <3>1. runs' = Replaced(k, <<z>>)
      BY <2>3, <2>4, <2>5
    <3>2. D \in SUBSET dead /\ 0 \in Nat
      BY <2>3
    <3> QED BY <1>3, <2>4, <2>5, <3>1, <3>2, ReplacedOne
  <2>7. Disk(runs') \subseteq Disk(runs)
    BY <2>5a, <2>6 DEF Disk
  <2>8. Quietly(t, v)
    BY <1>1, <1>2, <2>1a, <2>2, <2>6, <2>7 DEF Quietly
  <2> QED BY <1>2, <2>8, QuietStep
<1> QED BY <1>5, <1>6

(* A thread begins to write a run file.                                    *)
Starts(t, v, post) ==
    /\ th[t].pc \notin {"seal", "disk"} /\ v.pc \in {"seal", "disk"} /\ v.name = runSeq + 1
    /\ (v.pc = "seal" => v.a.post = post)
    /\ th' = [th EXCEPT ![t] = v]
    /\ runSeq' = runSeq + 1 /\ pending' = pending \cup {runSeq + 1} /\ files' = Wrote(runSeq + 1, post)
    /\ UNCHANGED <<n, dead, delta, runs, manifest>>

(* The new name is no disk run's, no other thread's, and not one of the    *)
(* checkpoint.                                                             *)
LEMMA StartStep ==
    ASSUME RunsInv, NEW t \in Threads, NEW v, NEW post, Starts(t, v, post)
    PROVE  RunsInv'
<1> USE DEF Starts
<1>1. /\ DOMAIN th = Threads /\ runSeq \in Nat /\ n \in Nat
      /\ \A u \in Threads : th[u].pc \in {"idle", "cascade", "merge", "seal", "disk"}
  BY DEF RunsInv, Shape
<1>2. PICK s \in Nat : s = runSeq + 1 /\ runSeq < s
  BY <1>1
<1>3. DOMAIN files' = DOMAIN files \cup {s} /\ files'[s] = post /\ \A y \in DOMAIN files : y # s => files'[y] = files[y]
  BY <1>2 DEF Wrote
<1>4. Writing(th', files', pending', s) /\ BusyNames(th') = BusyNames(th) \cup {s}
  <2>1. t \in Threads \ Busy(th)
    BY DEF Busy
  <2>2. Writing(th, files, pending, runSeq)
    BY DEF RunsInv
  <2>3. PICK gs : gs = files'
    OBVIOUS
  <2>4. /\ Beside(files, gs, runSeq + 1) /\ runSeq + 1 \in DOMAIN gs /\ (v.pc = "seal" => gs[runSeq + 1] = v.a.post)
    BY <1>2, <1>3, <2>3 DEF Beside
  <2>5. /\ v.pc \in {"seal", "disk"} /\ v.name = runSeq + 1
    OBVIOUS
  <2>6. PICK q \in Nat : q = runSeq
    BY <1>1
  <2>7. LET uu == [th EXCEPT ![t] = v] IN
        /\ Writing(uu, gs, pending \cup {q + 1}, q + 1)
        /\ BusyNames(uu) = BusyNames(th) \cup {q + 1}
    <3>1. q \in Nat /\ Begins(th, t, v, files, gs, pending, q)
      BY <1>1, <2>1, <2>2, <2>4, <2>5, <2>6 DEF Begins
    <3> QED BY <3>1, WritingStart
  <2> QED BY <1>2, <2>3, <2>6, <2>7
<1>5. Shape'
  <2>1. \E b \in Nat : DOMAIN files' \subseteq 0 .. b
    <3>1. PICK b \in Nat : DOMAIN files \subseteq 0 .. b
      BY DEF RunsInv, Shape
    <3>2. ASSUME NEW x \in DOMAIN files' PROVE x \in 0 .. b + s
      <4>1. x \in 0 .. b \/ x = s
        BY <1>3, <3>1
      <4> QED BY <4>1, <3>1, <1>2
    <3>3. b + s \in Nat
      BY <3>1, <1>2
    <3> QED BY <3>2, <3>3
  <2>2. DOMAIN th' = Threads /\ \A u \in Threads : th'[u].pc \in {"idle", "cascade", "merge", "seal", "disk"}
    BY <1>1
  <2> QED BY <1>2, <2>1, <2>2 DEF RunsInv, Shape
<1>6. Backed(runs, files', s, BusyNames(th'))
  <2>1. ASSUME NEW r \in Disk(runs)
        PROVE  r.name \in 1 .. s /\ r.name \in DOMAIN files' \ BusyNames(th') /\ files'[r.name] = r.post
    <3>1. r.name \in 1 .. runSeq /\ r.name \in DOMAIN files \ BusyNames(th) /\ files[r.name] = r.post
      BY DEF RunsInv, Backed
    <3>2. r.name # s /\ r.name \in 1 .. s
      BY <1>1, <1>2, <3>1
    <3> QED BY <3>1, <3>2, <1>3, <1>4
  <2> QED BY <2>1 DEF Backed
<1>7. Loads(manifest, files', s, BusyNames(th'), n, dead)
  <2>1. Loads(manifest, files, runSeq, BusyNames(th), n, dead)
    BY DEF RunsInv
  <2>2. ASSUME NEW k \in DOMAIN manifest.names
        PROVE  /\ manifest.names[k] \in DOMAIN files' \ BusyNames(th')
               /\ files'[manifest.names[k]] = files[manifest.names[k]]
               /\ manifest.names[k] <= s
    <3>1. manifest.names[k] \in 1 .. manifest.runSeq /\ manifest.runSeq \in Nat /\ manifest.names[k] <= runSeq /\ manifest.names[k] \in DOMAIN files \ BusyNames(th)
      BY <2>1 DEF Loads
    <3>2. manifest.names[k] # s /\ manifest.names[k] <= s
      BY <3>1, <1>1, <1>2
    <3> QED BY <3>1, <3>2, <1>3, <1>4
  <2>3. PICK gs, bs : gs = files' /\ bs = BusyNames(th')
    OBVIOUS
  <2>4. runSeq \in Nat /\ s \in Nat /\ n \in Nat /\ n <= n /\ dead \subseteq dead
    BY <1>1, <1>2
  <2>5. Spared(manifest, files, gs, s, bs)
    BY <2>2, <2>3 DEF Spared
  <2>6. Loads(manifest, gs, s, bs, n, dead)
    BY <2>1, <2>4, <2>5, LoadsKept
  <2> QED BY <2>3, <2>6
<1>8. Held(runs, delta, n, dead)
  BY DEF RunsInv
<1> QED BY <1>2, <1>4, <1>5, <1>6, <1>7, <1>8 DEF RunsInv

(* A thread ends its write: the file is the run of its name, or is gone.   *)
Stops(t) ==
    /\ th[t].pc \in {"seal", "disk"} /\ th' = [th EXCEPT ![t] = Idle]
    /\ pending' = pending \ {th[t].name} /\ DOMAIN files' \subseteq DOMAIN files
    /\ \A x \in DOMAIN files : x # th[t].name => x \in DOMAIN files' /\ files'[x] = files[x]
    /\ Held(runs', delta, n, dead)
    /\ \A r \in Disk(runs') :
          \/ r \in Disk(runs)
          \/ r.name = th[t].name /\ th[t].name \in DOMAIN files' /\ files'[th[t].name] = r.post
    /\ UNCHANGED <<n, dead, delta, runSeq, manifest>>

(* The name the thread gives up was its own, so every other file is        *)
(* untouched.                                                              *)
LEMMA StopStep ==
    ASSUME RunsInv, NEW t \in Threads, Stops(t)
    PROVE  RunsInv'
<1> USE DEF Stops
<1>1. /\ DOMAIN th = Threads /\ runSeq \in Nat /\ n \in Nat
      /\ \A u \in Threads : th[u].pc \in {"idle", "cascade", "merge", "seal", "disk"}
  BY DEF RunsInv, Shape
<1>2. PICK x : x = th[t].name
  OBVIOUS
<1>3. t \in Busy(th)
  BY DEF Busy
<1>4. x \in 1 .. runSeq /\ x \in BusyNames(th)
  BY <1>2, <1>3 DEF RunsInv, Writing, BusyNames
<1>5. Writing(th', files', pending', runSeq) /\ BusyNames(th') = BusyNames(th) \ {x}
  <2>1. PICK v : v = Idle
    OBVIOUS
  <2>2. v.pc \notin {"seal", "disk"}
    BY <2>1 DEF Idle
  <2>3. Writing(th, files, pending, runSeq)
    BY DEF RunsInv
  <2>4. PICK gs : gs = files'
    OBVIOUS
  <2>5. Beside(files, gs, th[t].name)
    BY <2>4 DEF Beside
  <2>6. LET uu == [th EXCEPT ![t] = v] IN
        /\ Writing(uu, gs, pending \ {th[t].name}, runSeq)
        /\ BusyNames(uu) = BusyNames(th) \ {th[t].name}
    BY <1>1, <1>3, <2>2, <2>3, <2>5, WritingStop
  <2> QED BY <1>2, <2>1, <2>4, <2>6
<1>6. Shape'
  <2>1. \E b \in Nat : DOMAIN files' \subseteq 0 .. b
    BY DEF RunsInv, Shape
  <2>2. DOMAIN th' = Threads /\ \A u \in Threads : th'[u].pc \in {"idle", "cascade", "merge", "seal", "disk"}
    BY <1>1 DEF Idle
  <2> QED BY <2>1, <2>2 DEF RunsInv, Shape
<1>7. Backed(runs', files', runSeq, BusyNames(th'))
  <2>1. ASSUME NEW r \in Disk(runs')
        PROVE  r.name \in 1 .. runSeq /\ r.name \in DOMAIN files' \ BusyNames(th') /\ files'[r.name] = r.post
    <3>1. CASE r \in Disk(runs)
      <4>1. r.name \in 1 .. runSeq /\ r.name \in DOMAIN files \ BusyNames(th) /\ files[r.name] = r.post
        BY <3>1 DEF RunsInv, Backed
      <4>2. r.name # x
        BY <4>1, <1>4
      <4> QED BY <4>1, <4>2, <1>2, <1>5
    <3>2. CASE r.name = x /\ x \in DOMAIN files' /\ files'[x] = r.post
      BY <3>2, <1>4, <1>5
    <3> QED BY <2>1, <3>1, <3>2, <1>2
  <2> QED BY <2>1 DEF Backed
<1>8. Loads(manifest, files', runSeq, BusyNames(th'), n, dead)
  <2>1. Loads(manifest, files, runSeq, BusyNames(th), n, dead)
    BY DEF RunsInv
  <2>2. ASSUME NEW k \in DOMAIN manifest.names
        PROVE  /\ manifest.names[k] \in DOMAIN files' \ BusyNames(th')
               /\ files'[manifest.names[k]] = files[manifest.names[k]]
               /\ manifest.names[k] <= runSeq
    <3>1. manifest.names[k] <= runSeq /\ manifest.names[k] \in DOMAIN files \ BusyNames(th)
      BY <2>1 DEF Loads
    <3>2. manifest.names[k] # x
      BY <3>1, <1>4
    <3> QED BY <3>1, <3>2, <1>2, <1>5
  <2>3. PICK gs, bs : gs = files' /\ bs = BusyNames(th')
    OBVIOUS
  <2>4. runSeq \in Nat /\ n \in Nat /\ n <= n /\ dead \subseteq dead
    BY <1>1
  <2>5. Spared(manifest, files, gs, runSeq, bs)
    BY <2>2, <2>3 DEF Spared
  <2>6. Loads(manifest, gs, runSeq, bs, n, dead)
    BY <2>1, <2>4, <2>5, LoadsKept
  <2> QED BY <2>3, <2>6
<1> QED BY <1>5, <1>6, <1>7, <1>8 DEF RunsInv

(* A seal begins.                                                          *)
LEMMA SealPickStep ==
    ASSUME RunsInv, NEW t \in Flushers, SealPick(t)
    PROVE  RunsInv'
<1>1. PICK post, v : post = runs[Len(runs)].post /\ v = [pc |-> "seal", name |-> runSeq + 1, a |-> runs[Len(runs)]]
  OBVIOUS
<1>2. v.pc = "seal" /\ v.name = runSeq + 1 /\ v.a.post = post
  BY <1>1
<1>3. t \in Threads /\ Starts(t, v, post)
  BY <1>1, <1>2 DEF SealPick, Starts, list, Threads
<1> QED BY <1>3, StartStep

(* A seal ends: the run keeps its place and its postings.                  *)
LEMMA SealSwapStep ==
    ASSUME RunsInv, NEW t \in Flushers, SealSwap(t)
    PROVE  RunsInv'
<1>1. PICK x, a, p : x = th[t].name /\ a = th[t].a /\ p = a.post
  OBVIOUS
<1>2. /\ th[t].pc = "seal" /\ pending' = pending \ {x} /\ th' = [th EXCEPT ![t] = Idle]
      /\ UNCHANGED <<n, dead, delta, runSeq, files, manifest>>
      /\ runs' = [k \in DOMAIN runs |->
                    IF runs[k] = a /\ \A j \in 1 .. k - 1 : runs[j] # runs[k]
                    THEN Run(x, p) ELSE runs[k]]
  BY <1>1 DEF SealSwap
<1>3. t \in Threads /\ t \in Busy(th)
  BY <1>2 DEF Threads, Busy
<1>4. x \in 1 .. runSeq /\ x \in DOMAIN files /\ files[x] = p
  BY <1>1, <1>2, <1>3 DEF RunsInv, Writing
<1>5. Held(runs, delta, n, dead) /\ runs \in Seq(RunOf(n)) /\ Ordered(runs) /\ runSeq \in Nat
  BY DEF RunsInv, Shape, Held
<1>6. PICK r : r = runs'
  OBVIOUS
<1>7. PICK N \in Nat : N = Len(runs) /\ DOMAIN runs = 1 .. N
  BY <1>5
<1>8. /\ DOMAIN r = 1 .. N
      /\ \A k \in 1 .. N : r[k] = runs[k] \/ (runs[k] = a /\ r[k] = Run(x, p))
  BY <1>2, <1>6, <1>7
<1>9. \A k \in 1 .. N : r[k].post = runs[k].post
  BY <1>1, <1>8 DEF Run
<1>10. Held(r, delta, n, dead)
  <2>1. Ordered(r) /\ All(r) = All(runs)
    BY <1>5, <1>7, <1>8, <1>9, SamePosts
  <2>2. ASSUME NEW k \in 1 .. N PROVE r[k] \in RunOf(n)
    <3>1. runs[k] \in RunOf(n)
      BY <1>5, <1>7
    <3>2. x \in Nat
      BY <1>4, <1>5
    <3>3. runs[k] = a => Run(x, p) \in RunOf(n)
      BY <3>1, <3>2, <1>1 DEF RunOf, Run
    <3> QED BY <3>1, <3>3, <1>8
  <2>3. r = [k \in 1 .. N |-> r[k]]
    BY <1>2, <1>6, <1>7
  <2>4. N \in Nat /\ r \in [1 .. N -> RunOf(n)]
    BY <1>7, <2>2, <2>3
  <2>5. r \in Seq(RunOf(n))
    BY <2>4, FcnSeq
  <2> QED BY <2>1, <2>5, <1>5, HeldBy
<1>11. \A q \in Disk(r) : q \in Disk(runs) \/ (q.name = x /\ q.post = p)
  <2>1. Run(x, p).name = x /\ Run(x, p).post = p
    BY DEF Run
  <2> QED BY <2>1, <1>7, <1>8 DEF Disk
<1>12. Stops(t)
  BY <1>1, <1>2, <1>4, <1>6, <1>10, <1>11 DEF Stops
<1> QED BY <1>3, <1>12, StopStep

(* A write that fails.                                                     *)
LEMMA FailStep ==
    ASSUME RunsInv, NEW t \in Threads, th[t].pc \in {"seal", "disk"}, pending' = pending \ {th[t].name},
           files' = Restrict(files, DOMAIN files \ {th[t].name}), th' = [th EXCEPT ![t] = Idle],
           UNCHANGED <<n, dead, delta, runs, runSeq, manifest>>
    PROVE  RunsInv'
<1>1. DOMAIN files' = DOMAIN files \ {th[t].name} /\ \A x \in DOMAIN files' : files'[x] = files[x]
  BY DEF Restrict
<1>2. Held(runs', delta, n, dead)
  BY DEF RunsInv
<1>3. Stops(t)
  BY <1>1, <1>2 DEF Stops
<1> QED BY <1>3, StopStep

(* A seal's write fails.                                                   *)
LEMMA SealFailsStep ==
    ASSUME RunsInv, NEW t \in Flushers, SealFails(t)
    PROVE  RunsInv'
<1>1. /\ th[t].pc \in {"seal", "disk"} /\ pending' = pending \ {th[t].name}
      /\ files' = Restrict(files, DOMAIN files \ {th[t].name}) /\ th' = [th EXCEPT ![t] = Idle]
      /\ UNCHANGED <<n, dead, delta, runs, runSeq, manifest>>
  BY DEF SealFails, list
<1>2. t \in Threads
  BY DEF Threads
<1> QED BY <1>1, <1>2, FailStep

(* The background merge begins.                                            *)
LEMMA DiskMergeStartStep ==
    ASSUME RunsInv, DiskMergeStart
    PROVE  RunsInv'
<1>1. PICK t : t = "merger"
  OBVIOUS
<1>2. PICK v : v = [pc |-> "disk", name |-> runSeq + 1, dead |-> dead, a |-> runs[DiskPick], b |-> runs[DiskPick + 1]]
  OBVIOUS
<1>3. v.pc = "disk" /\ v.name = runSeq + 1
  BY <1>2
<1>4. /\ th[t] = Idle /\ th' = [th EXCEPT ![t] = v]
      /\ runSeq' = runSeq + 1 /\ pending' = pending \cup {runSeq + 1} /\ files' = Wrote(runSeq + 1, <<>>)
      /\ UNCHANGED <<n, dead, delta, runs, manifest>>
  BY <1>1, <1>2 DEF DiskMergeStart, list
<1>5. th[t].pc = "idle"
  BY <1>4 DEF Idle
<1>6. t \in Threads /\ Starts(t, v, <<>>)
  BY <1>1, <1>3, <1>4, <1>5 DEF Starts, Threads
<1> QED BY <1>6, StartStep

(* The merged disk run takes the place of its inputs, if they are still    *)
(* neighbours; if nothing is left of them, they go.                        *)
LEMMA DiskMergeSwapStep ==
    ASSUME RunsInv, DiskMergeSwap
    PROVE  RunsInv'
<1>1. PICK t, x, a, b, k : /\ t = "merger" /\ x = th[t].name /\ a = th[t].a /\ b = th[t].b
                           /\ k = PlaceOf(a, b)
  OBVIOUS
<1>2. /\ th[t].pc = "disk" /\ pending' = pending \ {x} /\ th' = [th EXCEPT ![t] = Idle]
      /\ UNCHANGED <<n, dead, delta, runSeq, manifest>>
  BY <1>1 DEF DiskMergeSwap
<1>3. t \in Threads /\ t \in Busy(th)
  BY <1>1, <1>2 DEF Threads, Busy
<1>4. x \in 1 .. runSeq /\ x \in DOMAIN files /\ x \in Nat
  BY <1>1, <1>3 DEF RunsInv, Shape, Writing
<1>5. PICK D \in SUBSET dead : \E post :
        /\ post = Merged(a, b, D) /\ files' = Wrote(x, post)
        /\ runs' = IF k = 0 THEN runs ELSE Replaced(k, IF post = <<>> THEN <<>> ELSE <<Run(x, post)>>)
  BY <1>1, <1>4 DEF DiskMergeSwap, Filters
<1>6. PICK post :
        /\ post = Merged(a, b, D) /\ files' = Wrote(x, post)
        /\ runs' = IF k = 0 THEN runs ELSE Replaced(k, IF post = <<>> THEN <<>> ELSE <<Run(x, post)>>)
  BY <1>5
<1>7. DOMAIN files' = DOMAIN files /\ files'[x] = post /\ Beside(files, files', x)
  BY <1>4, <1>6 DEF Wrote, Beside
<1>8. n \in Nat /\ Held(runs, delta, n, dead) /\ runs \in Seq(RunOf(n))
  BY DEF RunsInv, Shape, Held
<1>9. /\ Held(runs', delta, n, dead)
      /\ \A q \in Disk(runs') : q \in Disk(runs) \/ (q.name = x /\ q.post = post)
  <2>1. CASE k = 0
    BY <2>1, <1>6, <1>8
  <2>2. CASE k # 0
    <3>1. k \in 1 .. Len(runs) - 1 /\ runs[k] = a /\ runs[k + 1] = b
      BY <2>2, <1>1, <1>8, PlaceOfIs
    <3>2. D \in SUBSET dead /\ x \in Nat
      BY <1>4, <1>5
    <3>3. CASE post = <<>>
      <4>1. Held(Replaced(k, <<>>), delta, n, dead) /\ Disk(Replaced(k, <<>>)) \subseteq Disk(runs)
        BY <3>1, <3>2, <3>3, <1>6, <1>8, ReplacedNone
      <4> QED BY <4>1, <2>2, <3>3, <1>6
    <3>4. CASE post # <<>>
      <4>1. PICK z : z = Run(x, Merged(runs[k], runs[k + 1], D))
        OBVIOUS
      <4>2. Held(Replaced(k, <<z>>), delta, n, dead) /\ Disk(Replaced(k, <<z>>)) \subseteq Disk(runs) \cup {z}
        BY <3>1, <3>2, <4>1, <1>8, ReplacedOne
      <4>3. z = Run(x, post) /\ z.name = x /\ z.post = post
        BY <3>1, <4>1, <1>6 DEF Run
      <4> QED BY <4>2, <4>3, <2>2, <3>4, <1>6
    <3> QED BY <3>3, <3>4
  <2> QED BY <2>1, <2>2
<1>10. Stops(t)
  BY <1>1, <1>2, <1>4, <1>7, <1>9 DEF Stops, Beside
<1> QED BY <1>3, <1>10, StopStep

(* The merge's write fails.                                                *)
LEMMA DiskMergeFailsStep ==
    ASSUME RunsInv, DiskMergeFails
    PROVE  RunsInv'
<1>1. PICK t \in Threads : t = "merger"
  BY DEF Threads
<1>2. /\ th[t].pc \in {"seal", "disk"} /\ pending' = pending \ {th[t].name}
      /\ files' = Restrict(files, DOMAIN files \ {th[t].name}) /\ th' = [th EXCEPT ![t] = Idle]
      /\ UNCHANGED <<n, dead, delta, runs, runSeq, manifest>>
  BY <1>1 DEF DiskMergeFails, list
<1>3. t \in Threads
  BY <1>1
<1> QED BY <1>2, <1>3, FailStep

(* The lists of a save.                                                    *)
LEMMA SaveLists ==
    ASSUME RunsInv
    PROVE  LET l0 == Cascaded(Taken)
               l1 == MergedList(Taken)
               l2 == AllSealed(l1)
           IN  /\ Fresh(l0) /\ Fresh(l1) /\ Fresh(l2)
               /\ RamOnTop(l1) => \A k \in DOMAIN l2 : l2[k].name # 0
<1>1. n \in Nat /\ runSeq \in Nat /\ Held(runs, delta, n, dead) /\ \A r \in Disk(runs) : r.name \in 1 .. runSeq
  BY DEF RunsInv, Shape, Backed
<1>2. Old(Taken)
  BY <1>1, TakenOK DEF Old
<1>3. PICK l0, l1 : l0 = Cascaded(Taken) /\ l1 = Sealed(l0, runSeq)
  OBVIOUS
<1>4. Old(l0)
  <2>1. l0 = Collapsed(Taken, FALSE)
    BY <1>3 DEF Cascaded
  <2> QED BY <2>1, <1>1, <1>2, CollapsedOld
<1>5. l1 = MergedList(Taken)
  BY <1>3 DEF MergedList
<1>6. Fresh(l0)
  BY <1>4, OldIsFresh
<1>7. Fresh(l1)
  BY <1>1, <1>3, <1>4, SealedFresh
<1>8. Fresh(AllSealed(l1)) /\ (RamOnTop(l1) => \A k \in DOMAIN AllSealed(l1) : AllSealed(l1)[k].name # 0)
  BY <1>1, <1>3, <1>4, AllSealedFresh
<1> QED BY <1>3, <1>5, <1>6, <1>7, <1>8

(* A list stored without a new checkpoint.                                 *)
LEMMA StoreStep ==
    ASSUME RunsInv, NEW l, Fresh(l), runs' = l, delta' = <<>>, runSeq' \in Nat, LastName(l) <= runSeq',
           files' = NewFiles(l), UNCHANGED <<n, dead, pending, manifest, th>>
    PROVE  RunsInv'
<1>1. runSeq \in Nat /\ n \in Nat /\ Backed(runs, files, runSeq, BusyNames(th))
  BY DEF RunsInv, Shape
<1>2a. PICK s \in Nat : s = runSeq'
  OBVIOUS
<1>2. PICK fs : fs = files' /\ s = runSeq' /\ s \in Nat
  BY <1>2a
<1>3. /\ DOMAIN files \subseteq DOMAIN fs
      /\ \A x \in DOMAIN files : x \in 0 .. runSeq => fs[x] = files[x]
  BY <1>1, <1>2, NewFilesIs
<1>4. /\ Backed(l, fs, s, BusyNames(th)) /\ Writing(th, fs, pending, s)
      /\ \E b \in Nat : DOMAIN fs \subseteq 0 .. b
      /\ runSeq <= s
  <2>1. /\ s \in Nat /\ LastName(l) <= s /\ DOMAIN fs \subseteq DOMAIN NewFiles(l)
        /\ \A x \in DOMAIN fs : fs[x] = NewFiles(l)[x]
        /\ \A k \in DOMAIN l : l[k].name \in DOMAIN NewFiles(l) => l[k].name \in DOMAIN fs
        /\ pending \cap DOMAIN NewFiles(l) \subseteq DOMAIN fs
    BY <1>2
  <2> QED BY <2>1, StoredOK
<1>5. Loads(manifest, fs, s, BusyNames(th), n, dead)
  <2>1. Loads(manifest, files, runSeq, BusyNames(th), n, dead)
    BY DEF RunsInv
  <2>2. ASSUME NEW k \in DOMAIN manifest.names
        PROVE  /\ manifest.names[k] \in DOMAIN fs \ BusyNames(th)
               /\ fs[manifest.names[k]] = files[manifest.names[k]]
               /\ manifest.names[k] <= s
    <3>1. /\ manifest.names[k] \in 1 .. manifest.runSeq /\ manifest.runSeq \in Nat
          /\ manifest.names[k] <= runSeq /\ manifest.names[k] \in DOMAIN files \ BusyNames(th)
      BY <2>1 DEF Loads
    <3>2. manifest.names[k] \in 0 .. runSeq /\ manifest.names[k] <= s
      BY <3>1, <1>1, <1>2, <1>4
    <3> QED BY <3>1, <3>2, <1>3
  <2>3. Spared(manifest, files, fs, s, BusyNames(th))
    BY <2>2 DEF Spared
  <2>4. runSeq \in Nat /\ s \in Nat /\ n \in Nat /\ n <= n /\ dead \subseteq dead
    BY <1>1, <1>2
  <2> QED BY <2>1, <2>3, <2>4, LoadsKept
<1>6. Held(l, <<>>, n, dead)
  BY DEF Fresh
<1>7. Shape'
  BY <1>2, <1>4 DEF RunsInv, Shape
<1> QED BY <1>2, <1>4, <1>5, <1>6, <1>7 DEF RunsInv

(* A checkpoint: every run of the list is on disk, its file is kept by the *)
(* sweep, and so the list is what the manifest loads.                      *)
LEMMA SaveStep ==
    ASSUME RunsInv, Save
    PROVE  RunsInv'
<1>1. PICK l : l = AllSealed(MergedList(Taken))
  OBVIOUS
<1>2. /\ RamOnTop(MergedList(Taken)) /\ runs' = l /\ delta' = <<>> /\ runSeq' = LastName(l)
      /\ manifest' = Manifest(l)
      /\ files' = Restrict(NewFiles(l), DOMAIN NewFiles(l) \cap Kept(l))
      /\ UNCHANGED <<n, dead, pending, th>>
  BY <1>1 DEF Save
<1>3. Fresh(l) /\ \A k \in DOMAIN l : l[k].name # 0
  BY <1>1, <1>2, SaveLists
<1>4. Held(l, <<>>, n, dead) /\ l \in Seq(RunOf(n))
  BY <1>3 DEF Fresh, Held
<1>5. runSeq \in Nat /\ n \in Nat /\ Backed(runs, files, runSeq, BusyNames(th))
  BY DEF RunsInv, Shape
<1>6. PICK s \in Nat : s = LastName(l)
  <2>1. LastName(l) \in {runSeq, runSeq + 1}
    BY <1>3, <1>5, NewFilesIs
  <2> QED BY <2>1, <1>5
<1>7. PICK fs : fs = files'
  OBVIOUS
<1>8. DOMAIN fs = DOMAIN NewFiles(l) \cap Kept(l) /\ \A x \in DOMAIN fs : fs[x] = NewFiles(l)[x]
  BY <1>2, <1>7 DEF Restrict
<1>9. Kept(l) = {l[k].name : k \in DOMAIN l} \cup pending
  BY DEF Kept, Names, Range
<1>10. /\ Backed(l, fs, s, BusyNames(th)) /\ Writing(th, fs, pending, s)
       /\ \E b \in Nat : DOMAIN fs \subseteq 0 .. b
  <2>1. /\ s \in Nat /\ LastName(l) <= s /\ DOMAIN fs \subseteq DOMAIN NewFiles(l)
        /\ \A x \in DOMAIN fs : fs[x] = NewFiles(l)[x]
        /\ \A k \in DOMAIN l : l[k].name \in DOMAIN NewFiles(l) => l[k].name \in DOMAIN fs
        /\ pending \cap DOMAIN NewFiles(l) \subseteq DOMAIN fs
    BY <1>6, <1>8, <1>9
  <2> QED BY <2>1, <1>3, StoredOK
<1>11. Shape'
  BY <1>2, <1>6, <1>7, <1>10 DEF RunsInv, Shape
<1>12. PICK mf : mf = manifest'
  OBVIOUS
<1>13. mf.n = n /\ mf.dead = dead /\ mf.runSeq = s /\ mf.names = Names(l)
  BY <1>2, <1>6, <1>12 DEF Manifest
<1>14. DOMAIN mf.names = DOMAIN l /\ \A k \in DOMAIN l : mf.names[k] = l[k].name
  BY <1>13 DEF Names
<1>15. ASSUME NEW k \in DOMAIN l
       PROVE  /\ l[k].name \in 1 .. s /\ l[k].name \in DOMAIN fs \ BusyNames(th)
              /\ Run(l[k].name, fs[l[k].name]) = l[k]
  <2>1. l[k] \in Disk(l)
    BY <1>3 DEF Disk
  <2>2. l[k].name \in 1 .. s /\ l[k].name \in DOMAIN fs \ BusyNames(th) /\ fs[l[k].name] = l[k].post
    BY <2>1, <1>10 DEF Backed
  <2>3. l[k] \in RunOf(n)
    BY <1>4
  <2>4. Run(l[k].name, l[k].post) = l[k]
    BY <2>3 DEF Run, RunOf
  <2> QED BY <2>2, <2>4
<1>16. Loaded(mf, fs) = l
  <2>1. Loaded(mf, fs) = [k \in DOMAIN l |-> l[k]]
    BY <1>14, <1>15 DEF Loaded
  <2>2. l = [k \in DOMAIN l |-> l[k]]
    BY <1>4
  <2> QED BY <2>1, <2>2
<1>17. Loads(mf, fs, s, BusyNames(th), n, dead)
  <2>1. s \in Nat /\ n \in 0 .. n /\ \A k \in DOMAIN l : l[k].name <= s
    BY <1>5, <1>6, <1>15
  <2> QED BY <2>1, <1>4, <1>13, <1>14, <1>15, <1>16 DEF Loads
<1> QED BY <1>2, <1>4, <1>6, <1>7, <1>10, <1>11, <1>12, <1>17 DEF RunsInv

(* The assertion of seal_all fails after the flush.                        *)
LEMMA SaveAssertsStep ==
    ASSUME RunsInv, SaveAsserts
    PROVE  RunsInv'
<1>1. PICK l : l = MergedList(Taken)
  OBVIOUS
<1>2. Fresh(l)
  BY <1>1, SaveLists
<1>3. /\ runs' = l /\ delta' = <<>> /\ runSeq' = LastName(l) /\ files' = NewFiles(l)
      /\ UNCHANGED <<n, dead, pending, manifest, th>>
  BY <1>1 DEF SaveAsserts
<1>4. LastName(l) \in Nat
  <2>1. runSeq \in Nat /\ Backed(runs, files, runSeq, BusyNames(th))
    BY DEF RunsInv, Shape
  <2>2. LastName(l) \in {runSeq, runSeq + 1}
    BY <1>2, <2>1, NewFilesIs
  <2> QED BY <2>1, <2>2
<1>5. runSeq' \in Nat /\ LastName(l) <= runSeq'
  BY <1>3, <1>4
<1> QED BY <1>2, <1>3, <1>5, StoreStep

(* A write of the save fails: the old manifest's files are still there.    *)
LEMMA SaveFailsStep ==
    ASSUME RunsInv, SaveFails
    PROVE  RunsInv'
<1>1. PICK l : /\ Fresh(l) /\ runs' = l
               /\ runSeq' = LastName(l) + 1 \/ runSeq' = LastName(l) + 0
  <2>1. PICK l0, l1, l2 : l0 = Cascaded(Taken) /\ l1 = MergedList(Taken) /\ l2 = AllSealed(l1)
    OBVIOUS
  <2>2. Fresh(l0) /\ Fresh(l1) /\ Fresh(l2)
    BY <2>1, SaveLists
  <2>3. \/ runs' = l0 /\ runSeq' = LastName(l0) + 1
        \/ runs' = l1 /\ runSeq' = LastName(l1) + 1
        \/ runs' = l2 /\ runSeq' = LastName(l2) + 0
    BY <2>1 DEF SaveFails
  <2> QED BY <2>2, <2>3
<1>2. /\ delta' = <<>> /\ files' = NewFiles(l) /\ UNCHANGED <<n, dead, pending, manifest, th>>
  BY <1>1 DEF SaveFails
<1>3. LastName(l) \in Nat
  <2>1. runSeq \in Nat /\ Backed(runs, files, runSeq, BusyNames(th))
    BY DEF RunsInv, Shape
  <2>2. LastName(l) \in {runSeq, runSeq + 1}
    BY <1>1, <2>1, NewFilesIs
  <2> QED BY <2>1, <2>2
<1>4. runSeq' \in Nat /\ LastName(l) <= runSeq'
  BY <1>1, <1>3
<1> QED BY <1>1, <1>2, <1>4, StoreStep

(* The postings the log gives back, after those of a list.                 *)
LEMMA TailHeld ==
    ASSUME NEW from \in Nat, NEW m \in Nat, from <= m, NEW F, NEW D, F \subseteq D,
           NEW rs, Held(rs, <<>>, from, F)
    PROVE  Held(rs, [k \in 1 .. m - from |-> from + k], m, D)
<1>1. PICK N \in Nat : N = m - from
  OBVIOUS
<1>2. PICK tail : tail = [k \in 1 .. N |-> from + k]
  OBVIOUS
<1>3. tail \in Seq(1 .. m)
  <2>1. tail \in [1 .. N -> 1 .. m]
    BY <1>1, <1>2
  <2>2. N \in Nat
    BY <1>1
  <2>3. PICK X : X = 1 .. m
    OBVIOUS
  <2>4. tail \in [1 .. N -> X]
    BY <2>1, <2>3
  <2>5. tail \in Seq(X)
    BY <2>2, <2>4, FcnSeq
  <2> QED BY <2>3, <2>5
<1>4. Rises(tail)
  BY <1>1, <1>2 DEF Rises
<1>5. rs \in Seq(RunOf(from)) /\ Ordered(rs)
  BY DEF Held
<1>6. rs \in Seq(RunOf(m))
  BY <1>5, Wider
<1>7. All(rs) \subseteq 1 .. from
  <2>1. ASSUME NEW k \in DOMAIN rs PROVE Range(rs[k].post) \subseteq 1 .. from
    <3>1. rs[k] \in RunOf(from)
      BY <1>5
    <3>2. PICK p \in Seq(1 .. from) : p = rs[k].post
      BY <3>1 DEF RunOf
    <3> QED BY <3>2, RangeIn
  <2> QED BY <2>1 DEF All
<1>8. Range(tail) = from + 1 .. m
  <2>1. ASSUME NEW x \in from + 1 .. m PROVE x \in Range(tail)
    <3>1. x - from \in 1 .. N /\ tail[x - from] = x
      BY <1>1, <1>2
    <3> QED BY <3>1, <1>2 DEF Range
  <2>2. ASSUME NEW k \in 1 .. N PROVE tail[k] \in from + 1 .. m
    BY <1>1, <1>2
  <2>3. DOMAIN tail = 1 .. N
    BY <1>2
  <2> QED BY <2>1, <2>2, <2>3 DEF Range
<1>9. \A v \in All(rs), w \in Range(tail) : v < w
  BY <1>7, <1>8
<1>10. (1 .. m) \ D \subseteq All(rs) \cup Range(tail)
  <2>1. ASSUME NEW x \in (1 .. m) \ D PROVE x \in All(rs) \cup Range(tail)
    <3>1. x \in 1 .. from \/ x \in from + 1 .. m
      OBVIOUS
    <3>2. CASE x \in 1 .. from
      <4>1. (1 .. from) \ F \subseteq All(rs) \cup Range(<<>>) /\ Range(<<>>) = {}
        BY DEF Held, Range
      <4> QED BY <3>2, <4>1
    <3> QED BY <3>1, <3>2, <1>8
  <2> QED BY <2>1
<1>11. Held(rs, tail, m, D)
  BY <1>3, <1>4, <1>5, <1>6, <1>9, <1>10 DEF Held
<1> QED BY <1>1, <1>2, <1>11

(* What a restart may begin with.                                          *)
Base(rs, from, F, seq) ==
    /\ from \in Nat /\ from <= manifest.n /\ F \subseteq manifest.dead /\ seq \in Nat
    /\ Held(rs, <<>>, from, F) /\ Backed(rs, files, seq, {})
    /\ \A k \in DOMAIN manifest.names : manifest.names[k] <= seq

(* A restart from such a list: the log's postings follow those of the      *)
(* list, and the name of a new run is none of the manifest's.              *)
LEMMA ReplayStep ==
    ASSUME RunsInv, NEW rs, NEW from, NEW F, NEW seq, Base(rs, from, F, seq), Restarted, Replay(rs, from, seq)
    PROVE  RunsInv'
<1>0. from \in Nat /\ from <= manifest.n /\ F \subseteq manifest.dead /\ seq \in Nat /\ Held(rs, <<>>, from, F)
  BY DEF Base
<1>1. n \in Nat /\ n <= MaxPost /\ dead \subseteq 1 .. n
  BY DEF RunsInv, Shape
<1>2. manifest.n \in 0 .. n
  BY DEF RunsInv, Loads
<1>3. PICK m \in manifest.n .. n : \E D \in SUBSET (dead \cap 1 .. m) :
        LET tail == [k \in 1 .. m - from |-> from + k]
            l == IF tail = <<>> THEN rs ELSE Append(rs, Run(0, tail))
        IN  /\ manifest.dead \subseteq D
            /\ n' = m /\ dead' = D
            /\ delta' = <<>>
            /\ runs' = Sealed(l, seq)
            /\ runSeq' = seq + (IF SealDue(l) THEN 1 ELSE 0)
            /\ files' = IF SealDue(l) THEN Wrote(seq + 1, l[Len(l)].post) ELSE files
  BY DEF Replay
<1>4. PICK D \in SUBSET (dead \cap 1 .. m) :
        LET tail == [k \in 1 .. m - from |-> from + k]
            l == IF tail = <<>> THEN rs ELSE Append(rs, Run(0, tail))
        IN  /\ manifest.dead \subseteq D
            /\ n' = m /\ dead' = D
            /\ delta' = <<>>
            /\ runs' = Sealed(l, seq)
            /\ runSeq' = seq + (IF SealDue(l) THEN 1 ELSE 0)
            /\ files' = IF SealDue(l) THEN Wrote(seq + 1, l[Len(l)].post) ELSE files
  BY <1>3
<1>5. PICK tail, l : /\ tail = [k \in 1 .. m - from |-> from + k]
                     /\ l = IF tail = <<>> THEN rs ELSE Append(rs, Run(0, tail))
  OBVIOUS
<1>6. /\ manifest.dead \subseteq D /\ n' = m /\ dead' = D /\ delta' = <<>>
      /\ runs' = Sealed(l, seq) /\ runSeq' = seq + (IF SealDue(l) THEN 1 ELSE 0)
      /\ files' = IF SealDue(l) THEN Wrote(seq + 1, l[Len(l)].post) ELSE files
  BY <1>4, <1>5
<1>7. m \in Nat /\ from <= m /\ m <= n /\ manifest.n <= m
  BY <1>0, <1>1, <1>2, <1>3
<1>8. Held(l, <<>>, m, D) /\ Disk(l) \subseteq Disk(rs)
  <2>1. Held(rs, tail, m, D)
    <3>1. F \subseteq D
      BY <1>0, <1>6
    <3> QED BY <3>1, <1>0, <1>5, <1>7, TailHeld
  <2>2. CASE tail = <<>>
    BY <2>1, <2>2, <1>5
  <2>3. CASE tail # <<>>
    BY <2>1, <2>3, <1>5, <1>7, NewestRun
  <2> QED BY <2>2, <2>3
<1>9. PICK r : r = Sealed(l, seq)
  OBVIOUS
<1>10. /\ Held(r, <<>>, m, D)
       /\ DOMAIN r = DOMAIN l /\ Len(r) = Len(l)
       /\ \A k \in DOMAIN l : r[k].post = l[k].post /\ (k # Len(l) => r[k] = l[k])
       /\ SealDue(l) => Len(l) \in DOMAIN l /\ r[Len(l)].name = seq + 1
       /\ ~SealDue(l) => r = l
  <2>1. m \in Nat /\ seq \in Nat /\ Held(l, <<>>, m, D)
    BY <1>0, <1>7, <1>8
  <2> QED BY <2>1, <1>9, SealedIs
<1>11. PICK s : s = runSeq'
  OBVIOUS
<1>12. s \in Nat /\ seq <= s /\ (SealDue(l) => s = seq + 1) /\ (~SealDue(l) => s = seq)
  BY <1>0, <1>6, <1>11
<1>13. PICK fs : fs = files'
  OBVIOUS
<1>14. /\ DOMAIN files \subseteq DOMAIN fs /\ DOMAIN fs \subseteq DOMAIN files \cup {seq + 1}
       /\ \A y \in DOMAIN files : y # seq + 1 => fs[y] = files[y]
       /\ SealDue(l) => seq + 1 \in DOMAIN fs /\ fs[seq + 1] = l[Len(l)].post
  BY <1>6, <1>13 DEF Wrote
<1>15. th' = [t \in Threads |-> Idle] /\ pending' = {} /\ manifest' = manifest
  BY DEF Restarted
<1>16. DOMAIN th' = Threads /\ \A t \in Threads : th'[t].pc = "idle"
  BY <1>15 DEF Idle
<1>17. Busy(th') = {} /\ BusyNames(th') = {}
  BY <1>16 DEF Busy, BusyNames
<1>18. Shape'
  <2>1. \E b \in Nat : DOMAIN fs \subseteq 0 .. b
    <3>1. PICK b \in Nat : DOMAIN files \subseteq 0 .. b
      BY DEF RunsInv, Shape
    <3>2. ASSUME NEW x \in DOMAIN fs PROVE x \in 0 .. b + seq + 1
      <4>1. x \in 0 .. b \/ x = seq + 1
        BY <1>14, <3>1
      <4> QED BY <4>1, <3>1, <1>0
    <3>3. b + seq + 1 \in Nat
      BY <3>1, <1>0
    <3> QED BY <3>2, <3>3
  <2>2. n' \in 0 .. MaxPost /\ dead' \subseteq 1 .. n'
    BY <1>1, <1>4, <1>6, <1>7, RunsAssumption
  <2> QED BY <2>1, <2>2, <1>11, <1>12, <1>13, <1>16 DEF Shape
<1>19. Backed(r, fs, s, {})
  <2>1. ASSUME NEW k \in DOMAIN r, r[k].name # 0
        PROVE  r[k].name \in 1 .. s /\ r[k].name \in DOMAIN fs /\ fs[r[k].name] = r[k].post
    <3>1. CASE SealDue(l) /\ k = Len(l)
      <4>1. r[k].name = seq + 1 /\ r[k].post = l[Len(l)].post
        BY <3>1, <2>1, <1>10
      <4> QED BY <3>1, <4>1, <1>0, <1>12, <1>14
    <3>2. CASE ~(SealDue(l) /\ k = Len(l))
      <4>1. r[k] = l[k] /\ k \in DOMAIN l
        BY <3>2, <2>1, <1>10
      <4>2. r[k] \in Disk(rs)
        BY <4>1, <2>1, <1>8 DEF Disk
      <4>3. r[k].name \in 1 .. seq /\ r[k].name \in DOMAIN files /\ files[r[k].name] = r[k].post
        BY <4>2 DEF Base, Backed
      <4>4. r[k].name # seq + 1 /\ r[k].name \in 1 .. s
        BY <4>3, <1>0, <1>12
      <4> QED BY <4>3, <4>4, <1>14
    <3> QED BY <3>1, <3>2
  <2> QED BY <2>1 DEF Backed, Disk
<1>20. Loads(manifest, fs, s, {}, m, D)
  <2>1. Loads(manifest, files, runSeq, BusyNames(th), n, dead)
    BY DEF RunsInv
  <2>2. /\ manifest.runSeq \in Nat
        /\ \A k \in DOMAIN manifest.names : manifest.names[k] \in 1 .. manifest.runSeq /\ manifest.names[k] \in DOMAIN files
        /\ Held(Loaded(manifest, files), <<>>, manifest.n, manifest.dead)
    BY <2>1 DEF Loads
  <2>3. ASSUME NEW k \in DOMAIN manifest.names
        PROVE  manifest.names[k] \in DOMAIN fs /\ fs[manifest.names[k]] = files[manifest.names[k]] /\ manifest.names[k] <= s
    <3>1. manifest.names[k] <= seq
      BY DEF Base
    <3>2. manifest.names[k] # seq + 1 /\ manifest.names[k] <= s
      BY <3>1, <2>2, <1>0, <1>12
    <3> QED BY <3>2, <2>2, <1>14
  <2>4. Loaded(manifest, fs) = Loaded(manifest, files)
    BY <2>3 DEF Loaded
  <2>5. manifest.n \in 0 .. m
    BY <1>2, <1>7
  <2> QED BY <2>2, <2>3, <2>4, <2>5, <1>6 DEF Loads
<1>21. Writing(th', fs, {}, s)
  BY <1>17 DEF Writing
<1> QED BY <1>6, <1>9, <1>10, <1>11, <1>13, <1>15, <1>17, <1>18, <1>19, <1>20, <1>21 DEF RunsInv

(* A restart from the checkpoint.                                          *)
LEMMA ReopenStep ==
    ASSUME RunsInv, Reopen
    PROVE  RunsInv'
<1>1. PICK rs : rs = Loaded(manifest, files)
  OBVIOUS
<1>2. Restarted /\ Replay(rs, manifest.n, manifest.runSeq)
  BY <1>1 DEF Reopen, Loaded
<1>3. Loads(manifest, files, runSeq, BusyNames(th), n, dead) /\ n \in Nat
  BY DEF RunsInv, Shape
<1>4. /\ manifest.n \in Nat /\ manifest.runSeq \in Nat /\ Held(rs, <<>>, manifest.n, manifest.dead)
      /\ \A k \in DOMAIN manifest.names : manifest.names[k] \in 1 .. manifest.runSeq /\ manifest.names[k] \in DOMAIN files
  BY <1>1, <1>3 DEF Loads
<1>5. Backed(rs, files, manifest.runSeq, {})
  <2>1. ASSUME NEW k \in DOMAIN rs
        PROVE  rs[k].name \in 1 .. manifest.runSeq /\ rs[k].name \in DOMAIN files /\ files[rs[k].name] = rs[k].post
    <3>1. k \in DOMAIN manifest.names /\ rs[k] = Run(manifest.names[k], files[manifest.names[k]])
      BY <1>1 DEF Loaded
    <3> QED BY <3>1, <1>4 DEF Run
  <2> QED BY <2>1 DEF Backed, Disk
<1>6. \A k \in DOMAIN manifest.names : manifest.names[k] <= manifest.runSeq
  BY <1>4
<1>7. Base(rs, manifest.n, manifest.dead, manifest.runSeq)
  BY <1>4, <1>5, <1>6 DEF Base
<1> QED BY <1>2, <1>7, ReplayStep

(* A restart from the whole log: the counter goes past every file.         *)
LEMMA ReopenRefusedStep ==
    ASSUME RunsInv, ReopenRefused
    PROVE  RunsInv'
<1>1. PICK T : T = {0} \cup DOMAIN files
  OBVIOUS
<1>2. PICK seq : seq = Max(T)
  OBVIOUS
<1>3. Restarted /\ Replay(<<>>, 0, seq)
  BY <1>1, <1>2 DEF ReopenRefused
<1>4. seq \in Nat /\ \A x \in DOMAIN files : x <= seq
  <2>1. PICK b \in Nat : DOMAIN files \subseteq 0 .. b
    BY DEF RunsInv, Shape
  <2>2. b \in Nat /\ T \subseteq 0 .. b /\ T # {}
    BY <1>1, <2>1
  <2>3. Max(T) \in T /\ \A x \in T : x <= Max(T)
    BY <2>2, MaxIs
  <2> QED BY <2>2, <2>3, <1>1, <1>2
<1>5. Loads(manifest, files, runSeq, BusyNames(th), n, dead) /\ n \in Nat
  BY DEF RunsInv, Shape
<1>6. \A k \in DOMAIN manifest.names : manifest.names[k] <= seq
  BY <1>4, <1>5 DEF Loads
<1>7. manifest.n \in Nat
  BY <1>5 DEF Loads
<1>8. Held(<<>>, <<>>, 0, {}) /\ Backed(<<>>, files, seq, {})
  <2>1. <<>> \in Seq(RunOf(0)) /\ <<>> \in Seq(1 .. 0) /\ 1 .. 0 = {} /\ DOMAIN <<>> = {}
    OBVIOUS
  <2> QED BY <2>1 DEF Held, Ordered, Rises, All, Range, Backed, Disk
<1>9. Base(<<>>, 0, {}, seq)
  BY <1>4, <1>6, <1>7, <1>8 DEF Base
<1> QED BY <1>3, <1>9, ReplayStep

(* Every step, by action.                                                  *)
LEMMA NextInv == RunsInv /\ [Next]_vars => RunsInv'
<1> SUFFICES ASSUME RunsInv, [Next]_vars PROVE RunsInv'
  OBVIOUS
<1>1. CASE UNCHANGED vars
  BY <1>1 DEF vars, list, RunsInv, Shape
<1>2. CASE Add
  BY <1>2, AddStep
<1>3. ASSUME NEW p \in 1 .. n, Die(p) PROVE RunsInv'
  BY <1>3, DieStep
<1>4. ASSUME NEW t \in Flushers,
             Flush(t) \/ RamPick(t) \/ RamSwap(t) \/ RamDone(t) \/ SealPick(t) \/ SealSwap(t) \/ SealFails(t)
      PROVE  RunsInv'
  BY <1>4, FlushStep, RamPickStep, RamSwapStep, RamDoneStep, SealPickStep, SealSwapStep, SealFailsStep
<1>5. CASE DiskMergeStart \/ DiskMergeSwap \/ DiskMergeFails
  BY <1>5, DiskMergeStartStep, DiskMergeSwapStep, DiskMergeFailsStep
<1>6. CASE Save \/ SaveAsserts \/ SaveFails
  BY <1>6, SaveStep, SaveAssertsStep, SaveFailsStep
<1>7. CASE Reopen \/ ReopenRefused
  BY <1>7, ReopenStep, ReopenRefusedStep
<1> QED BY <1>1, <1>2, <1>3, <1>4, <1>5, <1>6, <1>7 DEF Next

-----------------------------------------------------------------------------
(* What the invariant says.                                                *)

(* The invariant contains the types.                                       *)
LEMMA InvTypes == RunsInv => TypeOK
<1> SUFFICES ASSUME RunsInv PROVE TypeOK
  OBVIOUS
<1>1. /\ n \in 0 .. MaxPost /\ dead \subseteq 1 .. n /\ runSeq \in Nat /\ DOMAIN files \subseteq Nat
      /\ \A t \in Threads : th[t].pc \in {"idle", "cascade", "merge", "seal", "disk"}
  BY DEF RunsInv, Shape
<1>2. delta \in Seq(1 .. n) /\ runs \in Seq(RunOf(n))
  BY DEF RunsInv, Held
<1>3. ASSUME NEW k \in DOMAIN runs PROVE runs[k].name \in 0 .. runSeq /\ runs[k].post \in Seq(1 .. n)
  <2>1. runs[k] \in RunOf(n)
    BY <1>2
  <2>2. runs[k].post \in Seq(1 .. n)
    BY <2>1 DEF RunOf
  <2>3. runs[k].name # 0 => runs[k].name \in 1 .. runSeq
    BY DEF RunsInv, Backed, Disk
  <2> QED BY <2>2, <2>3, <1>1
<1>4. pending \subseteq 1 .. runSeq
  BY DEF RunsInv, Writing
<1>5. Range(manifest.names) \subseteq 1 .. manifest.runSeq
  BY DEF RunsInv, Loads, Range
<1> QED BY <1>1, <1>2, <1>3, <1>4, <1>5 DEF TypeOK

(* The lists a reader walks are the runs and the delta, which hold what is *)
(* live in order.                                                          *)
LEMMA InvInOrder == RunsInv => PostingsInOrder
<1> SUFFICES ASSUME RunsInv PROVE PostingsInOrder
  OBVIOUS
<1>1. /\ runs \in Seq(RunOf(n)) /\ Ordered(runs) /\ delta \in Seq(1 .. n) /\ Rises(delta)
      /\ \A v \in All(runs), w \in Range(delta) : v < w
      /\ (1 .. n) \ dead \subseteq All(runs) \cup Range(delta)
  BY DEF RunsInv, Held
<1>2. PICK N \in Nat : N = Len(runs) /\ DOMAIN runs = 1 .. N
  BY <1>1
<1>3. PICK q : q = [k \in DOMAIN runs |-> runs[k].post]
  OBVIOUS
<1>4. PICK L : L = Lists
  OBVIOUS
<1>5. /\ DOMAIN L = 1 .. N + 1 /\ L[N + 1] = delta
      /\ \A k \in 1 .. N : L[k] = runs[k].post
  <2>1. PICK X : X = Seq(1 .. n)
    OBVIOUS
  <2>2. \A k \in 1 .. N : runs[k].post \in X
    <3>1. \A k \in 1 .. N : runs[k] \in RunOf(n)
      BY <1>1, <1>2
    <3> QED BY <3>1, <2>1 DEF RunOf
  <2>3. N \in Nat /\ q \in [1 .. N -> X] /\ delta \in X
    BY <2>1, <2>2, <1>1, <1>2, <1>3
  <2>4. q \in Seq(X) /\ Len(q) = N
    BY <2>3, FcnSeq
  <2>5. L = Append(q, delta)
    BY <1>3, <1>4 DEF Lists
  <2>6. /\ L[Len(q) + 1] = delta /\ DOMAIN L = 1 .. Len(q) + 1
        /\ \A i \in 1 .. Len(q) : L[i] = q[i]
    BY <2>3, <2>4, <2>5, AppendIs
  <2> QED BY <2>4, <2>6, <1>2, <1>3
<1>6. \A k \in 1 .. N + 1 : k \in 1 .. N \/ k = N + 1
  BY <1>2
<1>7. ASSUME NEW p \in (1 .. n) \ dead PROVE \E k \in DOMAIN L : p \in Range(L[k])
  <2>1. CASE p \in Range(delta)
    <3>1. N + 1 \in DOMAIN L
      BY <1>2, <1>5
    <3> QED BY <2>1, <3>1, <1>5
  <2>2. CASE p \in All(runs)
    <3>1. PICK k \in 1 .. N : p \in Range(runs[k].post)
      BY <2>2, <1>2 DEF All
    <3>2. k \in DOMAIN L
      BY <3>1, <1>2, <1>5
    <3> QED BY <3>1, <3>2, <1>5
  <2> QED BY <2>1, <2>2, <1>1
<1>8. ASSUME NEW k \in DOMAIN L PROVE Rises(L[k])
  BY <1>1, <1>2, <1>5, <1>6 DEF Ordered
<1>9. ASSUME NEW j \in DOMAIN L, NEW k \in DOMAIN L, j < k PROVE Below(L[j], L[k])
  <2>1. j \in 1 .. N /\ (k \in 1 .. N \/ k = N + 1)
    BY <1>2, <1>5, <1>9
  <2>2. CASE k \in 1 .. N
    BY <2>1, <2>2, <1>1, <1>2, <1>5, <1>9 DEF Ordered
  <2>3. CASE k = N + 1
    <3>1. Range(L[j]) \subseteq All(runs)
      BY <2>1, <1>2, <1>5 DEF All
    <3> QED BY <2>3, <3>1, <1>1, <1>5 DEF Below
  <2> QED BY <2>1, <2>2, <2>3
<1>10. ASSUME NEW j \in DOMAIN L, NEW k \in DOMAIN L, NEW x \in DOMAIN L[j], NEW y \in DOMAIN L[k],
              j < k \/ (j = k /\ x < y)
       PROVE  L[j][x] < L[k][y]
  <2>1. CASE j < k
    <3>1. L[j][x] \in Range(L[j]) /\ L[k][y] \in Range(L[k])
      BY DEF Range
    <3> QED BY <2>1, <3>1, <1>9 DEF Below
  <2>2. CASE j = k /\ x < y
    BY <2>2, <1>8 DEF Rises
  <2> QED BY <1>10, <2>1, <2>2
<1> QED BY <1>4, <1>7, <1>10 DEF PostingsInOrder

(* The list the manifest loads holds what it covers.                       *)
LEMMA InvLoadable == RunsInv => CheckpointLoadable
<1> SUFFICES ASSUME RunsInv PROVE CheckpointLoadable
  OBVIOUS
<1>1. /\ \A k \in DOMAIN manifest.names : manifest.names[k] \in DOMAIN files
      /\ Held(Loaded(manifest, files), <<>>, manifest.n, manifest.dead)
  BY DEF RunsInv, Loads
<1>2. Range(manifest.names) \subseteq DOMAIN files
  BY <1>1 DEF Range
<1>3. PICK l : l = Loaded(manifest, files)
  OBVIOUS
<1>4. DOMAIN l = DOMAIN manifest.names /\ \A k \in DOMAIN l : l[k].post = files[manifest.names[k]]
  BY <1>3 DEF Loaded, Run
<1>5. ASSUME NEW p \in (1 .. manifest.n) \ manifest.dead
      PROVE  \E k \in DOMAIN manifest.names : p \in Range(files[manifest.names[k]])
  <2>1. p \in All(l)
    BY <1>1, <1>3 DEF Held, Range
  <2> QED BY <2>1, <1>4 DEF All
<1> QED BY <1>2, <1>5 DEF CheckpointLoadable

(* The list is ordered and complete, disk runs and the checkpoint have     *)
(* their files, and threads write under names of their own, in every       *)
(* reachable state.                                                        *)
THEOREM Invariant == Spec => []RunsInv
BY InitInv, NextInv, PTL DEF Spec

(* Types, and names given by the counter, for every number of flushing     *)
(* threads and every bound (disk.Leveled, Store._runs).                    *)
THEOREM TypeCorrect == Spec => []TypeOK
BY Invariant, InvTypes, PTL

(* Whatever flushes, merges, seals, checkpoints and restarts do to the run *)
(* list, `get` meets every live posting once, in order of arrival.         *)
THEOREM ReadInOrder == Spec => []PostingsInOrder
BY Invariant, InvInOrder, PTL

(* The last checkpoint can be loaded at any moment: no sweep, failed       *)
(* write, merge or reused name has touched its run files.                  *)
THEOREM Loadable == Spec => []CheckpointLoadable
BY Invariant, InvLoadable, PTL

=============================================================================
