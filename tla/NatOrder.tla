------------------------------ MODULE NatOrder ------------------------------
(***************************************************************************)
(* Least and greatest elements of sets of numbers: what the proofs about   *)
(* Max and Min rest on, and the form in which they do induction -- a       *)
(* counterexample would have a least one.  From it: induction up to a      *)
(* number, stated with a set, and that a function which is recursive over  *)
(* the steps up to a number exists.                                        *)
(***************************************************************************)
EXTENDS Integers, FiniteSetsExt, WellFoundedInduction, TLAPS

(* A set of naturals that is not empty has a least element.                *)
LEMMA HasLeast ==
    ASSUME NEW S, S \subseteq Nat, S # {}
    PROVE  \E m \in S : \A x \in S : m <= x
<1> DEFINE R == OpToRel(<, Nat)
<1>1. PICK m \in S : \A x \in S : <<x, m>> \notin R
  <2>1. IsWellFoundedOn(R, Nat)
    BY NatLessThanWellFounded
  <2> HIDE DEF R
  <2> QED
    BY <2>1, WFMin
<1>2. ASSUME NEW x \in S PROVE m <= x
  <2>1. <<x, m>> \notin R
    BY <1>1
  <2>2. ~(x < m)
    BY <2>1 DEF OpToRel
  <2> QED
    BY <2>2
<1> QED
  BY <1>2

(* One that is bounded has a greatest, and Max is it.                      *)
LEMMA MaxIs ==
    ASSUME NEW S, NEW n \in Nat, S \subseteq 0 .. n, S # {}
    PROVE  Max(S) \in S /\ \A x \in S : x <= Max(S)
<1> DEFINE T == {y \in 0 .. n : n - y \in S}
<1>1. T \subseteq Nat /\ T # {}
  <2>1. PICK x \in S : TRUE
    OBVIOUS
  <2>2. n - x \in T
    BY <2>1
  <2>3. T \subseteq Nat
    OBVIOUS
  <2> HIDE DEF T
  <2> QED
    BY <2>2, <2>3
<1>2. PICK t \in T : \A y \in T : t <= y
  <2> HIDE DEF T
  <2> QED
    BY <1>1, HasLeast
<1>3. ASSUME NEW x \in S PROVE n - t >= x
  <2>1. n - x \in T
    OBVIOUS
  <2> QED
    BY <2>1, <1>2
<1>4. \E m \in S : \A y \in S : m >= y
  BY <1>2, <1>3
<1> QED
  BY <1>4 DEF Max

(* Min of naturals.                                                        *)
LEMMA MinIs ==
    ASSUME NEW S, S \subseteq Nat, S # {}
    PROVE  Min(S) \in S /\ \A x \in S : Min(S) <= x
  BY HasLeast DEF Min

(* The greatest element is the one that is at least the others.            *)
LEMMA MaxUnique ==
    ASSUME NEW S, S \subseteq Int, NEW m \in S, \A x \in S : x <= m
    PROVE  Max(S) = m
<1>1. \E x \in S : \A y \in S : x >= y
  OBVIOUS
<1>2. Max(S) \in S /\ \A y \in S : Max(S) >= y
  BY <1>1 DEF Max
<1>3. Max(S) <= m /\ m <= Max(S) /\ Max(S) \in Int
  BY <1>2
<1> QED
  BY <1>3

(* Induction up to a number, for membership in a set.                      *)
LEMMA UpTo ==
    ASSUME NEW N \in Nat, NEW P, 0 \in P, \A k \in 1 .. N : k - 1 \in P => k \in P
    PROVE  0 .. N \subseteq P
<1> DEFINE Bad == {k \in 0 .. N : k \notin P}
<1>1. SUFFICES ASSUME Bad # {} PROVE FALSE
  OBVIOUS
<1>2. Bad \subseteq Nat
  OBVIOUS
<1>3. PICK m \in Bad : \A x \in Bad : m <= x
  <2> HIDE DEF Bad
  <2> QED BY <1>1, <1>2, HasLeast
<1>4. m \in 1 .. N /\ m \notin P
  BY <1>3
<1>5. m - 1 \notin Bad /\ m - 1 \in 0 .. N
  BY <1>3, <1>4
<1> QED
  BY <1>4, <1>5

(* Function g, up to N: x first, then F[k] of the value before.            *)
Follows(g, x, F, N) == g[0] = x /\ \A k \in 1 .. N : g[k] = F[k][g[k - 1]]
Closed(F, N, S) == \A k \in 1 .. N, v \in S : F[k][v] \in S

(* A function defined by recursion exists.                                 *)
LEMMA Recursion ==
    ASSUME NEW S, NEW N \in Nat, NEW x \in S, NEW F, Closed(F, N, S)
    PROVE  \E g \in [0 .. N -> S] : Follows(g, x, F, N)
<1> DEFINE Fits(g, m) == Follows(g, x, F, m)
           P == {m \in 0 .. N : \E g \in [0 .. m -> S] : Fits(g, m)}
<1>1. 0 \in P
  <2>1. [k \in 0 .. 0 |-> x] \in [0 .. 0 -> S] /\ Fits([k \in 0 .. 0 |-> x], 0)
    BY DEF Follows
  <2>2. \E g \in [0 .. 0 -> S] : Fits(g, 0)
    <3> HIDE DEF Fits
    <3> QED BY <2>1
  <2> HIDE DEF Fits
  <2> QED BY <2>2
<1>2. ASSUME NEW m \in 1 .. N, m - 1 \in P PROVE m \in P
  <2>1. PICK g \in [0 .. m - 1 -> S] : Fits(g, m - 1)
    BY <1>2
  <2> DEFINE h == [k \in 0 .. m |-> IF k = m THEN F[m][g[m - 1]] ELSE g[k]]
  <2>2. g[m - 1] \in S /\ F[m][g[m - 1]] \in S
    BY DEF Closed
  <2>3. h \in [0 .. m -> S]
    BY <2>2
  <2>4. ASSUME NEW k \in 1 .. m PROVE h[k] = F[k][h[k - 1]]
    <3>1. h[k - 1] = g[k - 1]
      OBVIOUS
    <3>2. k # m => h[k] = g[k] /\ k \in 1 .. m - 1
      OBVIOUS
    <3>3. k = m => h[k] = F[m][g[m - 1]]
      OBVIOUS
    <3> QED BY <2>1, <3>1, <3>2, <3>3 DEF Follows
  <2>5. h[0] = x
    BY <2>1 DEF Follows
  <2>6. Fits(h, m)
    BY <2>4, <2>5 DEF Follows
  <2> HIDE DEF h, Fits
  <2> QED BY <2>3, <2>6
<1>3. 0 .. N \subseteq P
  <2> HIDE DEF P
  <2> QED BY <1>1, <1>2, UpTo
<1> QED BY <1>3
=============================================================================
