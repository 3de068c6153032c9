------------------------- MODULE QuickSilverProofs -------------------------
(***************************************************************************)
(* For every field of characteristic two, every set of correlations and    *)
(* every circuit: wires and expressions match the verifier's keys, every   *)
(* constraint's check is the polynomial of the published coefficients and  *)
(* its error above them, and so is the check of the batch.  Hence honest   *)
(* proofs verify at every Delta, and false ones at no more Delta than the  *)
(* degree of the batch.                                                    *)
(***************************************************************************)
EXTENDS QuickSilver, SumTheorems, SequenceTheorems

(***************************************************************************)
(* The algebra: sums, powers and polynomials, for every field of           *)
(* characteristic two.  Each fact is an induction over a length, done with *)
(* NumbersInductive.                                                       *)
(***************************************************************************)

(***************************************************************************)
(* The field.                                                              *)
(***************************************************************************)

(* (p + q) + (r + s) = (p + r) + (q + s). *)
LEMMA Interchange ==
  ASSUME NEW p \in F, NEW q \in F, NEW r \in F, NEW s \in F
  PROVE  Plus(Plus(p, q), Plus(r, s)) = Plus(Plus(p, r), Plus(q, s))
<1>1. Plus(Plus(p, q), Plus(r, s)) = Plus(p, Plus(q, Plus(r, s)))
  BY FieldAssumption
<1>2. Plus(q, Plus(r, s)) = Plus(Plus(q, r), s)
  BY FieldAssumption
<1>3. Plus(Plus(q, r), s) = Plus(Plus(r, q), s)
  BY FieldAssumption
<1>4. Plus(Plus(r, q), s) = Plus(r, Plus(q, s))
  BY FieldAssumption
<1>5. Plus(p, Plus(r, Plus(q, s))) = Plus(Plus(p, r), Plus(q, s))
  BY FieldAssumption
<1> QED BY <1>1, <1>2, <1>3, <1>4, <1>5

(* The field's laws, one instance at a time. *)
LEMMA Distributes ==
  ASSUME NEW p \in F, NEW q \in F, NEW r \in F
  PROVE  Times(p, Plus(q, r)) = Plus(Times(p, q), Times(p, r))
BY FieldAssumption

(* Multiplication is associative. *)
LEMMA Associates ==
  ASSUME NEW p \in F, NEW q \in F, NEW r \in F
  PROVE  Times(p, Times(q, r)) = Times(Times(p, q), r)
BY FieldAssumption

(* So is addition. *)
LEMMA SumAssociates ==
  ASSUME NEW p \in F, NEW q \in F, NEW r \in F
  PROVE  Plus(p, Plus(q, r)) = Plus(Plus(p, q), r)
BY FieldAssumption

(* Sums and products are field elements and commute. *)
LEMMA Closed ==
  ASSUME NEW p \in F, NEW q \in F
  PROVE  /\ Plus(p, q) \in F /\ Times(p, q) \in F
         /\ Plus(p, q) = Plus(q, p) /\ Times(p, q) = Times(q, p)
BY FieldAssumption

(* Multiplication distributes from the right as well. *)
LEMMA RightDistributes ==
  ASSUME NEW p \in F, NEW q \in F, NEW r \in F
  PROVE  Times(Plus(p, q), r) = Plus(Times(p, r), Times(q, r))
<1>1. Times(Plus(p, q), r) = Times(r, Plus(p, q))
  BY FieldAssumption
<1>2. Times(r, Plus(p, q)) = Plus(Times(r, p), Times(r, q))
  BY FieldAssumption
<1> QED BY <1>1, <1>2, FieldAssumption

(* p (q r) = q (p r). *)
LEMMA Exchange ==
  ASSUME NEW p \in F, NEW q \in F, NEW r \in F
  PROVE  Times(p, Times(q, r)) = Times(q, Times(p, r))
<1>1. Times(p, Times(q, r)) = Times(Times(p, q), r) /\ Times(q, Times(p, r)) = Times(Times(q, p), r)
  BY Associates
<1> QED BY <1>1, Closed

(* (p q) (r s) = (p r) (q s). *)
LEMMA ProductInterchange ==
  ASSUME NEW p \in F, NEW q \in F, NEW r \in F, NEW s \in F
  PROVE  Times(Times(p, q), Times(r, s)) = Times(Times(p, r), Times(q, s))
<1>1. /\ Times(p, q) \in F /\ Times(r, s) \in F /\ Times(q, r) \in F
      /\ Times(p, r) \in F /\ Times(q, s) \in F
  BY Closed
<1>2. Times(Times(p, q), Times(r, s)) = Times(p, Times(q, Times(r, s)))
  BY <1>1, Associates
<1>3. Times(q, Times(r, s)) = Times(r, Times(q, s))
  <2>1. Times(q, Times(r, s)) = Times(Times(q, r), s)
    BY Associates
  <2>2. Times(Times(q, r), s) = Times(Times(r, q), s)
    BY Closed
  <2>3. Times(Times(r, q), s) = Times(r, Times(q, s))
    BY Associates
  <2> QED BY <2>1, <2>2, <2>3
<1>4. Times(p, Times(r, Times(q, s))) = Times(Times(p, r), Times(q, s))
  BY <1>1, Associates
<1> QED BY <1>2, <1>3, <1>4

-----------------------------------------------------------------------------
(***************************************************************************)
(* Sums.                                                                   *)
(***************************************************************************)

(* f has n terms in the field. *)
Summable(n, f) == \A k \in 1 .. n : f[k] \in F

(* g holds the sums of the first terms of f. *)
PartialSums(g, n, f) ==
  g = [k \in 0 .. n |-> IF k = 0 THEN Zero ELSE Plus(g[k - 1], f[k])]

(* The sum is the last value of such a function. *)
LEMMA SumOfUnfolded ==
  ASSUME NEW n, NEW f
  PROVE  SumOf(n, f) = (CHOOSE g : PartialSums(g, n, f))[n]
BY DEF SumOf, PartialSums

(* All the sums of the first terms, as one function. *)
LEMMA PartialSumsExist ==
  ASSUME NEW n \in Nat, NEW f, Summable(n, f)
  PROVE  \E g \in [0 .. n -> F] :
           /\ g[0] = Zero
           /\ \A k \in 1 .. n : g[k] = Plus(g[k - 1], f[k])
           /\ \A m \in 0 .. n : SumOf(m, f) = g[m]
<1> DEFINE step == [s \in (1 .. n) \X F |-> Plus(s[2], f[s[1]])]
<1>1. step \in [(1 .. n) \X F -> F]
  BY FieldAssumption DEF Summable
<1>2. \A k \in 1 .. n, x \in F : step[<<k, x>>] = Plus(x, f[k])
  OBVIOUS
<1> HIDE DEF step
<1>3. PICK g \in [0 .. n -> F] : Follows(g, n, F, Zero, step)
  BY <1>1, RecursionExists, FieldAssumption
<1>4. g[0] = Zero
  BY <1>3 DEF Follows
<1>5. ASSUME NEW k \in 1 .. n
      PROVE  g[k] = Plus(g[k - 1], f[k])
  <2>1. g[k - 1] \in F
    OBVIOUS
  <2> QED BY <1>2, <1>3, <2>1 DEF Follows
<1>6. ASSUME NEW m \in 0 .. n
      PROVE  SumOf(m, f) = g[m]
  <2> DEFINE p == [k \in 0 .. m |-> g[k]]
  <2>1. PartialSums(p, m, f)
    <3>1. ASSUME NEW k \in 0 .. m
          PROVE  p[k] = IF k = 0 THEN Zero ELSE Plus(p[k - 1], f[k])
      <4>1. CASE k = 0
        BY <1>4, <4>1
      <4>2. CASE k # 0
        <5>1. k \in 1 .. n /\ k - 1 \in 0 .. m
          BY <4>2
        <5> QED BY <1>5, <4>2, <5>1
      <4> QED BY <4>1, <4>2
    <3> QED BY <3>1 DEF PartialSums
  <2> DEFINE h == CHOOSE q : PartialSums(q, m, f)
  <2>2. PartialSums(h, m, f)
    BY <2>1
  <2>3. SumOf(m, f) = h[m]
    BY SumOfUnfolded
  <2> HIDE DEF h, p
  <2>4. h[0] = Zero
    BY <2>2 DEF PartialSums
  <2>5. \A k \in 1 .. m : h[k] = Plus(h[k - 1], f[k])
    BY <2>2 DEF PartialSums
  <2>6. Follows(h, m, F, Zero, step)
    BY <1>2, <2>4, <2>5 DEF Follows
  <2>7. \A k \in 0 .. m : h[k] = g[k]
    BY <1>3, <2>6, RecursionUnique
  <2> QED BY <2>3, <2>7
<1> QED BY <1>4, <1>5, <1>6

(* A sum is in the field, is Zero without terms and grows by the last term. *)
LEMMA SumOfEmpty ==
  ASSUME NEW f
  PROVE  SumOf(0, f) = Zero
<1>1. Summable(0, f)
  BY DEF Summable
<1> QED BY <1>1, PartialSumsExist

(* It is in the field. *)
LEMMA SumOfClosed ==
  ASSUME NEW n \in Nat, NEW f, Summable(n, f)
  PROVE  SumOf(n, f) \in F
BY PartialSumsExist

(* It grows by the last term. *)
LEMMA SumOfNext ==
  ASSUME NEW n \in Nat, NEW f, Summable(n + 1, f)
  PROVE  SumOf(n + 1, f) = Plus(SumOf(n, f), f[n + 1])
<1>1. PICK g \in [0 .. n + 1 -> F] :
           /\ g[0] = Zero
           /\ \A k \in 1 .. n + 1 : g[k] = Plus(g[k - 1], f[k])
           /\ \A m \in 0 .. n + 1 : SumOf(m, f) = g[m]
  BY PartialSumsExist
<1>2. n + 1 \in 1 .. n + 1 /\ n \in 0 .. n + 1 /\ n + 1 \in 0 .. n + 1 /\ (n + 1) - 1 = n
  OBVIOUS
<1> QED BY <1>1, <1>2

(* Sums with the same terms are the same. *)
LEMMA SumOfAgrees ==
  ASSUME NEW n \in Nat, NEW f, NEW h, Summable(n, f), \A k \in 1 .. n : h[k] = f[k]
  PROVE  SumOf(n, h) = SumOf(n, f)
<1> DEFINE T == {m \in Nat : m <= n => SumOf(m, h) = SumOf(m, f)}
<1>1. 0 \in T
  BY SumOfEmpty
<1>2. ASSUME NEW m \in Nat, m \in T
      PROVE  m + 1 \in T
  <2> SUFFICES ASSUME m + 1 <= n
               PROVE  SumOf(m + 1, h) = SumOf(m + 1, f)
    OBVIOUS
  <2>1. Summable(m + 1, f) /\ Summable(m + 1, h) /\ h[m + 1] = f[m + 1]
    BY DEF Summable
  <2>2. SumOf(m, h) = SumOf(m, f)
    BY <1>2
  <2> QED BY <2>1, <2>2, SumOfNext
<1> HIDE DEF T
<1>3. n \in T
  BY <1>1, <1>2, NumbersInductive
<1> QED BY <1>3 DEF T

(* Terms that vanish after the first m add nothing. *)
LEMMA SumOfExtended ==
  ASSUME NEW m \in Nat, NEW n \in Nat, m <= n, NEW f, NEW h, Summable(m, f),
         \A k \in 1 .. m : h[k] = f[k], \A k \in m + 1 .. n : h[k] = Zero
  PROVE  SumOf(n, h) = SumOf(m, f)
<1> DEFINE T == {i \in Nat : m + i <= n => SumOf(m + i, h) = SumOf(m, f)}
<1>0. \A i \in Nat : m + i <= n => Summable(m + i, h)
  <2> SUFFICES ASSUME NEW i \in Nat, m + i <= n, NEW k \in 1 .. m + i
               PROVE  h[k] \in F
    BY DEF Summable
  <2>1. k \in 1 .. m \/ k \in m + 1 .. n
    OBVIOUS
  <2> QED BY <2>1, FieldAssumption DEF Summable
<1>1. 0 \in T
  BY SumOfAgrees
<1>2. ASSUME NEW i \in Nat, i \in T
      PROVE  i + 1 \in T
  <2> SUFFICES ASSUME m + (i + 1) <= n
               PROVE  SumOf(m + (i + 1), h) = SumOf(m, f)
    OBVIOUS
  <2>1. m + (i + 1) = (m + i) + 1 /\ m + i \in Nat /\ m + i <= n /\ (m + i) + 1 \in m + 1 .. n
    OBVIOUS
  <2>2. SumOf((m + i) + 1, h) = Plus(SumOf(m + i, h), h[(m + i) + 1])
    BY <1>0, <2>1, SumOfNext
  <2>3. SumOf(m + i, h) = SumOf(m, f) /\ SumOf(m, f) \in F
    BY <1>2, <2>1, SumOfClosed
  <2>4. h[(m + i) + 1] = Zero
    BY <2>1
  <2> QED BY <2>1, <2>2, <2>3, <2>4, FieldAssumption
<1> HIDE DEF T
<1>3. n - m \in T
  BY <1>1, <1>2, NumbersInductive
<1> QED BY <1>3 DEF T

(* Nor do terms that vanish up to s. *)
LEMMA SumOfMoved ==
  ASSUME NEW s \in Nat, NEW n \in Nat, NEW f, NEW h, Summable(n, f),
         \A k \in 1 .. s : h[k] = Zero, \A k \in 1 .. n : h[s + k] = f[k]
  PROVE  SumOf(s + n, h) = SumOf(n, f)
<1> DEFINE T == {i \in Nat : i <= n => SumOf(s + i, h) = SumOf(i, f)}
<1>0. \A i \in Nat : i <= n => Summable(s + i, h)
  <2> SUFFICES ASSUME NEW i \in Nat, i <= n, NEW k \in 1 .. s + i
               PROVE  h[k] \in F
    BY DEF Summable
  <2>1. CASE k \in 1 .. s
    BY <2>1, FieldAssumption
  <2>2. CASE k \notin 1 .. s
    <3>1. k - s \in 1 .. n /\ s + (k - s) = k
      BY <2>2
    <3> QED BY <3>1 DEF Summable
  <2> QED BY <2>1, <2>2
<1>1. 0 \in T
  <2> DEFINE none == [k \in {} |-> Zero]
  <2>1. Summable(0, none)
    BY DEF Summable
  <2>2. \A k \in 0 + 1 .. s : h[k] = Zero
    OBVIOUS
  <2>3. \A k \in 1 .. 0 : h[k] = none[k]
    OBVIOUS
  <2> HIDE DEF none
  <2>4. 0 \in Nat /\ 0 <= s
    OBVIOUS
  <2>5. SumOf(s, h) = SumOf(0, none)
    BY ONLY <2>1, <2>2, <2>3, <2>4, s \in Nat, SumOfExtended
  <2> QED BY <2>5, SumOfEmpty
<1>2. ASSUME NEW i \in Nat, i \in T
      PROVE  i + 1 \in T
  <2> SUFFICES ASSUME i + 1 <= n
               PROVE  SumOf(s + (i + 1), h) = SumOf(i + 1, f)
    OBVIOUS
  <2>1. s + (i + 1) = (s + i) + 1 /\ s + i \in Nat /\ i + 1 \in 1 .. n
    OBVIOUS
  <2>2. SumOf((s + i) + 1, h) = Plus(SumOf(s + i, h), h[(s + i) + 1])
    BY <1>0, <2>1, SumOfNext
  <2>3. Summable(i + 1, f)
    BY DEF Summable
  <2>4. SumOf(i + 1, f) = Plus(SumOf(i, f), f[i + 1])
    BY <2>3, SumOfNext
  <2> QED BY <1>2, <2>1, <2>2, <2>4
<1> HIDE DEF T
<1>3. n \in T
  BY <1>1, <1>2, NumbersInductive
<1> QED BY <1>3 DEF T

(* The sum of a single term, and of the first term and the others. *)
LEMMA SumOfOne ==
  ASSUME NEW f, f[1] \in F
  PROVE  SumOf(1, f) = f[1]
<1>1. Summable(0 + 1, f)
  BY DEF Summable
<1>2. SumOf(0 + 1, f) = Plus(SumOf(0, f), f[0 + 1])
  BY <1>1, SumOfNext
<1> QED BY <1>2, SumOfEmpty, FieldAssumption

(* A sum is its first term and the sum of the others. *)
LEMMA SumOfFirst ==
  ASSUME NEW n \in Nat, NEW f, NEW h, Summable(n + 1, h), \A k \in 1 .. n : f[k] = h[k + 1]
  PROVE  SumOf(n + 1, h) = Plus(h[1], SumOf(n, f))
<1> DEFINE T == {i \in Nat : i <= n => SumOf(i + 1, h) = Plus(h[1], SumOf(i, f))}
<1>0. h[1] \in F
  BY DEF Summable
<1>1. 0 \in T
  BY <1>0, SumOfOne, SumOfEmpty, FieldAssumption
<1>2. ASSUME NEW i \in Nat, i \in T
      PROVE  i + 1 \in T
  <2> SUFFICES ASSUME i + 1 <= n
               PROVE  SumOf((i + 1) + 1, h) = Plus(h[1], SumOf(i + 1, f))
    OBVIOUS
  <2>1. Summable((i + 1) + 1, h) /\ Summable(i + 1, f) /\ Summable(i, f)
    BY DEF Summable
  <2>2. SumOf((i + 1) + 1, h) = Plus(SumOf(i + 1, h), h[(i + 1) + 1])
    BY <2>1, SumOfNext
  <2>3. SumOf(i + 1, f) = Plus(SumOf(i, f), f[i + 1])
    BY <2>1, SumOfNext
  <2>4. f[i + 1] = h[(i + 1) + 1] /\ f[i + 1] \in F /\ SumOf(i, f) \in F
    BY <2>1, SumOfClosed DEF Summable
  <2>5. SumOf(i + 1, h) = Plus(h[1], SumOf(i, f))
    BY <1>2
  <2> QED BY <1>0, <2>2, <2>3, <2>4, <2>5, SumAssociates
<1> HIDE DEF T
<1>3. n \in T
  BY <1>1, <1>2, NumbersInductive
<1> QED BY <1>3 DEF T

(* Terms that all vanish. *)
LEMMA SumOfZeroes ==
  ASSUME NEW n \in Nat, NEW f, \A k \in 1 .. n : f[k] = Zero
  PROVE  SumOf(n, f) = Zero
<1> DEFINE none == [k \in {} |-> Zero]
<1>1. Summable(0, none) /\ \A k \in 0 + 1 .. n : f[k] = Zero
  BY DEF Summable
<1>2. SumOf(n, f) = SumOf(0, none)
  BY <1>1, SumOfExtended
<1> QED BY <1>2, SumOfEmpty

(* Sums are added and multiplied term by term. *)
LEMMA SumOfPlus ==
  ASSUME NEW n \in Nat, NEW f, NEW g, NEW h, Summable(n, f), Summable(n, g),
         \A k \in 1 .. n : h[k] = Plus(f[k], g[k])
  PROVE  SumOf(n, h) = Plus(SumOf(n, f), SumOf(n, g))
<1> DEFINE T == {i \in Nat : i <= n => SumOf(i, h) = Plus(SumOf(i, f), SumOf(i, g))}
<1>1. 0 \in T
  BY SumOfEmpty, FieldAssumption
<1>2. ASSUME NEW i \in Nat, i \in T
      PROVE  i + 1 \in T
  <2> SUFFICES ASSUME i + 1 <= n
               PROVE  SumOf(i + 1, h) = Plus(SumOf(i + 1, f), SumOf(i + 1, g))
    OBVIOUS
  <2>1. Summable(i + 1, f) /\ Summable(i + 1, g) /\ Summable(i, f) /\ Summable(i, g)
    BY DEF Summable
  <2>2. Summable(i + 1, h)
    <3> SUFFICES ASSUME NEW k \in 1 .. i + 1
                 PROVE  h[k] \in F
      BY DEF Summable
    <3>1. f[k] \in F /\ g[k] \in F /\ h[k] = Plus(f[k], g[k])
      BY <2>1 DEF Summable
    <3> QED BY <3>1, Closed
  <2>3. h[i + 1] = Plus(f[i + 1], g[i + 1]) /\ f[i + 1] \in F /\ g[i + 1] \in F
    BY <2>1 DEF Summable
  <2>4. SumOf(i, f) \in F /\ SumOf(i, g) \in F
    BY <2>1, SumOfClosed
  <2>5. /\ SumOf(i + 1, h) = Plus(SumOf(i, h), h[i + 1])
        /\ SumOf(i + 1, f) = Plus(SumOf(i, f), f[i + 1])
        /\ SumOf(i + 1, g) = Plus(SumOf(i, g), g[i + 1])
    BY <2>1, <2>2, SumOfNext
  <2>6. SumOf(i, h) = Plus(SumOf(i, f), SumOf(i, g))
    BY <1>2
  <2> QED BY <2>3, <2>4, <2>5, <2>6, Interchange
<1> HIDE DEF T
<1>3. n \in T
  BY <1>1, <1>2, NumbersInductive
<1> QED BY <1>3 DEF T

(* And multiplied. *)
LEMMA SumOfTimes ==
  ASSUME NEW n \in Nat, NEW c \in F, NEW f, NEW h, Summable(n, f),
         \A k \in 1 .. n : h[k] = Times(c, f[k])
  PROVE  SumOf(n, h) = Times(c, SumOf(n, f))
<1> DEFINE T == {i \in Nat : i <= n => SumOf(i, h) = Times(c, SumOf(i, f))}
<1>1. 0 \in T
  BY SumOfEmpty, FieldAssumption
<1>2. ASSUME NEW i \in Nat, i \in T
      PROVE  i + 1 \in T
  <2> SUFFICES ASSUME i + 1 <= n
               PROVE  SumOf(i + 1, h) = Times(c, SumOf(i + 1, f))
    OBVIOUS
  <2>1. Summable(i + 1, f) /\ Summable(i, f)
    BY DEF Summable
  <2>2. Summable(i + 1, h)
    <3> SUFFICES ASSUME NEW k \in 1 .. i + 1
                 PROVE  h[k] \in F
      BY DEF Summable
    <3>1. f[k] \in F /\ h[k] = Times(c, f[k])
      BY <2>1 DEF Summable
    <3> QED BY <3>1, Closed
  <2>3. h[i + 1] = Times(c, f[i + 1]) /\ f[i + 1] \in F
    BY <2>1 DEF Summable
  <2>4. SumOf(i, f) \in F
    BY <2>1, SumOfClosed
  <2>5. /\ SumOf(i + 1, h) = Plus(SumOf(i, h), h[i + 1])
        /\ SumOf(i + 1, f) = Plus(SumOf(i, f), f[i + 1])
    BY <2>1, <2>2, SumOfNext
  <2>6. SumOf(i, h) = Times(c, SumOf(i, f))
    BY <1>2
  <2> QED BY <2>3, <2>4, <2>5, <2>6, Distributes
<1> HIDE DEF T
<1>3. n \in T
  BY <1>1, <1>2, NumbersInductive
<1> QED BY <1>3 DEF T

(* A double sum is the same by rows and by columns. *)
Row(n, t, i) == [k \in 1 .. n |-> t[i][k]]
Column(m, t, k) == [i \in 1 .. m |-> t[i][k]]
RowSums(m, n, t) == [i \in 1 .. m |-> SumOf(n, Row(n, t, i))]
ColumnSums(m, n, t) == [k \in 1 .. n |-> SumOf(m, Column(m, t, k))]

(* Adding up rows or columns makes no difference. *)
LEMMA SumOfSwapped ==
  ASSUME NEW m \in Nat, NEW n \in Nat, NEW t, \A i \in 1 .. m, k \in 1 .. n : t[i][k] \in F
  PROVE  SumOf(m, RowSums(m, n, t)) = SumOf(n, ColumnSums(m, n, t))
<1> DEFINE T == {j \in Nat : j <= m => SumOf(j, RowSums(m, n, t)) = SumOf(n, ColumnSums(j, n, t))}
<1>0. ASSUME NEW i \in 1 .. m
      PROVE  Summable(n, Row(n, t, i)) /\ RowSums(m, n, t)[i] = SumOf(n, Row(n, t, i))
  BY DEF Summable, Row, RowSums
<1>1. 0 \in T
  <2>1. \A k \in 1 .. n : ColumnSums(0, n, t)[k] = Zero
    BY SumOfEmpty DEF ColumnSums
  <2>2. SumOf(n, ColumnSums(0, n, t)) = Zero
    BY <2>1, SumOfZeroes
  <2> QED BY <2>2, SumOfEmpty
<1>2. ASSUME NEW j \in Nat, j \in T
      PROVE  j + 1 \in T
  <2> SUFFICES ASSUME j + 1 <= m
               PROVE  SumOf(j + 1, RowSums(m, n, t)) = SumOf(n, ColumnSums(j + 1, n, t))
    OBVIOUS
  <2>1. Summable(j + 1, RowSums(m, n, t))
    <3> SUFFICES ASSUME NEW i \in 1 .. j + 1
                 PROVE  RowSums(m, n, t)[i] \in F
      BY DEF Summable
    <3>1. i \in 1 .. m
      OBVIOUS
    <3> QED BY <1>0, <3>1, SumOfClosed
  <2>2. /\ RowSums(m, n, t)[j + 1] = SumOf(n, Row(n, t, j + 1))
        /\ Summable(n, Row(n, t, j + 1))
    BY <1>0
  <2>3. SumOf(j + 1, RowSums(m, n, t)) =
          Plus(SumOf(j, RowSums(m, n, t)), SumOf(n, Row(n, t, j + 1)))
    BY <2>1, <2>2, SumOfNext
  <2>4. SumOf(j, RowSums(m, n, t)) = SumOf(n, ColumnSums(j, n, t))
    BY <1>2
  <2>5. ASSUME NEW k \in 1 .. n
        PROVE  /\ ColumnSums(j, n, t)[k] \in F
               /\ ColumnSums(j + 1, n, t)[k] = Plus(ColumnSums(j, n, t)[k], Row(n, t, j + 1)[k])
    <3>1. Summable(j, Column(j, t, k)) /\ Summable(j + 1, Column(j + 1, t, k))
      BY DEF Summable, Column
    <3>2. \A i \in 1 .. j : Column(j + 1, t, k)[i] = Column(j, t, k)[i]
      BY DEF Column
    <3>3. Column(j + 1, t, k)[j + 1] = Row(n, t, j + 1)[k]
      BY DEF Column, Row
    <3>4. /\ ColumnSums(j, n, t)[k] = SumOf(j, Column(j, t, k))
          /\ ColumnSums(j + 1, n, t)[k] = SumOf(j + 1, Column(j + 1, t, k))
      BY DEF ColumnSums
    <3>5. SumOf(j, Column(j + 1, t, k)) = SumOf(j, Column(j, t, k))
      BY <3>1, <3>2, SumOfAgrees
    <3> QED BY <3>1, <3>3, <3>4, <3>5, SumOfNext, SumOfClosed
  <2>6. Summable(n, ColumnSums(j, n, t))
    BY <2>5 DEF Summable
  <2>7. SumOf(n, ColumnSums(j + 1, n, t)) =
          Plus(SumOf(n, ColumnSums(j, n, t)), SumOf(n, Row(n, t, j + 1)))
    BY <2>2, <2>5, <2>6, SumOfPlus
  <2> QED BY <2>3, <2>4, <2>7
<1> HIDE DEF T
<1>3. m \in T
  BY <1>1, <1>2, NumbersInductive
<1> QED BY <1>3 DEF T

(* Weighted sums are in the field, and linear in what they add up. *)
LEMMA WeightedClosed ==
  ASSUME NEW n \in Nat, NEW w, NEW f, Summable(n, w), Summable(n, f)
  PROVE  /\ Summable(n, [k \in 1 .. n |-> Times(w[k], f[k])])
         /\ Weighted(n, w, f) \in F
<1>1. \A k \in 1 .. n : Times(w[k], f[k]) \in F
  BY Closed DEF Summable
<1>2. Summable(n, [k \in 1 .. n |-> Times(w[k], f[k])])
  BY <1>1 DEF Summable
<1> QED BY <1>2, SumOfClosed DEF Weighted

(* It is additive. *)
LEMMA WeightedPlus ==
  ASSUME NEW n \in Nat, NEW w, NEW f, NEW g, NEW h,
         Summable(n, w), Summable(n, f), Summable(n, g),
         \A k \in 1 .. n : h[k] = Plus(f[k], g[k])
  PROVE  Weighted(n, w, h) = Plus(Weighted(n, w, f), Weighted(n, w, g))
<1> DEFINE wf == [k \in 1 .. n |-> Times(w[k], f[k])]
           wg == [k \in 1 .. n |-> Times(w[k], g[k])]
           wh == [k \in 1 .. n |-> Times(w[k], h[k])]
<1>1. Summable(n, wf) /\ Summable(n, wg)
  BY WeightedClosed
<1>2. \A k \in 1 .. n : wh[k] = Plus(wf[k], wg[k])
  BY Distributes DEF Summable
<1> HIDE DEF wf, wg, wh
<1>3. SumOf(n, wh) = Plus(SumOf(n, wf), SumOf(n, wg))
  BY ONLY n \in Nat, <1>1, <1>2, SumOfPlus
<1> QED BY <1>3 DEF Weighted, wf, wg, wh

(* And linear. *)
LEMMA WeightedTimes ==
  ASSUME NEW n \in Nat, NEW w, NEW f, NEW h, NEW x \in F,
         Summable(n, w), Summable(n, f), \A k \in 1 .. n : h[k] = Times(f[k], x)
  PROVE  Weighted(n, w, h) = Times(Weighted(n, w, f), x)
<1> DEFINE wf == [k \in 1 .. n |-> Times(w[k], f[k])]
           wh == [k \in 1 .. n |-> Times(w[k], h[k])]
<1>1. Summable(n, wf)
  BY WeightedClosed
<1>2. ASSUME NEW k \in 1 .. n
      PROVE  wh[k] = Times(x, wf[k])
  <2>1. w[k] \in F /\ f[k] \in F
    BY DEF Summable
  <2>2. Times(w[k], Times(f[k], x)) = Times(Times(w[k], f[k]), x)
    BY <2>1, Associates
  <2>3. Times(w[k], f[k]) \in F
    BY <2>1, Closed
  <2>4. Times(Times(w[k], f[k]), x) = Times(x, Times(w[k], f[k]))
    BY <2>3, Closed
  <2> QED BY <2>2, <2>4
<1> HIDE DEF wf, wh
<1>3. SumOf(n, wh) = Times(x, SumOf(n, wf)) /\ SumOf(n, wf) \in F
  BY <1>1, <1>2, SumOfTimes, SumOfClosed
<1>4. SumOf(n, wh) = Times(SumOf(n, wf), x)
  BY <1>3, Closed
<1> QED BY <1>4 DEF Weighted, wf, wh

(* Sums of values that agree are the same. *)
LEMMA WeightedAgrees ==
  ASSUME NEW n \in Nat, NEW w, NEW f, NEW h, Summable(n, w), Summable(n, f),
         \A k \in 1 .. n : h[k] = f[k]
  PROVE  Weighted(n, w, h) = Weighted(n, w, f)
<1> DEFINE wf == [k \in 1 .. n |-> Times(w[k], f[k])]
           wh == [k \in 1 .. n |-> Times(w[k], h[k])]
<1>1. Summable(n, wf)
  BY WeightedClosed
<1>2. \A k \in 1 .. n : wh[k] = wf[k]
  OBVIOUS
<1> HIDE DEF wf, wh
<1>3. SumOf(n, wh) = SumOf(n, wf)
  BY <1>1, <1>2, SumOfAgrees
<1> QED BY <1>3 DEF Weighted, wf, wh

(* Weights of values that all vanish. *)
LEMMA WeightedZeroes ==
  ASSUME NEW n \in Nat, NEW w, NEW f, Summable(n, w), \A k \in 1 .. n : f[k] = Zero
  PROVE  Weighted(n, w, f) = Zero
<1>1. ASSUME NEW k \in 1 .. n
      PROVE  Times(w[k], f[k]) = Zero
  <2>1. w[k] \in F
    BY DEF Summable
  <2>2. Times(w[k], Zero) = Zero
    BY <2>1, FieldAssumption
  <2> QED BY <2>2
<1> QED BY <1>1, SumOfZeroes DEF Weighted
-----------------------------------------------------------------------------
(***************************************************************************)
(* Powers.                                                                 *)
(***************************************************************************)

(* p holds the powers of x. *)
Powers(p, n, x) == p = [k \in 0 .. n |-> IF k = 0 THEN One ELSE Times(p[k - 1], x)]

(* A power is the last one of such a function. *)
LEMMA PowerUnfolded ==
  ASSUME NEW x, NEW n
  PROVE  Power(x, n) = (CHOOSE p : Powers(p, n, x))[n]
BY DEF Power, Powers

(* All the powers up to the n-th, as one function. *)
LEMMA PowersExist ==
  ASSUME NEW n \in Nat, NEW x \in F
  PROVE  \E g \in [0 .. n -> F] :
           /\ g[0] = One
           /\ \A k \in 1 .. n : g[k] = Times(g[k - 1], x)
           /\ \A m \in 0 .. n : Power(x, m) = g[m]
<1> DEFINE step == [s \in (1 .. n) \X F |-> Times(s[2], x)]
<1>1. step \in [(1 .. n) \X F -> F]
  BY FieldAssumption
<1>2. \A k \in 1 .. n, y \in F : step[<<k, y>>] = Times(y, x)
  OBVIOUS
<1> HIDE DEF step
<1>3. PICK g \in [0 .. n -> F] : Follows(g, n, F, One, step)
  BY <1>1, RecursionExists, FieldAssumption
<1>4. g[0] = One
  BY <1>3 DEF Follows
<1>5. ASSUME NEW k \in 1 .. n
      PROVE  g[k] = Times(g[k - 1], x)
  <2>1. g[k - 1] \in F
    OBVIOUS
  <2> QED BY <1>2, <1>3, <2>1 DEF Follows
<1>6. ASSUME NEW m \in 0 .. n
      PROVE  Power(x, m) = g[m]
  <2> DEFINE p == [k \in 0 .. m |-> g[k]]
  <2>1. Powers(p, m, x)
    <3>1. ASSUME NEW k \in 0 .. m
          PROVE  p[k] = IF k = 0 THEN One ELSE Times(p[k - 1], x)
      <4>1. CASE k = 0
        BY <1>4, <4>1
      <4>2. CASE k # 0
        <5>1. k \in 1 .. n /\ k - 1 \in 0 .. m
          BY <4>2
        <5> QED BY <1>5, <4>2, <5>1
      <4> QED BY <4>1, <4>2
    <3> QED BY <3>1 DEF Powers
  <2> DEFINE h == CHOOSE q : Powers(q, m, x)
  <2>2. Powers(h, m, x)
    BY <2>1
  <2>3. Power(x, m) = h[m]
    BY PowerUnfolded
  <2> HIDE DEF h, p
  <2>4. h[0] = One
    BY <2>2 DEF Powers
  <2>5. \A k \in 1 .. m : h[k] = Times(h[k - 1], x)
    BY <2>2 DEF Powers
  <2>6. Follows(h, m, F, One, step)
    BY <1>2, <2>4, <2>5 DEF Follows
  <2>7. \A k \in 0 .. m : h[k] = g[k]
    <3>1. n \in Nat /\ g \in [0 .. n -> F] /\ m \in 0 .. n
      OBVIOUS
    <3> QED BY ONLY <1>3, <2>6, <3>1, RecursionUnique
  <2> QED BY <2>3, <2>7
<1> QED BY <1>4, <1>5, <1>6

(* Powers are in the field, and each is x times the one before. *)
LEMMA PowerClosed ==
  ASSUME NEW n \in Nat, NEW x \in F
  PROVE  Power(x, n) \in F
<1>1. PICK g \in [0 .. n -> F] : \A m \in 0 .. n : Power(x, m) = g[m]
  BY PowersExist
<1>2. n \in 0 .. n
  OBVIOUS
<1> QED BY <1>1, <1>2

(* The power of zero is One. *)
LEMMA PowerZero ==
  ASSUME NEW x \in F
  PROVE  Power(x, 0) = One
<1>1. 0 \in Nat /\ 0 \in 0 .. 0
  OBVIOUS
<1> QED BY <1>1, PowersExist

(* The next power has one more factor. *)
LEMMA PowerNext ==
  ASSUME NEW n \in Nat, NEW x \in F
  PROVE  Power(x, n + 1) = Times(Power(x, n), x)
<1>1. PICK g \in [0 .. n + 1 -> F] :
           /\ g[0] = One
           /\ \A k \in 1 .. n + 1 : g[k] = Times(g[k - 1], x)
           /\ \A m \in 0 .. n + 1 : Power(x, m) = g[m]
  <2>1. n + 1 \in Nat
    OBVIOUS
  <2> QED BY <2>1, PowersExist
<1>2. n + 1 \in 1 .. n + 1 /\ n \in 0 .. n + 1 /\ n + 1 \in 0 .. n + 1 /\ (n + 1) - 1 = n
  OBVIOUS
<1> QED BY <1>1, <1>2

(* x^1 = x and x^2 = x x. *)
LEMMA PowerSmall ==
  ASSUME NEW x \in F
  PROVE  Power(x, 1) = x /\ Power(x, 2) = Times(x, x)
<1>1. Power(x, 0 + 1) = Times(Power(x, 0), x) /\ Power(x, 1 + 1) = Times(Power(x, 1), x)
  BY PowerNext
<1>2. One \in F /\ Times(One, x) = Times(x, One) /\ Times(x, One) = x
  BY FieldAssumption
<1> QED BY <1>1, <1>2, PowerZero

(* x^(m + n) = x^m x^n. *)
LEMMA PowerPlus ==
  ASSUME NEW m \in Nat, NEW n \in Nat, NEW x \in F
  PROVE  Power(x, m + n) = Times(Power(x, m), Power(x, n))
<1> DEFINE T == {i \in Nat : Power(x, m + i) = Times(Power(x, m), Power(x, i))}
<1>1. 0 \in T
  BY PowerZero, PowerClosed, FieldAssumption
<1>2. ASSUME NEW i \in Nat, i \in T
      PROVE  i + 1 \in T
  <2>1. m + (i + 1) = (m + i) + 1 /\ m + i \in Nat
    OBVIOUS
  <2>2. Power(x, (m + i) + 1) = Times(Power(x, m + i), x) /\ Power(x, i + 1) = Times(Power(x, i), x)
    BY <2>1, PowerNext
  <2>3. Power(x, m) \in F /\ Power(x, i) \in F
    BY PowerClosed
  <2>4. Power(x, m + i) = Times(Power(x, m), Power(x, i))
    BY <1>2
  <2>5. Power(x, m + (i + 1)) = Times(Power(x, m), Power(x, i + 1))
    BY <2>1, <2>2, <2>3, <2>4, Associates
  <2> QED BY <2>5
<1> HIDE DEF T
<1>3. n \in T
  BY <1>1, <1>2, NumbersInductive
<1> QED BY <1>3 DEF T
-----------------------------------------------------------------------------
(***************************************************************************)
(* Polynomials.                                                            *)
(***************************************************************************)

(* The terms of a polynomial of n coefficients at x. *)
PolyTerms(n, c, x) == [k \in 1 .. n |-> Times(c[k], Power(x, k - 1))]
Poly(n, c, x) == SumOf(n, PolyTerms(n, c, x))

(* Evaluate is the polynomial of all the coefficients. *)
LEMMA EvaluateIsPoly ==
  ASSUME NEW c, NEW x
  PROVE  Evaluate(c, x) = Poly(Len(c), c, x)
BY DEF Evaluate, Poly, PolyTerms

(* Polynomials and their terms have values in the field. *)
LEMMA PolyTermsClosed ==
  ASSUME NEW n \in Nat, NEW c, NEW x \in F, Summable(n, c)
  PROVE  Summable(n, PolyTerms(n, c, x)) /\ Poly(n, c, x) \in F
<1>1. ASSUME NEW k \in 1 .. n
      PROVE  PolyTerms(n, c, x)[k] \in F
  <2>1. c[k] \in F /\ k - 1 \in Nat
    BY DEF Summable
  <2>2. Times(c[k], Power(x, k - 1)) \in F
    BY <2>1, PowerClosed, Closed
  <2> QED BY <2>2 DEF PolyTerms
<1>2. Summable(n, PolyTerms(n, c, x))
  BY <1>1 DEF Summable
<1> QED BY <1>2, SumOfClosed DEF Poly

(* A sequence over the field has summable coefficients. *)
LEMMA SequenceSummable ==
  ASSUME NEW c \in Seq(F)
  PROVE  Len(c) \in Nat /\ Summable(Len(c), c)
BY ElementOfSeq DEF Summable

(* So has Evaluate. *)
LEMMA EvaluateClosed ==
  ASSUME NEW c \in Seq(F), NEW x \in F
  PROVE  Evaluate(c, x) \in F
BY SequenceSummable, EvaluateIsPoly, PolyTermsClosed

(* The same coefficients give the same polynomial. *)
LEMMA PolyAgrees ==
  ASSUME NEW n \in Nat, NEW b, NEW c, NEW x \in F, Summable(n, c), \A k \in 1 .. n : b[k] = c[k]
  PROVE  Poly(n, b, x) = Poly(n, c, x)
<1>1. \A k \in 1 .. n : PolyTerms(n, b, x)[k] = PolyTerms(n, c, x)[k]
  BY DEF PolyTerms
<1> QED BY <1>1, PolyTermsClosed, SumOfAgrees DEF Poly

(* A linear polynomial. *)
LEMMA EvaluatePair ==
  ASSUME NEW p \in F, NEW q \in F, NEW x \in F
  PROVE  Evaluate(<<p, q>>, x) = Plus(p, Times(q, x))
<1> DEFINE c == <<p, q>>
           t == PolyTerms(2, c, x)
<1>1. t[1] = Times(p, Power(x, 0)) /\ t[2] = Times(q, Power(x, 1))
  BY DEF PolyTerms
<1>2. Times(p, One) = p
  BY FieldAssumption
<1>3. t[1] = p /\ t[2] = Times(q, x) /\ Times(q, x) \in F
  BY <1>1, <1>2, PowerZero, PowerSmall, Closed
<1>4. Evaluate(c, x) = SumOf(1 + 1, t)
  <2>1. Len(c) = 2 /\ 1 + 1 = 2
    OBVIOUS
  <2> HIDE DEF c
  <2>2. Evaluate(c, x) = Poly(2, c, x)
    BY <2>1, EvaluateIsPoly
  <2> QED BY <2>1, <2>2 DEF Poly
<1> HIDE DEF t
<1>5. Summable(1 + 1, t)
  <2> SUFFICES ASSUME NEW k \in 1 .. 1 + 1
               PROVE  t[k] \in F
    BY DEF Summable
  <2>1. k = 1 \/ k = 2
    OBVIOUS
  <2> QED BY <1>3, <2>1
<1>6. SumOf(1 + 1, t) = Plus(SumOf(1, t), t[1 + 1])
  BY <1>5, SumOfNext
<1> QED BY <1>3, <1>4, <1>6, SumOfOne

(* Polynomials are added coefficient by coefficient. *)
LEMMA PolyPlus ==
  ASSUME NEW n \in Nat, NEW a, NEW b, NEW c, NEW x \in F, Summable(n, a), Summable(n, b),
         \A k \in 1 .. n : c[k] = Plus(a[k], b[k])
  PROVE  Poly(n, c, x) = Plus(Poly(n, a, x), Poly(n, b, x))
<1>1. ASSUME NEW k \in 1 .. n
      PROVE  PolyTerms(n, c, x)[k] = Plus(PolyTerms(n, a, x)[k], PolyTerms(n, b, x)[k])
  <2>1. a[k] \in F /\ b[k] \in F /\ k - 1 \in Nat
    BY DEF Summable
  <2>2. Times(Plus(a[k], b[k]), Power(x, k - 1)) =
          Plus(Times(a[k], Power(x, k - 1)), Times(b[k], Power(x, k - 1)))
    BY <2>1, PowerClosed, RightDistributes
  <2> QED BY <2>2 DEF PolyTerms
<1> QED BY <1>1, PolyTermsClosed, SumOfPlus DEF Poly

(* b has s zeros in front of the n coefficients of c. *)
MovedBy(s, n, b, c) ==
  /\ Summable(n, c)
  /\ \A k \in 1 .. s : b[k] = Zero
  /\ \A k \in 1 .. n : b[s + k] = c[k]

(* Zero coefficients in front multiply a polynomial by a power of x. *)
LEMMA PolyMoved ==
  ASSUME NEW s \in Nat, NEW n \in Nat, NEW b, NEW c, NEW x \in F, MovedBy(s, n, b, c)
  PROVE  Poly(s + n, b, x) = Times(Power(x, s), Poly(n, c, x))
<1>0. /\ Summable(n, c)
      /\ \A k \in 1 .. s : b[k] = Zero
      /\ \A k \in 1 .. n : b[s + k] = c[k]
  BY DEF MovedBy
<1> DEFINE moved == [k \in 1 .. n |-> Times(Power(x, s), PolyTerms(n, c, x)[k])]
<1>1. Power(x, s) \in F
  BY PowerClosed
<1>2. Summable(n, PolyTerms(n, c, x))
  BY <1>0, PolyTermsClosed
<1>3. \A k \in 1 .. n : moved[k] = Times(Power(x, s), PolyTerms(n, c, x)[k])
  OBVIOUS
<1>4. Summable(n, moved)
  BY <1>1, <1>2, Closed DEF Summable
<1> HIDE DEF moved
<1>5. SumOf(n, moved) = Times(Power(x, s), Poly(n, c, x))
  BY <1>1, <1>2, <1>3, SumOfTimes DEF Poly
<1>6. ASSUME NEW k \in 1 .. s
      PROVE  PolyTerms(s + n, b, x)[k] = Zero
  <2>1. k \in 1 .. s + n /\ k - 1 \in Nat
    OBVIOUS
  <2>2. Times(Zero, Power(x, k - 1)) = Zero
    BY <2>1, PowerClosed, FieldAssumption
  <2> QED BY <1>0, <2>1, <2>2 DEF PolyTerms
<1>7. ASSUME NEW k \in 1 .. n
      PROVE  PolyTerms(s + n, b, x)[s + k] = moved[k]
  <2>1. s + k \in 1 .. s + n /\ (s + k) - 1 = s + (k - 1) /\ k - 1 \in Nat
    OBVIOUS
  <2>2. c[k] \in F /\ Power(x, k - 1) \in F
    BY <1>0, <2>1, PowerClosed DEF Summable
  <2>3. PolyTerms(s + n, b, x)[s + k] = Times(c[k], Times(Power(x, s), Power(x, k - 1)))
    BY <1>0, <2>1, PowerPlus DEF PolyTerms
  <2>4. moved[k] = Times(Power(x, s), Times(c[k], Power(x, k - 1)))
    BY <1>3 DEF PolyTerms
  <2> QED BY <1>1, <2>2, <2>3, <2>4, Exchange
<1> QED BY <1>4, <1>5, <1>6, <1>7, SumOfMoved DEF Poly

(* Zero coefficients at the end change nothing. *)
LEMMA PolyExtended ==
  ASSUME NEW m \in Nat, NEW n \in Nat, m <= n, NEW b, NEW c, NEW x \in F, Summable(m, c),
         \A k \in 1 .. m : b[k] = c[k], \A k \in m + 1 .. n : b[k] = Zero
  PROVE  Poly(n, b, x) = Poly(m, c, x)
<1>1. \A k \in 1 .. m : PolyTerms(n, b, x)[k] = PolyTerms(m, c, x)[k]
  BY DEF PolyTerms
<1>2. ASSUME NEW k \in m + 1 .. n
      PROVE  PolyTerms(n, b, x)[k] = Zero
  <2>1. k \in 1 .. n /\ k - 1 \in Nat
    OBVIOUS
  <2>2. Times(Zero, Power(x, k - 1)) = Zero
    BY <2>1, PowerClosed, FieldAssumption
  <2> QED BY <2>1, <2>2 DEF PolyTerms
<1> QED BY <1>1, <1>2, PolyTermsClosed, SumOfExtended DEF Poly

(* c[1] + x (c[2] + c[3] x + ...). *)
LEMMA PolyFirst ==
  ASSUME NEW n \in Nat, NEW b, NEW c, NEW x \in F, Summable(n + 1, c),
         \A k \in 1 .. n : b[k] = c[k + 1]
  PROVE  Poly(n + 1, c, x) = Plus(c[1], Times(x, Poly(n, b, x)))
<1> DEFINE rest == [k \in 1 .. n |-> PolyTerms(n + 1, c, x)[k + 1]]
<1>1. Summable(n, b) /\ c[1] \in F
  BY DEF Summable
<1>2. \A k \in 1 .. n : rest[k] = PolyTerms(n + 1, c, x)[k + 1]
  OBVIOUS
<1>3. ASSUME NEW k \in 1 .. n
      PROVE  rest[k] = Times(x, PolyTerms(n, b, x)[k])
  <2>1. k + 1 \in 1 .. n + 1 /\ (k + 1) - 1 = (k - 1) + 1 /\ k - 1 \in Nat
    OBVIOUS
  <2>2. Power(x, (k - 1) + 1) = Times(Power(x, k - 1), x) /\ Power(x, k - 1) \in F
    BY <2>1, PowerNext, PowerClosed
  <2>3. b[k] = c[k + 1] /\ b[k] \in F
    BY <1>1 DEF Summable
  <2>4. rest[k] = Times(b[k], Times(Power(x, k - 1), x))
    BY <2>1, <2>2, <2>3 DEF PolyTerms
  <2>5. Times(b[k], Times(Power(x, k - 1), x)) = Times(Times(b[k], Power(x, k - 1)), x)
    BY <2>2, <2>3, Associates
  <2>6. Times(b[k], Power(x, k - 1)) \in F
    BY <2>2, <2>3, Closed
  <2>7. Times(Times(b[k], Power(x, k - 1)), x) = Times(x, Times(b[k], Power(x, k - 1)))
    BY <2>6, Closed
  <2> QED BY <2>4, <2>5, <2>7 DEF PolyTerms
<1> HIDE DEF rest
<1>4. SumOf(n, rest) = Times(x, Poly(n, b, x))
  BY <1>1, <1>3, PolyTermsClosed, SumOfTimes DEF Poly
<1>5. Poly(n + 1, c, x) = Plus(PolyTerms(n + 1, c, x)[1], SumOf(n, rest))
  BY <1>2, PolyTermsClosed, SumOfFirst DEF Poly
<1>6. PolyTerms(n + 1, c, x)[1] = c[1]
  <2>1. 1 \in 1 .. n + 1
    OBVIOUS
  <2>2. Times(c[1], Power(x, 0)) = c[1]
    BY <1>1, PowerZero, FieldAssumption
  <2> QED BY <2>1, <2>2 DEF PolyTerms
<1> QED BY <1>4, <1>5, <1>6

(* c[1] + ... + c[n] x^(n - 1), and then c[n + 1] x^n. *)
LEMMA PolyLast ==
  ASSUME NEW n \in Nat, NEW c, NEW x \in F, Summable(n + 1, c)
  PROVE  Poly(n + 1, c, x) = Plus(Poly(n, c, x), Times(c[n + 1], Power(x, n)))
<1>1. Summable(n, c)
  BY DEF Summable
<1>2. \A k \in 1 .. n : PolyTerms(n + 1, c, x)[k] = PolyTerms(n, c, x)[k]
  BY DEF PolyTerms
<1>3. SumOf(n, PolyTerms(n + 1, c, x)) = SumOf(n, PolyTerms(n, c, x))
  BY <1>1, <1>2, PolyTermsClosed, SumOfAgrees
<1>4. PolyTerms(n + 1, c, x)[n + 1] = Times(c[n + 1], Power(x, n))
  BY DEF PolyTerms
<1> QED BY <1>3, <1>4, PolyTermsClosed, SumOfNext DEF Poly

(* Aligned moves the coefficients up and keeps them in the field. *)
LEMMA AlignedClosed ==
  ASSUME NEW c \in Seq(F), NEW n \in Nat
  PROVE  Aligned(c, n) \in [1 .. n -> F]
<1> SUFFICES ASSUME NEW k \in 1 .. n
             PROVE  (IF k <= n - Len(c) THEN Zero ELSE c[k - (n - Len(c))]) \in F
  BY DEF Aligned
<1>1. CASE k <= n - Len(c)
  BY <1>1, FieldAssumption
<1>2. CASE ~(k <= n - Len(c))
  <2>1. Len(c) \in Nat
    OBVIOUS
  <2>2. k - (n - Len(c)) \in 1 .. Len(c)
    BY <1>2, <2>1
  <2> QED BY <1>2, <2>2, ElementOfSeq
<1> QED BY <1>1, <1>2

(* It multiplies the polynomial by the missing power: backend.rs, the
   alignment of the lower degree. *)
LEMMA AlignedEvaluates ==
  ASSUME NEW c \in Seq(F), NEW n \in Nat, Len(c) <= n, NEW x \in F
  PROVE  Poly(n, Aligned(c, n), x) = Times(Evaluate(c, x), Power(x, n - Len(c)))
<1> DEFINE m == Len(c)
           s == n - Len(c)
           a == Aligned(c, n)
<1>1. m \in Nat /\ s \in Nat /\ s + m = n
  OBVIOUS
<1>2. \A k \in 1 .. s : a[k] = Zero
  BY <1>1 DEF Aligned
<1>3. \A k \in 1 .. m : a[s + k] = c[k]
  BY <1>1 DEF Aligned
<1>4. Summable(m, c)
  BY SequenceSummable
<1> HIDE DEF m, s, a
<1>5. Poly(s + m, a, x) = Times(Power(x, s), Poly(m, c, x))
  <2>1. MovedBy(s, m, a, c)
    BY ONLY <1>2, <1>3, <1>4 DEF MovedBy
  <2> QED BY <1>1, <2>1, PolyMoved
<1>6. Power(x, s) \in F /\ Poly(m, c, x) \in F
  BY <1>1, <1>4, PowerClosed, PolyTermsClosed
<1>7. Poly(s + m, a, x) = Times(Poly(m, c, x), Power(x, s))
  BY <1>5, <1>6, Closed
<1> QED BY <1>1, <1>7, EvaluateIsPoly DEF m, s, a

(* The values at x of n polynomials with m coefficients each. *)
PolyValues(m, n, a, x) == [k \in 1 .. n |-> Poly(m, a[k], x)]

(* A weighted sum of polynomials is the polynomial of the weighted sums. *)
LEMMA WeightedPoly ==
  ASSUME NEW m \in Nat, NEW n \in Nat, NEW w, Summable(n, w), NEW a, NEW b, NEW x \in F,
         \A k \in 1 .. n : Summable(m, a[k]),
         \A i \in 1 .. m : b[i] = Weighted(n, w, Column(n, a, i))
  PROVE  Summable(m, b) /\ Poly(m, b, x) = Weighted(n, w, PolyValues(m, n, a, x))
<1> DEFINE t == [i \in 1 .. m |-> [k \in 1 .. n |-> Times(w[k], PolyTerms(m, a[k], x)[i])]]
           coefficient(i) == [k \in 1 .. n |-> a[k][i]]
           polys == [k \in 1 .. n |-> Poly(m, a[k], x)]
           wp == [k \in 1 .. n |-> Times(w[k], polys[k])]
<1>1. \A k \in 1 .. n : Summable(m, PolyTerms(m, a[k], x)) /\ Poly(m, a[k], x) \in F
  BY PolyTermsClosed
<1>2. \A i \in 1 .. m, k \in 1 .. n : t[i][k] \in F
  <2> SUFFICES ASSUME NEW i \in 1 .. m, NEW k \in 1 .. n
               PROVE  Times(w[k], PolyTerms(m, a[k], x)[i]) \in F
    OBVIOUS
  <2>1. w[k] \in F /\ PolyTerms(m, a[k], x)[i] \in F
    BY <1>1 DEF Summable
  <2> QED BY <2>1, Closed
<1>3. ASSUME NEW i \in 1 .. m
      PROVE  b[i] \in F /\ RowSums(m, n, t)[i] = PolyTerms(m, b, x)[i]
  <2>1. Summable(n, coefficient(i)) /\ b[i] = Weighted(n, w, coefficient(i))
    BY DEF Summable, Column
  <2>2. i - 1 \in Nat /\ Power(x, i - 1) \in F
    BY PowerClosed
  <2>3. RowSums(m, n, t)[i] = SumOf(n, Row(n, t, i))
    BY DEF RowSums
  <2> DEFINE wc == [k \in 1 .. n |-> Times(w[k], coefficient(i)[k])]
             row == Row(n, t, i)
  <2>4. ASSUME NEW k \in 1 .. n
        PROVE  row[k] = Times(Power(x, i - 1), wc[k]) /\ wc[k] \in F
    <3>1. row[k] = Times(w[k], Times(a[k][i], Power(x, i - 1))) /\ wc[k] = Times(w[k], a[k][i])
      BY DEF Row, PolyTerms
    <3>2. w[k] \in F /\ a[k][i] \in F
      BY DEF Summable
    <3>3. /\ Times(w[k], a[k][i]) \in F
          /\ Times(w[k], Times(a[k][i], Power(x, i - 1))) =
               Times(Times(w[k], a[k][i]), Power(x, i - 1))
      <4> DEFINE p == w[k]
                 q == a[k][i]
                 r == Power(x, i - 1)
      <4>1. p \in F /\ q \in F /\ r \in F
        BY <2>2, <3>2
      <4> HIDE DEF p, q, r
      <4>2. Times(p, q) \in F /\ Times(p, Times(q, r)) = Times(Times(p, q), r)
        BY <4>1, Associates, Closed
      <4> QED BY <4>2 DEF p, q, r
    <3>4. Times(Times(w[k], a[k][i]), Power(x, i - 1)) =
            Times(Power(x, i - 1), Times(w[k], a[k][i]))
      BY <2>2, <3>3, Closed
    <3> QED BY <3>1, <3>3, <3>4
  <2>5. Weighted(n, w, coefficient(i)) = SumOf(n, wc)
    BY DEF Weighted
  <2>6. PolyTerms(m, b, x)[i] = Times(b[i], Power(x, i - 1))
    BY DEF PolyTerms
  <2> HIDE DEF wc, row, coefficient, t
  <2>7. Summable(n, wc)
    BY <2>4 DEF Summable
  <2>8. SumOf(n, row) = Times(Power(x, i - 1), SumOf(n, wc)) /\ SumOf(n, wc) \in F
    BY <2>2, <2>4, <2>7, SumOfTimes, SumOfClosed
  <2>9. SumOf(n, row) = Times(SumOf(n, wc), Power(x, i - 1))
    BY <2>2, <2>8, Closed
  <2> QED BY <2>1, <2>3, <2>5, <2>6, <2>8, <2>9 DEF row
<1>4. ASSUME NEW k \in 1 .. n
      PROVE  ColumnSums(m, n, t)[k] = wp[k]
  <2>1. ColumnSums(m, n, t)[k] = SumOf(m, Column(m, t, k))
    BY DEF ColumnSums
  <2>2. \A i \in 1 .. m : Column(m, t, k)[i] = Times(w[k], PolyTerms(m, a[k], x)[i])
    BY DEF Column
  <2>3. w[k] \in F
    BY DEF Summable
  <2> HIDE DEF t
  <2>4. SumOf(m, Column(m, t, k)) = Times(w[k], Poly(m, a[k], x))
    BY <1>1, <2>2, <2>3, SumOfTimes DEF Poly
  <2> QED BY <2>1, <2>4
<1>5. Summable(m, b)
  BY <1>3 DEF Summable
<1>6. Summable(n, polys)
  BY <1>1 DEF Summable
<1> HIDE DEF t, polys
<1>7. SumOf(m, RowSums(m, n, t)) = Poly(m, b, x)
  BY <1>3, <1>5, PolyTermsClosed, SumOfAgrees DEF Poly
<1>8. Summable(n, wp)
  BY <1>6, WeightedClosed
<1> HIDE DEF wp
<1>9. SumOf(n, ColumnSums(m, n, t)) = SumOf(n, wp)
  BY <1>4, <1>8, SumOfAgrees
<1>10. SumOf(m, RowSums(m, n, t)) = SumOf(n, ColumnSums(m, n, t))
  BY <1>2, SumOfSwapped
<1>11. Weighted(n, w, polys) = SumOf(n, wp)
  BY DEF Weighted, wp
<1> QED BY <1>5, <1>7, <1>9, <1>10, <1>11 DEF polys, PolyValues
-----------------------------------------------------------------------------
(***************************************************************************)
(* Products of polynomials.                                                *)
(***************************************************************************)

(* The contribution of p[i] to coefficient k of the product of p and q. *)
ProductTerm(p, q, i, k) ==
  IF k + 1 - i \in 1 .. Len(q) THEN Times(p[i], q[k + 1 - i]) ELSE Zero

(* p[i] times q, moved up by i - 1. *)
LEMMA ProductRow ==
  ASSUME NEW p \in Seq(F), NEW q \in Seq(F), NEW x \in F, NEW i \in 1 .. Len(p),
         NEW n \in Nat, i - 1 + Len(q) <= n,
         NEW row, \A k \in 1 .. n : row[k] = ProductTerm(p, q, i, k)
  PROVE  Poly(n, row, x) = Times(Times(p[i], Power(x, i - 1)), Evaluate(q, x))
<1> DEFINE s == i - 1
           l == Len(q)
           scaled == [k \in 1 .. l |-> Times(p[i], q[k])]
<1>1. s \in Nat /\ l \in Nat /\ s + l \in Nat /\ s + l <= n /\ p[i] \in F /\ Summable(l, q)
  BY ElementOfSeq, SequenceSummable
<1>2. \A k \in 1 .. s : row[k] = Zero
  BY <1>1 DEF ProductTerm
<1>3. \A k \in 1 .. l : row[s + k] = scaled[k]
  <2> SUFFICES ASSUME NEW k \in 1 .. l
               PROVE  row[s + k] = Times(p[i], q[k])
    OBVIOUS
  <2>1. s + k \in 1 .. n /\ (s + k) + 1 - i = k
    BY <1>1
  <2> QED BY <2>1 DEF ProductTerm
<1>4. \A k \in s + l + 1 .. n : row[k] = Zero
  <2> SUFFICES ASSUME NEW k \in s + l + 1 .. n
               PROVE  row[k] = Zero
    OBVIOUS
  <2>1. k \in 1 .. n /\ k + 1 - i \notin 1 .. l
    BY <1>1
  <2> QED BY <2>1 DEF ProductTerm
<1>5. Summable(l, scaled)
  BY <1>1, Closed DEF Summable
<1>6. Poly(l, scaled, x) = Times(p[i], Poly(l, q, x))
  <2>1. ASSUME NEW k \in 1 .. l
        PROVE  PolyTerms(l, scaled, x)[k] = Times(p[i], PolyTerms(l, q, x)[k])
    <3>1. k - 1 \in Nat /\ q[k] \in F /\ p[i] \in F
      BY <1>1 DEF Summable
    <3>2. Power(x, k - 1) \in F
      BY <3>1, PowerClosed
    <3>3. Times(Times(p[i], q[k]), Power(x, k - 1)) = Times(p[i], Times(q[k], Power(x, k - 1)))
      BY <3>1, <3>2, Associates
    <3> QED BY <3>3 DEF PolyTerms
  <2> HIDE DEF scaled, l
  <2>2. Summable(l, PolyTerms(l, q, x))
    BY <1>1, PolyTermsClosed
  <2>3. SumOf(l, PolyTerms(l, scaled, x)) = Times(p[i], SumOf(l, PolyTerms(l, q, x)))
    BY ONLY <1>1, <2>1, <2>2, SumOfTimes
  <2> QED BY <2>3 DEF Poly
<1> HIDE DEF scaled
<1>7. Poly(s + l, row, x) = Times(Power(x, s), Poly(l, scaled, x))
  <2> HIDE DEF s, l
  <2>1. s \in Nat /\ l \in Nat /\ x \in F
    BY <1>1
  <2>2. MovedBy(s, l, row, scaled)
    BY ONLY <1>2, <1>3, <1>5 DEF MovedBy
  <2> QED BY ONLY <2>1, <2>2, PolyMoved
<1>8. Summable(s + l, row)
  <2> SUFFICES ASSUME NEW k \in 1 .. s + l
               PROVE  row[k] \in F
    BY DEF Summable
  <2>1. CASE k \in 1 .. s
    BY <1>2, <2>1, FieldAssumption
  <2>2. CASE k \notin 1 .. s
    <3>1. k - s \in 1 .. l /\ s + (k - s) = k
      BY <1>1, <2>2
    <3> QED BY <1>3, <1>5, <3>1 DEF Summable
  <2> QED BY <2>1, <2>2
<1>9. Poly(n, row, x) = Poly(s + l, row, x)
  <2> HIDE DEF s, l
  <2> QED BY <1>1, <1>4, <1>8, PolyExtended
<1>10. Times(Power(x, s), Times(p[i], Poly(l, q, x))) =
         Times(Times(p[i], Power(x, s)), Poly(l, q, x))
  <2>1. Power(x, s) \in F /\ Poly(l, q, x) \in F
    BY <1>1, PowerClosed, PolyTermsClosed
  <2>2. Times(Power(x, s), Times(p[i], Poly(l, q, x))) =
          Times(p[i], Times(Power(x, s), Poly(l, q, x)))
    BY <1>1, <2>1, Exchange
  <2> QED BY <1>1, <2>1, <2>2, Associates
<1> QED BY <1>6, <1>7, <1>9, <1>10, EvaluateIsPoly

(* The coefficients that multiply out the product evaluate to the product:
   backend.rs, the convolution of two expressions. *)
LEMMA ProductEvaluates ==
  ASSUME NEW p \in Seq(F), NEW q \in Seq(F), NEW x \in F, NEW n \in Nat,
         Len(p) + Len(q) <= n + 1,
         NEW r,
         \A k \in 1 .. n : r[k] = SumOf(Len(p), [i \in 1 .. Len(p) |-> ProductTerm(p, q, i, k)])
  PROVE  Summable(n, r) /\ Poly(n, r, x) = Times(Evaluate(p, x), Evaluate(q, x))
<1> DEFINE m == Len(p)
           Prod(k) == [i \in 1 .. m |-> ProductTerm(p, q, i, k)]
           row(i) == [k \in 1 .. n |-> ProductTerm(p, q, i, k)]
           t == [i \in 1 .. m |-> PolyTerms(n, row(i), x)]
<1>1. m \in Nat /\ Summable(m, p) /\ Len(q) \in Nat /\ Summable(Len(q), q) /\ Evaluate(q, x) \in F
  BY SequenceSummable, EvaluateClosed
<1>2. \A i \in 1 .. m, k \in 1 .. n : ProductTerm(p, q, i, k) \in F
  <2> SUFFICES ASSUME NEW i \in 1 .. m, NEW k \in 1 .. n
               PROVE  ProductTerm(p, q, i, k) \in F
    OBVIOUS
  <2>1. CASE k + 1 - i \in 1 .. Len(q)
    <3>1. p[i] \in F /\ q[k + 1 - i] \in F
      BY <1>1, <2>1 DEF Summable
    <3> QED BY <2>1, <3>1, Closed DEF ProductTerm
  <2>2. CASE k + 1 - i \notin 1 .. Len(q)
    BY <2>2, FieldAssumption DEF ProductTerm
  <2> QED BY <2>1, <2>2
<1>3. \A k \in 1 .. n : Summable(m, Prod(k)) /\ r[k] = SumOf(m, Prod(k)) /\ r[k] \in F
  <2> SUFFICES ASSUME NEW k \in 1 .. n
               PROVE  Summable(m, Prod(k)) /\ r[k] = SumOf(m, Prod(k)) /\ r[k] \in F
    OBVIOUS
  <2>1. Summable(m, Prod(k))
    BY <1>2 DEF Summable
  <2>2. r[k] = SumOf(m, Prod(k))
    OBVIOUS
  <2> HIDE DEF Prod, m
  <2> QED BY <1>1, <2>1, <2>2, SumOfClosed
<1>4. ASSUME NEW i \in 1 .. m
      PROVE  /\ Summable(n, row(i)) /\ Summable(n, PolyTerms(n, row(i), x))
             /\ SumOf(n, Row(n, t, i)) = Times(PolyTerms(m, p, x)[i], Evaluate(q, x))
  <2>1. Summable(n, row(i))
    BY <1>2 DEF Summable
  <2>2. i - 1 + Len(q) <= n /\ \A k \in 1 .. n : row(i)[k] = ProductTerm(p, q, i, k)
    BY <1>1
  <2>3. \A k \in 1 .. n : Row(n, t, i)[k] = PolyTerms(n, row(i), x)[k]
    BY DEF Row
  <2>4. PolyTerms(m, p, x)[i] = Times(p[i], Power(x, i - 1))
    BY DEF PolyTerms
  <2> HIDE DEF row, t
  <2>5. Summable(n, PolyTerms(n, row(i), x))
    BY <2>1, PolyTermsClosed
  <2>6. SumOf(n, Row(n, t, i)) = Poly(n, row(i), x)
    BY <2>3, <2>5, SumOfAgrees DEF Poly
  <2>7. Poly(n, row(i), x) = Times(Times(p[i], Power(x, i - 1)), Evaluate(q, x))
    BY <2>2, ProductRow
  <2> QED BY <2>1, <2>4, <2>5, <2>6, <2>7
<1>5. \A i \in 1 .. m, k \in 1 .. n : t[i][k] = PolyTerms(n, row(i), x)[k] /\ t[i][k] \in F
  BY <1>4 DEF Summable
<1>6. SumOf(m, RowSums(m, n, t)) = Times(Evaluate(p, x), Evaluate(q, x))
  <2>1. \A i \in 1 .. m : RowSums(m, n, t)[i] = Times(Evaluate(q, x), PolyTerms(m, p, x)[i])
    <3> SUFFICES ASSUME NEW i \in 1 .. m
                 PROVE  RowSums(m, n, t)[i] = Times(Evaluate(q, x), PolyTerms(m, p, x)[i])
      OBVIOUS
    <3>1. RowSums(m, n, t)[i] = SumOf(n, Row(n, t, i))
      BY DEF RowSums
    <3>2. PolyTerms(m, p, x)[i] \in F
      BY <1>1, PolyTermsClosed DEF Summable
    <3> QED BY <1>1, <1>4, <3>1, <3>2, Closed
  <2> HIDE DEF t, m
  <2>2. Summable(m, PolyTerms(m, p, x)) /\ Poly(m, p, x) \in F
    BY <1>1, PolyTermsClosed
  <2>3. SumOf(m, RowSums(m, n, t)) = Times(Evaluate(q, x), Poly(m, p, x))
    BY <1>1, <2>1, <2>2, SumOfTimes DEF Poly
  <2> QED BY <1>1, <2>2, <2>3, Closed, EvaluateIsPoly DEF m
<1>7. \A k \in 1 .. n : ColumnSums(m, n, t)[k] = PolyTerms(n, r, x)[k]
  <2> SUFFICES ASSUME NEW k \in 1 .. n
               PROVE  ColumnSums(m, n, t)[k] = PolyTerms(n, r, x)[k]
    OBVIOUS
  <2>1. ColumnSums(m, n, t)[k] = SumOf(m, Column(m, t, k))
    BY DEF ColumnSums
  <2>2. k - 1 \in Nat /\ Power(x, k - 1) \in F
    BY PowerClosed
  <2>3. ASSUME NEW i \in 1 .. m
        PROVE  Column(m, t, k)[i] = Times(Power(x, k - 1), Prod(k)[i])
    <3>1. Column(m, t, k)[i] = Times(row(i)[k], Power(x, k - 1))
      BY <1>5 DEF Column, PolyTerms
    <3>2. row(i)[k] = Prod(k)[i] /\ Prod(k)[i] \in F
      BY <1>2
    <3> QED BY <2>2, <3>1, <3>2, Closed
  <2>4. Summable(m, Prod(k)) /\ r[k] = SumOf(m, Prod(k)) /\ r[k] \in F
    BY <1>3
  <2> HIDE DEF Prod, t, m, row
  <2>5. SumOf(m, Column(m, t, k)) = Times(Power(x, k - 1), r[k])
    <3> DEFINE b == Prod(k)
               col == Column(m, t, k)
               y == Power(x, k - 1)
    <3>a. m \in Nat /\ y \in F /\ Summable(m, b) /\ \A i \in 1 .. m : col[i] = Times(y, b[i])
      BY <1>1, <2>2, <2>3, <2>4
    <3>1. SumOf(m, col) = Times(y, SumOf(m, b))
      <4> HIDE DEF b, col, y
      <4> QED BY ONLY <3>a, SumOfTimes
    <3> QED BY <2>4, <3>1
  <2> QED BY <2>1, <2>2, <2>4, <2>5, Closed DEF PolyTerms
<1>8. Summable(n, r)
  BY <1>3 DEF Summable
<1> HIDE DEF t, Prod, row
<1>9. SumOf(m, RowSums(m, n, t)) = SumOf(n, ColumnSums(m, n, t))
  <2> HIDE DEF m
  <2> QED BY <1>1, <1>5, SumOfSwapped
<1>10. SumOf(n, ColumnSums(m, n, t)) = Poly(n, r, x)
  <2> HIDE DEF m
  <2> QED BY <1>7, <1>8, PolyTermsClosed, SumOfAgrees DEF Poly
<1> QED BY <1>6, <1>8, <1>9, <1>10
-----------------------------------------------------------------------------
(***************************************************************************)
(* Roots.                                                                  *)
(***************************************************************************)

(* A polynomial of one coefficient is that coefficient. *)
LEMMA PolyOne ==
  ASSUME NEW c, c[1] \in F, NEW x \in F
  PROVE  Poly(1, c, x) = c[1]
<1> DEFINE none == [k \in 1 .. 0 |-> Zero]
<1>1. Summable(0 + 1, c)
  BY DEF Summable
<1>2. \A k \in 1 .. 0 : none[k] = c[k + 1]
  OBVIOUS
<1> HIDE DEF none
<1>3. Poly(0 + 1, c, x) = Plus(c[1], Times(x, Poly(0, none, x)))
  BY <1>1, <1>2, PolyFirst
<1>4. Poly(0, none, x) = Zero
  BY SumOfEmpty DEF Poly
<1>5. Plus(c[1], Times(x, Zero)) = c[1]
  BY FieldAssumption
<1> QED BY <1>3, <1>4, <1>5

(* x ((x + r) q + b) = (x + r) (b + x q) + r b. *)
LEMMA DivisionStep ==
  ASSUME NEW x \in F, NEW r \in F, NEW q \in F, NEW b \in F
  PROVE  Times(x, Plus(Times(Plus(x, r), q), b)) =
           Plus(Times(Plus(x, r), Plus(b, Times(x, q))), Times(r, b))
<1> DEFINE u == Times(x, Times(Plus(x, r), q))
           v == Times(x, b)
           w == Times(r, b)
<1>1. /\ Plus(x, r) \in F /\ Times(Plus(x, r), q) \in F /\ u \in F /\ v \in F /\ w \in F
      /\ Times(x, q) \in F
  BY Closed
<1>2. Times(x, Plus(Times(Plus(x, r), q), b)) = Plus(u, v)
  BY <1>1, Distributes
<1>3. Times(Plus(x, r), Times(x, q)) = u
  BY <1>1, Exchange
<1>4. Times(Plus(x, r), b) = Plus(v, w)
  BY RightDistributes
<1>5. Times(Plus(x, r), Plus(b, Times(x, q))) = Plus(Plus(v, w), u)
  BY <1>1, <1>3, <1>4, Distributes
<1> HIDE DEF u, v, w
<1>6. Plus(Plus(Plus(v, w), u), w) = Plus(u, v)
  <2>1. Plus(Plus(v, w), u) = Plus(Plus(u, v), w)
    BY <1>1, Closed, SumAssociates
  <2>2. Plus(Plus(Plus(u, v), w), w) = Plus(Plus(u, v), Plus(w, w))
    BY <1>1, Closed, SumAssociates
  <2>3. Plus(w, w) = Zero /\ Plus(u, v) \in F
    BY <1>1, FieldAssumption
  <2>4. Plus(Plus(u, v), Zero) = Plus(u, v)
    BY <2>3, FieldAssumption
  <2> QED BY <2>1, <2>2, <2>3, <2>4
<1> QED BY <1>2, <1>5, <1>6 DEF w

(* q is the quotient of c by x + r: it has the leading coefficient of c,
   and what remains is the value of c at r. *)
Quotient(n, c, r, q) ==
  /\ n > 0 => q[n] = c[n + 1]
  /\ \A x \in F : Poly(n + 1, c, x) = Plus(Times(Plus(x, r), Poly(n, q, x)), Poly(n + 1, c, r))

(* Every polynomial can be divided by every linear factor. *)
LEMMA Divided ==
  ASSUME NEW n \in Nat, NEW r \in F
  PROVE  \A c \in [1 .. n + 1 -> F] : \E q \in [1 .. n -> F] : Quotient(n, c, r, q)
<1> DEFINE T == {i \in Nat : \A c \in [1 .. i + 1 -> F] :
                   \E q \in [1 .. i -> F] : Quotient(i, c, r, q)}
<1>1. 0 \in T
  <2> SUFFICES ASSUME NEW c \in [1 .. 0 + 1 -> F]
               PROVE  \E q \in [1 .. 0 -> F] : Quotient(0, c, r, q)
    OBVIOUS
  <2> DEFINE q == [k \in 1 .. 0 |-> Zero]
  <2>1. q \in [1 .. 0 -> F] /\ c[1] \in F
    OBVIOUS
  <2> HIDE DEF q
  <2>2. ASSUME NEW x \in F
        PROVE  Poly(1, c, x) = Plus(Times(Plus(x, r), Poly(0, q, x)), Poly(1, c, r))
    <3>1. Poly(1, c, x) = c[1] /\ Poly(1, c, r) = c[1]
      BY <2>1, PolyOne
    <3>2. Poly(0, q, x) = Zero
      BY SumOfEmpty DEF Poly
    <3>3. Times(Plus(x, r), Zero) = Zero
      BY FieldAssumption
    <3>4. Plus(Zero, c[1]) = c[1]
      BY <2>1, FieldAssumption
    <3> QED BY <3>1, <3>2, <3>3, <3>4
  <2>3. Quotient(0, c, r, q)
    BY <2>2 DEF Quotient
  <2> QED BY <2>1, <2>3
<1>2. ASSUME NEW i \in Nat, i \in T
      PROVE  i + 1 \in T
  <2> SUFFICES ASSUME NEW c \in [1 .. (i + 1) + 1 -> F]
               PROVE  \E q \in [1 .. i + 1 -> F] : Quotient(i + 1, c, r, q)
    OBVIOUS
  <2> DEFINE b == [k \in 1 .. i + 1 |-> c[k + 1]]
  <2>1. /\ b \in [1 .. i + 1 -> F] /\ Summable((i + 1) + 1, c) /\ Summable(i + 1, b)
        /\ c[1] \in F
    BY DEF Summable
  <2>2. PICK q \in [1 .. i -> F] : Quotient(i, b, r, q)
    BY <1>2, <2>1
  <2>3. b[i + 1] = c[(i + 1) + 1] /\ \A k \in 1 .. i + 1 : b[k] = c[k + 1]
    OBVIOUS
  <2> HIDE DEF b
  <2> DEFINE value == Poly(i + 1, b, r)
             p == [k \in 1 .. i + 1 |-> IF k = 1 THEN value ELSE q[k - 1]]
  <2>4. value \in F
    BY <2>1, PolyTermsClosed
  <2>5. p \in [1 .. i + 1 -> F] /\ Summable(i + 1, p) /\ p[1] = value
    BY <2>4 DEF Summable
  <2>6. \A k \in 1 .. i : q[k] = p[k + 1]
    OBVIOUS
  <2>7. p[i + 1] = c[(i + 1) + 1]
    <3>1. CASE i = 0
      <4>1. value = b[1]
        BY <2>1, <3>1, PolyOne DEF Summable
      <4> QED BY <2>3, <2>5, <3>1, <4>1
    <3>2. CASE i # 0
      <4>1. p[i + 1] = q[i] /\ i > 0
        BY <3>2
      <4> QED BY <2>2, <2>3, <4>1 DEF Quotient
    <3> QED BY <3>1, <3>2
  <2> HIDE DEF p
  <2>8. ASSUME NEW x \in F
        PROVE  Poly((i + 1) + 1, c, x) =
                 Plus(Times(Plus(x, r), Poly(i + 1, p, x)), Poly((i + 1) + 1, c, r))
    <3>1. \A y \in F : Poly((i + 1) + 1, c, y) = Plus(c[1], Times(y, Poly(i + 1, b, y)))
      BY <2>1, <2>3, PolyFirst
    <3>2. Poly(i + 1, p, x) = Plus(value, Times(x, Poly(i, q, x)))
      BY <2>5, <2>6, PolyFirst
    <3>3. Poly(i + 1, b, x) = Plus(Times(Plus(x, r), Poly(i, q, x)), value)
      BY <2>2 DEF Quotient
    <3>4. Poly(i, q, x) \in F
      BY PolyTermsClosed DEF Summable
    <3>5. Times(x, Poly(i + 1, b, x)) =
            Plus(Times(Plus(x, r), Poly(i + 1, p, x)), Times(r, value))
      <4> HIDE DEF value
      <4> QED BY <2>4, <3>2, <3>3, <3>4, DivisionStep
    <3>6. Times(Plus(x, r), Poly(i + 1, p, x)) \in F /\ Times(r, value) \in F
      BY <2>4, <2>5, PolyTermsClosed, Closed
    <3>7. Plus(c[1], Plus(Times(Plus(x, r), Poly(i + 1, p, x)), Times(r, value))) =
            Plus(Times(Plus(x, r), Poly(i + 1, p, x)), Plus(c[1], Times(r, value)))
      <4> DEFINE u == Times(Plus(x, r), Poly(i + 1, p, x))
                 v == Times(r, value)
      <4>1. u \in F /\ v \in F /\ c[1] \in F
        BY <2>1, <3>6
      <4> HIDE DEF u, v
      <4>2. /\ Plus(c[1], Plus(u, v)) = Plus(Plus(c[1], u), v)
            /\ Plus(u, Plus(c[1], v)) = Plus(Plus(u, c[1]), v)
        BY <4>1, SumAssociates
      <4>3. Plus(c[1], u) = Plus(u, c[1])
        BY <4>1, Closed
      <4> QED BY <4>2, <4>3 DEF u, v
    <3> QED BY <3>1, <3>5, <3>7
  <2>9. Quotient(i + 1, c, r, p)
    BY <2>7, <2>8 DEF Quotient
  <2> QED BY <2>5, <2>9
<1> HIDE DEF T
<1>3. n \in T
  BY <1>1, <1>2, NumbersInductive
<1> QED BY <1>3 DEF T

Roots(n, c) == {x \in F : Poly(n + 1, c, x) = Zero}

(* A polynomial of degree n has at most n roots. *)
LEMMA RootBound ==
  ASSUME NEW n \in Nat
  PROVE  \A c \in [1 .. n + 1 -> F] : c[n + 1] # Zero =>
           IsFiniteSet(Roots(n, c)) /\ Cardinality(Roots(n, c)) <= n
<1> DEFINE Bounded(i, c) == IsFiniteSet(Roots(i, c)) /\ Cardinality(Roots(i, c)) <= i
           T == {i \in Nat : \A c \in [1 .. i + 1 -> F] : c[i + 1] # Zero => Bounded(i, c)}
<1>1. 0 \in T
  <2> SUFFICES ASSUME NEW c \in [1 .. 0 + 1 -> F], c[0 + 1] # Zero
               PROVE  Bounded(0, c)
    OBVIOUS
  <2>1. \A x \in F : Poly(1, c, x) # Zero
    BY PolyOne
  <2>2. Roots(0, c) = {}
    BY <2>1 DEF Roots
  <2> QED BY <2>2, FS_EmptySet
<1>2. ASSUME NEW i \in Nat, i \in T
      PROVE  i + 1 \in T
  <2> SUFFICES ASSUME NEW c \in [1 .. (i + 1) + 1 -> F], c[(i + 1) + 1] # Zero
               PROVE  Bounded(i + 1, c)
    OBVIOUS
  <2>1. CASE Roots(i + 1, c) = {}
    BY <2>1, FS_EmptySet
  <2>2. CASE Roots(i + 1, c) # {}
    <3>1. PICK r \in F : Poly((i + 1) + 1, c, r) = Zero
      BY <2>2 DEF Roots
    <3>2. PICK q \in [1 .. i + 1 -> F] : Quotient(i + 1, c, r, q)
      BY Divided
    <3>3. q[i + 1] # Zero
      BY <3>2 DEF Quotient
    <3>4. IsFiniteSet(Roots(i, q)) /\ Cardinality(Roots(i, q)) <= i
      BY <1>2, <3>3
    <3>5. Roots(i + 1, c) \subseteq Roots(i, q) \cup {r}
      <4> SUFFICES ASSUME NEW x \in F, Poly((i + 1) + 1, c, x) = Zero, x # r
                   PROVE  Poly(i + 1, q, x) = Zero
        BY DEF Roots
      <4>1. Poly(i + 1, q, x) \in F /\ Plus(x, r) \in F
        BY PolyTermsClosed, Closed DEF Summable
      <4>2. Zero = Plus(Times(Plus(x, r), Poly(i + 1, q, x)), Zero)
        BY <3>1, <3>2 DEF Quotient
      <4>3. Times(Plus(x, r), Poly(i + 1, q, x)) = Zero
        BY <4>1, <4>2, Closed, FieldAssumption
      <4>4. Plus(x, r) # Zero
        <5> SUFFICES ASSUME Plus(x, r) = Zero
                     PROVE  FALSE
          OBVIOUS
        <5>1. Plus(x, Plus(r, r)) = Plus(Zero, r)
          BY SumAssociates
        <5>2. /\ Plus(r, r) = Zero /\ Plus(x, Zero) = x
              /\ Plus(Zero, r) = Plus(r, Zero) /\ Plus(r, Zero) = r
          BY FieldAssumption
        <5> QED BY <5>1, <5>2
      <4> QED BY <4>1, <4>3, <4>4, FieldAssumption
    <3>6. /\ IsFiniteSet(Roots(i, q) \cup {r})
          /\ Cardinality(Roots(i, q) \cup {r}) <= Cardinality(Roots(i, q)) + 1
          /\ Cardinality(Roots(i, q)) \in Nat
      <4> DEFINE S == Roots(i, q)
      <4>1. IsFiniteSet(S)
        BY <3>4
      <4> HIDE DEF S
      <4>2. Cardinality(S) \in Nat
        BY <4>1, FS_CardinalityType
      <4>3. /\ IsFiniteSet(S \cup {r})
            /\ Cardinality(S \cup {r}) = IF r \in S THEN Cardinality(S) ELSE Cardinality(S) + 1
        BY ONLY <4>1, FS_AddElement
      <4> QED BY <4>2, <4>3 DEF S
    <3>7. /\ IsFiniteSet(Roots(i + 1, c))
          /\ Cardinality(Roots(i + 1, c)) <= Cardinality(Roots(i, q) \cup {r})
      BY <3>5, <3>6, FS_Subset
    <3>8. Cardinality(Roots(i + 1, c)) \in Nat /\ Cardinality(Roots(i, q) \cup {r}) \in Nat
      BY <3>6, <3>7, FS_CardinalityType
    <3> QED BY <3>4, <3>6, <3>7, <3>8
  <2> QED BY <2>1, <2>2
<1> HIDE DEF T
<1>3. n \in T
  BY <1>1, <1>2, NumbersInductive
<1> QED BY <1>3 DEF T

-----------------------------------------------------------------------------
(***************************************************************************)
(* The wires, the constraints and the proof.                               *)
(***************************************************************************)

WireType == [value : F, tag : F, key : [F -> F]]

(* The inductive invariant: wires are made of field elements and match. *)
WireInv ==
  /\ vole \in Seq([u : {Zero, One}, tag : F])
  /\ witness \in Seq({Zero, One})
  /\ Len(witness) = Len(vole)
  /\ d \in Seq(F)
  /\ wires \subseteq WireType
  /\ WireKeysMatch

Matched(a) == \A delta \in F : a.key[delta] = Plus(a.tag, Times(a.value, delta))

(* Adding d Delta to the key cancels u Delta and puts w Delta in its place,
   because d = u + w. *)
LEMMA CorrectionCancels ==
  ASSUME NEW t \in F, NEW u \in F, NEW w \in F, NEW delta \in F
  PROVE  Plus(Plus(t, Times(u, delta)), Times(Plus(u, w), delta))
           = Plus(t, Times(w, delta))
<1> DEFINE ud == Times(u, delta)
           wd == Times(w, delta)
<1>1. ud \in F /\ wd \in F
  BY FieldAssumption
<1> HIDE DEF ud, wd
<1>2. Times(Plus(u, w), delta) = Plus(ud, wd)
  BY RightDistributes DEF ud, wd
<1>3. Plus(Plus(t, ud), Plus(ud, wd)) = Plus(t, Plus(ud, Plus(ud, wd)))
  BY <1>1, FieldAssumption
<1>4. Plus(ud, Plus(ud, wd)) = Plus(Plus(ud, ud), wd)
  BY <1>1, FieldAssumption
<1>5. Plus(Plus(ud, ud), wd) = wd
  BY <1>1, FieldAssumption
<1> QED BY <1>2, <1>3, <1>4, <1>5 DEF ud, wd
-----------------------------------------------------------------------------
(* Each kind of new wire matches; first backend.rs constant. *)
LEMMA ConstantMatches ==
  ASSUME NEW c \in F
  PROVE  LET wire == [value |-> c, tag |-> Zero,
                      key |-> [delta \in F |-> Times(c, delta)]]
         IN wire \in WireType /\ Matched(wire)
<1>1. \A delta \in F : Times(c, delta) \in F /\ Plus(Zero, Times(c, delta)) = Times(c, delta)
  BY FieldAssumption
<1> QED BY <1>1, FieldAssumption DEF WireType, Matched

(* backend.rs add. *)
LEMMA SumMatches ==
  ASSUME NEW a \in WireType, NEW b \in WireType, Matched(a), Matched(b)
  PROVE  LET wire == [value |-> Plus(a.value, b.value), tag |-> Plus(a.tag, b.tag),
                      key |-> [delta \in F |-> Plus(a.key[delta], b.key[delta])]]
         IN wire \in WireType /\ Matched(wire)
<1> DEFINE wire == [value |-> Plus(a.value, b.value), tag |-> Plus(a.tag, b.tag),
                    key |-> [delta \in F |-> Plus(a.key[delta], b.key[delta])]]
<1>1. wire \in WireType
  BY FieldAssumption DEF WireType
<1>2. ASSUME NEW delta \in F
      PROVE  wire.key[delta] = Plus(wire.tag, Times(wire.value, delta))
  <2>1. /\ a.value \in F /\ a.tag \in F /\ b.value \in F /\ b.tag \in F
        /\ Times(a.value, delta) \in F /\ Times(b.value, delta) \in F
    BY FieldAssumption DEF WireType
  <2>2. wire.key[delta] = Plus(Plus(a.tag, Times(a.value, delta)),
                               Plus(b.tag, Times(b.value, delta)))
    BY DEF Matched
  <2>3. @ = Plus(Plus(a.tag, b.tag), Plus(Times(a.value, delta), Times(b.value, delta)))
    BY <2>1, Interchange
  <2>4. Plus(Times(a.value, delta), Times(b.value, delta)) = Times(Plus(a.value, b.value), delta)
    BY <2>1, RightDistributes
  <2> QED BY <2>2, <2>3, <2>4
<1> QED BY <1>1, <1>2 DEF Matched

(* backend.rs scale. *)
LEMMA MultipleMatches ==
  ASSUME NEW c \in F, NEW a \in WireType, Matched(a)
  PROVE  LET wire == [value |-> Times(c, a.value), tag |-> Times(c, a.tag),
                      key |-> [delta \in F |-> Times(c, a.key[delta])]]
         IN wire \in WireType /\ Matched(wire)
<1> DEFINE wire == [value |-> Times(c, a.value), tag |-> Times(c, a.tag),
                    key |-> [delta \in F |-> Times(c, a.key[delta])]]
<1>1. wire \in WireType
  BY FieldAssumption DEF WireType
<1>2. ASSUME NEW delta \in F
      PROVE  wire.key[delta] = Plus(wire.tag, Times(wire.value, delta))
  <2>1. a.value \in F /\ a.tag \in F /\ Times(a.value, delta) \in F
    BY FieldAssumption DEF WireType
  <2>2. wire.key[delta] = Times(c, Plus(a.tag, Times(a.value, delta)))
    BY DEF Matched
  <2>3. @ = Plus(Times(c, a.tag), Times(c, Times(a.value, delta)))
    BY <2>1, Distributes
  <2>4. Times(c, Times(a.value, delta)) = Times(Times(c, a.value), delta)
    BY <2>1, Associates
  <2> QED BY <2>2, <2>3, <2>4
<1> QED BY <1>1, <1>2 DEF Matched

(* backend.rs witness_bit with the key adjusted by d in verify. *)
LEMMA WitnessMatches ==
  ASSUME NEW u \in {Zero, One}, NEW w \in {Zero, One}, NEW tag \in F
  PROVE  LET wire == [value |-> w, tag |-> tag,
                      key |-> [delta \in F |->
                        Plus(Plus(tag, Times(u, delta)), Times(Plus(u, w), delta))]]
         IN wire \in WireType /\ Matched(wire)
<1> DEFINE wire == [value |-> w, tag |-> tag,
                    key |-> [delta \in F |->
                      Plus(Plus(tag, Times(u, delta)), Times(Plus(u, w), delta))]]
<1>1. u \in F /\ w \in F /\ Plus(u, w) \in F
  BY FieldAssumption
<1>2. ASSUME NEW delta \in F
      PROVE  wire.key[delta] = Plus(tag, Times(w, delta)) /\ wire.key[delta] \in F
  <2>1. wire.key[delta] = Plus(tag, Times(w, delta))
    BY <1>1, CorrectionCancels
  <2>2. Plus(tag, Times(w, delta)) \in F
    BY <1>1, Closed
  <2> QED BY <2>1, <2>2
<1>3. wire \in WireType
  BY <1>1, <1>2 DEF WireType
<1> QED BY <1>2, <1>3 DEF Matched
-----------------------------------------------------------------------------
(***************************************************************************)
(* What assert_zero and assert_mul record.  A nonzero error leaves a       *)
(* Delta^2 term that no published coefficient accounts for.                *)
(***************************************************************************)
(* A recorded check is A0 + A1 Delta + error Delta^2 at every Delta. *)
Binds(constraint) ==
  \A delta \in F :
    constraint.check[delta] =
      Plus(Plus(constraint.published[1], Times(constraint.published[2], delta)),
           Times(constraint.error, Times(delta, delta)))

(* assert_zero: Delta times the key is tag Delta + value Delta^2. *)
THEOREM ZeroCheckBinds ==
  ASSUME NEW a \in WireType, Matched(a)
  PROVE  Binds(ZeroConstraint(a))
<1> SUFFICES ASSUME NEW delta \in F
             PROVE  Times(delta, a.key[delta]) =
                      Plus(Plus(Zero, Times(a.tag, delta)),
                           Times(a.value, Times(delta, delta)))
  BY DEF Binds, ZeroConstraint, Simple
<1> DEFINE t == a.tag
           v == a.value
<1>1. t \in F /\ v \in F /\ a.key[delta] = Plus(t, Times(v, delta))
  BY DEF WireType, Matched
<1> HIDE DEF t, v
<1>2. Times(delta, Plus(t, Times(v, delta))) =
        Plus(Times(delta, t), Times(delta, Times(v, delta)))
  BY <1>1, Closed, Distributes
<1>3. Times(delta, Times(v, delta)) = Times(v, Times(delta, delta))
  <2>1. Times(delta, Times(v, delta)) = Times(Times(delta, v), delta)
    BY <1>1, Associates
  <2>2. Times(delta, v) = Times(v, delta)
    BY <1>1, Closed
  <2>3. Times(Times(v, delta), delta) = Times(v, Times(delta, delta))
    BY <1>1, Associates
  <2> QED BY <2>1, <2>2, <2>3
<1>4. Times(delta, t) = Times(t, delta) /\ Times(t, delta) \in F /\ Zero \in F
  BY <1>1, Closed, FieldAssumption
<1>5. Plus(Zero, Times(t, delta)) = Times(t, delta)
  BY <1>4, FieldAssumption
<1> QED BY <1>1, <1>2, <1>3, <1>4, <1>5 DEF t, v

(* (p + q) (r + s), multiplied out. *)
LEMMA ProductOfSums ==
  ASSUME NEW p \in F, NEW q \in F, NEW r \in F, NEW s \in F
  PROVE  Times(Plus(p, q), Plus(r, s)) =
           Plus(Plus(Times(p, r), Times(p, s)), Plus(Times(q, r), Times(q, s)))
<1>1. Plus(r, s) \in F
  BY Closed
<1>2. Times(Plus(p, q), Plus(r, s)) = Plus(Times(p, Plus(r, s)), Times(q, Plus(r, s)))
  BY <1>1, RightDistributes
<1> QED BY <1>2, Distributes

(* Collecting a product of two keys and Delta times a third by powers. *)
LEMMA Collect ==
  ASSUME NEW p \in F, NEW q \in F, NEW r \in F, NEW s \in F, NEW u \in F, NEW v \in F
  PROVE  Plus(Plus(Plus(p, q), Plus(r, s)), Plus(u, v)) =
           Plus(Plus(p, Plus(Plus(r, q), u)), Plus(s, v))
<1>1. /\ Plus(p, q) \in F /\ Plus(r, s) \in F /\ Plus(Plus(p, q), r) \in F
      /\ Plus(r, q) \in F /\ Plus(q, r) = Plus(r, q)
  BY Closed
<1>2. Plus(Plus(p, q), Plus(r, s)) = Plus(Plus(Plus(p, q), r), s)
  BY <1>1, FieldAssumption
<1>3. Plus(Plus(Plus(Plus(p, q), r), s), Plus(u, v)) =
        Plus(Plus(Plus(Plus(p, q), r), u), Plus(s, v))
  BY <1>1, Interchange
<1>4. Plus(Plus(p, q), r) = Plus(p, Plus(r, q))
  BY <1>1, FieldAssumption
<1>5. Plus(Plus(p, Plus(r, q)), u) = Plus(p, Plus(Plus(r, q), u))
  BY <1>1, FieldAssumption
<1> QED BY <1>2, <1>3, <1>4, <1>5

(* assert_mul: key_a key_b + Delta key_c, by powers of Delta. *)
THEOREM MulCheckBinds ==
  ASSUME NEW a \in WireType, NEW b \in WireType, NEW c \in WireType,
         Matched(a), Matched(b), Matched(c)
  PROVE  Binds(MulConstraint(a, b, c))
<1> DEFINE ta == a.tag
           va == a.value
           tb == b.tag
           vb == b.value
           tc == c.tag
           vc == c.value
<1> SUFFICES ASSUME NEW delta \in F
             PROVE  Plus(Times(a.key[delta], b.key[delta]), Times(delta, c.key[delta])) =
                      Plus(Plus(Times(ta, tb),
                                Times(Plus(Plus(Times(va, tb), Times(vb, ta)), tc), delta)),
                           Times(Plus(Times(va, vb), vc), Times(delta, delta)))
  BY DEF Binds, MulConstraint, Simple
<1>1. /\ ta \in F /\ va \in F /\ tb \in F /\ vb \in F /\ tc \in F /\ vc \in F
      /\ a.key[delta] = Plus(ta, Times(va, delta))
      /\ b.key[delta] = Plus(tb, Times(vb, delta))
      /\ c.key[delta] = Plus(tc, Times(vc, delta))
  BY DEF WireType, Matched
<1> HIDE DEF ta, va, tb, vb, tc, vc
<1> DEFINE dd == Times(delta, delta)
           p == Times(ta, tb)
           q == Times(Times(vb, ta), delta)
           r == Times(Times(va, tb), delta)
           s == Times(Times(va, vb), dd)
           u == Times(tc, delta)
           v == Times(vc, dd)
<1>2. /\ dd \in F /\ p \in F /\ q \in F /\ r \in F /\ s \in F /\ u \in F /\ v \in F
      /\ Times(va, delta) \in F /\ Times(vb, delta) \in F /\ Times(vc, delta) \in F
      /\ Times(vb, ta) \in F /\ Times(va, tb) \in F /\ Times(va, vb) \in F
      /\ Plus(Times(va, tb), Times(vb, ta)) \in F
  BY <1>1, Closed
<1>3. Times(a.key[delta], b.key[delta]) = Plus(Plus(p, q), Plus(r, s))
  <2>1. Times(a.key[delta], b.key[delta]) =
          Plus(Plus(Times(ta, tb), Times(ta, Times(vb, delta))),
               Plus(Times(Times(va, delta), tb), Times(Times(va, delta), Times(vb, delta))))
    BY <1>1, <1>2, ProductOfSums
  <2>2. Times(ta, Times(vb, delta)) = q
    <3>1. Times(ta, Times(vb, delta)) = Times(Times(ta, vb), delta)
      BY <1>1, Associates
    <3>2. Times(ta, vb) = Times(vb, ta)
      BY <1>1, Closed
    <3> QED BY <3>1, <3>2
  <2>3. Times(Times(va, delta), tb) = r
    <3>1. Times(Times(va, delta), tb) = Times(va, Times(delta, tb))
      BY <1>1, Associates
    <3>2. Times(delta, tb) = Times(tb, delta)
      BY <1>1, Closed
    <3>3. Times(va, Times(tb, delta)) = Times(Times(va, tb), delta)
      BY <1>1, Associates
    <3> QED BY <3>1, <3>2, <3>3
  <2>4. Times(Times(va, delta), Times(vb, delta)) = s
    BY <1>1, ProductInterchange
  <2> QED BY <2>1, <2>2, <2>3, <2>4
<1>4. Times(delta, c.key[delta]) = Plus(u, v)
  <2>1. Times(delta, c.key[delta]) = Plus(Times(delta, tc), Times(delta, Times(vc, delta)))
    BY <1>1, <1>2, Distributes
  <2>2. Times(delta, tc) = u
    BY <1>1, Closed
  <2>3. Times(delta, Times(vc, delta)) = v
    <3>1. Times(delta, Times(vc, delta)) = Times(Times(vc, delta), delta)
      BY <1>1, <1>2, Closed
    <3>2. Times(Times(vc, delta), delta) = Times(vc, Times(delta, delta))
      BY <1>1, Associates
    <3> QED BY <3>1, <3>2
  <2> QED BY <2>1, <2>2, <2>3
<1>5. Times(Plus(Plus(Times(va, tb), Times(vb, ta)), tc), delta) = Plus(Plus(r, q), u)
  BY <1>1, <1>2, RightDistributes
<1>6. Times(Plus(Times(va, vb), vc), dd) = Plus(s, v)
  BY <1>1, <1>2, RightDistributes
<1>7. Plus(Plus(Plus(p, q), Plus(r, s)), Plus(u, v)) =
        Plus(Plus(p, Plus(Plus(r, q), u)), Plus(s, v))
  <2>1. p \in F /\ q \in F /\ r \in F /\ s \in F /\ u \in F /\ v \in F
    BY <1>2
  <2> HIDE DEF p, q, r, s, u, v
  <2> QED BY <2>1, Collect
<1> QED BY <1>3, <1>4, <1>5, <1>6, <1>7
-----------------------------------------------------------------------------
(* The keys of all wires of any circuit, at every Delta: backend.rs, "the
   invariant key = tag + value Delta is preserved by every operation". *)
LEMMA WireInvInit == Init => WireInv
<1> SUFFICES ASSUME Init
             PROVE  WireInv
  OBVIOUS
<1>1. vole \in Seq([u : {Zero, One}, tag : F])
  BY InputsAssumption DEF Init
<1>2. witness \in Seq({Zero, One}) /\ Len(witness) = Len(vole)
  BY InputsAssumption DEF Init
<1>3. d \in Seq(F) /\ wires \subseteq WireType /\ WireKeysMatch
  BY DEF Init, WireKeysMatch
<1> QED BY <1>1, <1>2, <1>3 DEF WireInv

(* A new wire that is typed and matches keeps the invariant. *)
LEMMA NewWireKeeps ==
  ASSUME WireInv, NEW wire \in WireType, Matched(wire),
         wires' = wires \cup {wire}, UNCHANGED <<vole, witness>>, d' \in Seq(F)
  PROVE  WireInv'
BY DEF WireInv, WireKeysMatch, Matched

(* No call of a backend, no refusal and no proof breaks it. *)
LEMMA WireInvStep == WireInv /\ [Next]_vars => WireInv'
<1> SUFFICES ASSUME WireInv, [Next]_vars
             PROVE  WireInv'
  OBVIOUS
<1> USE DEF NewWire, Building
<1>1. CASE WitnessBit
  <2> DEFINE t == Len(d) + 1
  <2>a. d \in Seq(F) /\ t \in 1 .. Len(witness) /\ t \in 1 .. Len(vole)
    <3>1. d \in Seq(F) /\ Len(witness) = Len(vole) /\ Len(d) \in Nat
      BY DEF WireInv
    <3>2. t <= Len(witness)
      BY <1>1 DEF WitnessBit
    <3>3. Len(witness) \in Nat
      BY DEF WireInv
    <3> QED BY <3>1, <3>2, <3>3
  <2>b. vole[t] \in [u : {Zero, One}, tag : F] /\ witness[t] \in {Zero, One}
    <3>1. vole \in Seq([u : {Zero, One}, tag : F]) /\ witness \in Seq({Zero, One})
      BY DEF WireInv
    <3> HIDE DEF t
    <3>2. vole[t] \in [u : {Zero, One}, tag : F]
      BY <3>1, <2>a, ElementOfSeq
    <3>3. witness[t] \in {Zero, One}
      BY <3>1, <2>a, ElementOfSeq
    <3> QED BY <3>2, <3>3
  <2>1. /\ d \in Seq(F)
        /\ vole[t].u \in {Zero, One} /\ vole[t].tag \in F
        /\ witness[t] \in {Zero, One}
    BY <2>a, <2>b
  <2> DEFINE wire == [value |-> witness[t], tag |-> vole[t].tag,
                key |-> [delta \in F |->
                  Plus(Plus(vole[t].tag, Times(vole[t].u, delta)),
                       Times(Plus(vole[t].u, witness[t]), delta))]]
  <2>2. wire \in WireType /\ Matched(wire)
    BY <2>1, WitnessMatches
  <2>3. wires' = wires \cup {wire} /\ UNCHANGED <<vole, witness>>
    BY <1>1 DEF WitnessBit
  <2>4. Plus(vole[t].u, witness[t]) \in F
    <3>1. vole[t].u \in F /\ witness[t] \in F
      BY <2>1, FieldAssumption
    <3> QED BY <3>1, Closed
  <2>5. d' \in Seq(F)
    BY <1>1, <2>1, <2>4 DEF WitnessBit
  <2> HIDE DEF wire
  <2> QED BY <2>2, <2>3, <2>5, NewWireKeeps
<1>2. ASSUME NEW c \in Scalars, Constant(c)
      PROVE  WireInv'
  <2>1. c \in F
    BY InputsAssumption
  <2> DEFINE wire == [value |-> c, tag |-> Zero, key |-> [delta \in F |-> Times(c, delta)]]
  <2>2. wire \in WireType /\ Matched(wire)
    BY <2>1, ConstantMatches
  <2>3. wires' = wires \cup {wire} /\ UNCHANGED <<vole, witness>> /\ d' \in Seq(F)
    BY <1>2 DEF Constant, WireInv
  <2> HIDE DEF wire
  <2> QED BY <2>2, <2>3, NewWireKeeps
<1>3. ASSUME NEW a \in wires, NEW b \in wires, Add(a, b)
      PROVE  WireInv'
  <2>1. a \in WireType /\ b \in WireType /\ Matched(a) /\ Matched(b)
    BY DEF WireInv, WireKeysMatch, Matched
  <2> DEFINE wire == [value |-> Plus(a.value, b.value), tag |-> Plus(a.tag, b.tag),
                      key |-> [delta \in F |-> Plus(a.key[delta], b.key[delta])]]
  <2>2. wire \in WireType /\ Matched(wire)
    BY <2>1, SumMatches
  <2>3. wires' = wires \cup {wire} /\ UNCHANGED <<vole, witness>> /\ d' \in Seq(F)
    BY <1>3 DEF Add, WireInv
  <2> HIDE DEF wire
  <2> QED BY <2>2, <2>3, NewWireKeeps
<1>4. ASSUME NEW c \in Scalars, NEW a \in wires, Scale(c, a)
      PROVE  WireInv'
  <2>1. c \in F /\ a \in WireType /\ Matched(a)
    BY InputsAssumption DEF WireInv, WireKeysMatch, Matched
  <2> DEFINE wire == [value |-> Times(c, a.value), tag |-> Times(c, a.tag),
                      key |-> [delta \in F |-> Times(c, a.key[delta])]]
  <2>2. wire \in WireType /\ Matched(wire)
    BY <2>1, MultipleMatches
  <2>3. wires' = wires \cup {wire} /\ UNCHANGED <<vole, witness>> /\ d' \in Seq(F)
    BY <1>4 DEF Scale, WireInv
  <2> HIDE DEF wire
  <2> QED BY <2>2, <2>3, NewWireKeeps
<1>5. ASSUME UNCHANGED <<vole, witness, d, wires>>
      PROVE  WireInv'
  BY <1>5 DEF WireInv, WireKeysMatch
<1>6. CASE UNCHANGED vars
  BY <1>5, <1>6 DEF vars
<1>7. ASSUME NEW a, WireExpr(a)
      PROVE  WireInv'
  BY <1>5, <1>7 DEF WireExpr, NewExpr
<1>8. ASSUME NEW a, NEW b, ExprAdd(a, b) \/ ExprMul(a, b) \/ ExprMulTooHigh(a, b)
      PROVE  WireInv'
  BY <1>5, <1>8 DEF ExprAdd, ExprMul, ExprMulTooHigh, NewExpr, circuit
<1>9. ASSUME NEW a, AssertZero(a) \/ AssertExprZero(a)
      PROVE  WireInv'
  BY <1>5, <1>9 DEF AssertZero, AssertExprZero, NewConstraint
<1>10. ASSUME NEW a, NEW b, NEW c, AssertMul(a, b, c)
       PROVE  WireInv'
  BY <1>5, <1>10 DEF AssertMul, NewConstraint
<1>11. ASSUME NEW terms, NEW linear, AssertQuadSystem(terms, linear)
       PROVE  WireInv'
  BY <1>5, <1>11 DEF AssertQuadSystem, NewConstraint
<1>12. CASE RefuseMismatch
  BY <1>5, <1>12 DEF RefuseMismatch, circuit
<1>13. ASSUME NEW stream, NEW masks, Prove(stream, masks)
       PROVE  WireInv'
  BY <1>5, <1>13 DEF Prove, circuit
<1>14. ASSUME NEW stream, NEW masks, NEW offset, Forge(stream, masks, offset)
       PROVE  WireInv'
  BY <1>5, <1>14 DEF Forge, circuit
<1> QED
  BY <1>1, <1>2, <1>3, <1>4, <1>6, <1>7, <1>8, <1>9, <1>10, <1>11, <1>12, <1>13, <1>14
  DEF Next

(* Hence the part of KeysMatch that speaks about wires always holds. *)
THEOREM WiresMatch == Spec => []WireKeysMatch
<1>1. WireInv => WireKeysMatch
  BY DEF WireInv
<1> QED BY WireInvInit, WireInvStep, <1>1, PTL DEF Spec
-----------------------------------------------------------------------------
(***************************************************************************)
(* What an expression and a recorded constraint promise.                   *)
(***************************************************************************)

(* Wires with matching keys. *)
Wires == {a \in WireType : Matched(a)}

(* Expressions whose evaluation is the value of their polynomial. *)
Exprs ==
  {e \in [coefficients : Seq(F), evaluation : [F -> F]] :
     /\ Len(e.coefficients) >= 1
     /\ \A delta \in F : e.evaluation[delta] = Evaluate(e.coefficients, delta)}

(* Constraints whose check is the polynomial of the published coefficients,
   with the error as the next coefficient. *)
Sound(c) ==
  \A delta \in F :
    c.check[delta] = Plus(Evaluate(c.published, delta),
                          Times(c.error, Power(delta, Len(c.published))))

Simples ==
  {c \in [kind : {"simple"}, published : Seq(F), error : F, check : [F -> F]] : Sound(c)}

Terms == [a : Wires, b : Wires, coefficients : Seq(F)]

Systems ==
  {c \in [kind : {"system"}, terms : Seq(Terms), linear : Seq(Wires)] :
     \A t \in 1 .. Len(c.terms) : Len(c.terms[t].coefficients) = Len(c.linear)}

Constraints == Simples \cup Systems

(* A constraint is what its kind says. *)
LEMMA KindsDiffer ==
  ASSUME constraints \in Seq(Constraints), NEW k \in 1 .. Len(constraints)
  PROVE  IF IsSystem(k) THEN constraints[k] \in Systems ELSE constraints[k] \in Simples
<1>1. constraints[k] \in Constraints
  BY ElementOfSeq
<1> QED BY <1>1 DEF Constraints, Simples, Systems, IsSystem

(* The degree of every constraint and the challenges it draws are counts. *)
LEMMA CountsTyped ==
  ASSUME constraints \in Seq(Constraints), NEW k \in 1 .. Len(constraints)
  PROVE  CountedDegree(k) \in Nat /\ Draws(k) \in Nat \ {0}
<1>1. CASE IsSystem(k)
  <2>1. Len(constraints[k].linear) \in Nat
    BY <1>1, KindsDiffer DEF Systems
  <2> QED BY <1>1, <2>1 DEF CountedDegree, Draws
<1>2. CASE ~IsSystem(k)
  <2>1. Len(constraints[k].published) \in Nat
    BY <1>2, KindsDiffer DEF Simples
  <2> QED BY <1>2, <2>1 DEF CountedDegree, ConstraintDegree, Draws
<1> QED BY <1>1, <1>2

(* g holds the largest degree of the first constraints. *)
LargestDegrees(g) ==
  g = [k \in 0 .. Len(constraints) |->
         IF k = 0 THEN 2 ELSE Larger(g[k - 1], CountedDegree(k))]

(* The largest degree is the last one of such a function. *)
LEMMA MaxDegreeUnfolded == MaxDegree = (CHOOSE g : LargestDegrees(g))[Len(constraints)]
BY DEF MaxDegree, LargestDegrees

(* proof.rs, the counting pass: the largest degree is at least two and at
   least that of every constraint. *)
LEMMA MaxDegreeBounds ==
  ASSUME constraints \in Seq(Constraints)
  PROVE  /\ MaxDegree \in Nat /\ MaxDegree >= 2
         /\ \A k \in 1 .. Len(constraints) : CountedDegree(k) <= MaxDegree
<1> DEFINE n == Len(constraints)
           step == [s \in (1 .. n) \X Nat |-> Larger(s[2], CountedDegree(s[1]))]
<1>1. n \in Nat /\ \A k \in 1 .. n : CountedDegree(k) \in Nat
  BY CountsTyped
<1>2. step \in [(1 .. n) \X Nat -> Nat]
  BY <1>1 DEF Larger
<1>3. \A k \in 1 .. n, x \in Nat : step[<<k, x>>] = Larger(x, CountedDegree(k))
  OBVIOUS
<1> HIDE DEF step
<1>4. PICK p \in [0 .. n -> Nat] : Follows(p, n, Nat, 2, step)
  BY <1>1, <1>2, RecursionExists
<1>5. LargestDegrees(p)
  <2>1. p[0] = 2
    BY <1>4 DEF Follows
  <2>2. ASSUME NEW k \in 1 .. n
        PROVE  p[k] = Larger(p[k - 1], CountedDegree(k))
    <3>1. k - 1 \in 0 .. n
      BY <1>1
    <3>2. p[k - 1] \in Nat
      BY <1>4, <3>1
    <3>3. p[k] = step[<<k, p[k - 1]>>]
      BY <1>4, <3>2 DEF Follows
    <3> QED BY <1>3, <3>2, <3>3
  <2> QED BY <2>1, <2>2 DEF LargestDegrees
<1> DEFINE g == CHOOSE h : LargestDegrees(h)
<1>6. LargestDegrees(g)
  BY <1>5
<1>7. MaxDegree = g[n]
  BY MaxDegreeUnfolded
<1> HIDE DEF g
<1> DEFINE Good(k) == g[k] \in Nat /\ g[k] >= 2 /\ \A j \in 1 .. k : CountedDegree(j) <= g[k]
           T == {k \in Nat : k <= n => Good(k)}
<1>8. 0 \in T
  <2>1. g[0] = 2
    BY <1>6 DEF LargestDegrees
  <2> QED BY <2>1
<1>9. ASSUME NEW k \in Nat, k \in T
      PROVE  k + 1 \in T
  <2> SUFFICES ASSUME k + 1 <= n
               PROVE  Good(k + 1)
    OBVIOUS
  <2>1. k + 1 \in 1 .. n /\ (k + 1) - 1 = k /\ k + 1 \in 0 .. n /\ k + 1 # 0
    BY <1>1
  <2>2. g[k + 1] = Larger(g[k], CountedDegree(k + 1))
    BY <1>6, <2>1 DEF LargestDegrees
  <2>3. Good(k) /\ CountedDegree(k + 1) \in Nat
    BY <1>1, <1>9, <2>1
  <2>4. g[k + 1] \in Nat /\ g[k] <= g[k + 1] /\ CountedDegree(k + 1) <= g[k + 1] /\ g[k + 1] >= 2
    BY <2>2, <2>3 DEF Larger
  <2>5. ASSUME NEW j \in 1 .. k + 1
        PROVE  CountedDegree(j) <= g[k + 1]
    <3>1. CASE j = k + 1
      BY <2>4, <3>1
    <3>2. CASE j # k + 1
      <4>1. j \in 1 .. k /\ j \in 1 .. n
        BY <2>1, <3>2
      <4>2. CountedDegree(j) \in Nat /\ CountedDegree(j) <= g[k]
        BY <1>1, <2>3, <4>1
      <4>3. g[k] \in Nat
        BY <2>3
      <4> QED BY <2>4, <4>2, <4>3
    <3> QED BY <3>1, <3>2
  <2> QED BY <2>4, <2>5
<1>10. n \in T
  <2> HIDE DEF T
  <2> QED BY <1>1, <1>8, <1>9, NumbersInductive
<1> QED BY <1>1, <1>7, <1>10

(* g holds the positions in the stream before each constraint. *)
Positions(g, k) ==
  g = [j \in 0 .. k - 1 |-> IF j = 0 THEN 0 ELSE g[j - 1] + Draws(j)]

(* The position is the last one of such a function. *)
LEMMA PositionUnfolded ==
  ASSUME NEW k
  PROVE  Position(k) = (CHOOSE g : Positions(g, k))[k - 1]
BY DEF Position, Positions

(* transcript.rs: the challenges of a constraint follow those of the one
   before, up to the end of what the batch draws. *)
LEMMA PositionsFollow ==
  ASSUME constraints \in Seq(Constraints), NEW k \in 1 .. Len(constraints)
  PROVE  /\ Position(k) \in Nat
         /\ Position(Len(constraints) + 1) \in Nat
         /\ Position(k) + Draws(k) <= Position(Len(constraints) + 1)
<1> DEFINE n == Len(constraints)
           step == [s \in (1 .. n) \X Nat |-> s[2] + Draws(s[1])]
<1>1. n \in Nat /\ \A j \in 1 .. n : Draws(j) \in Nat
  BY CountsTyped
<1>2. step \in [(1 .. n) \X Nat -> Nat]
  BY <1>1
<1>3. \A j \in 1 .. n, x \in Nat : step[<<j, x>>] = x + Draws(j)
  OBVIOUS
<1> HIDE DEF step
<1>4. PICK p \in [0 .. n -> Nat] : Follows(p, n, Nat, 0, step)
  BY <1>1, <1>2, RecursionExists
<1>5. \A j \in 1 .. n : p[j] = p[j - 1] + Draws(j)
  BY <1>3, <1>4 DEF Follows
<1>6. p[0] = 0
  BY <1>4 DEF Follows
<1>7. ASSUME NEW m \in 0 .. n
      PROVE  Position(m + 1) = p[m]
  <2> DEFINE q == [j \in 0 .. m |-> p[j]]
  <2>0. (m + 1) - 1 = m
    OBVIOUS
  <2>1. Positions(q, m + 1)
    <3>1. ASSUME NEW j \in 0 .. m
          PROVE  q[j] = IF j = 0 THEN 0 ELSE q[j - 1] + Draws(j)
      <4>1. CASE j = 0
        BY <1>6, <4>1
      <4>2. CASE j # 0
        <5>1. j \in 1 .. n /\ j - 1 \in 0 .. m
          BY <1>1, <4>2
        <5> QED BY <1>5, <4>2, <5>1
      <4> QED BY <4>1, <4>2
    <3> QED BY <2>0, <3>1 DEF Positions
  <2> DEFINE h == CHOOSE g : Positions(g, m + 1)
  <2>2. Positions(h, m + 1)
    BY <2>1
  <2>3. Position(m + 1) = h[m]
    BY <2>0, PositionUnfolded
  <2> HIDE DEF h, q
  <2>4. h[0] = 0 /\ \A j \in 1 .. m : h[j] = h[j - 1] + Draws(j)
    BY <2>0, <2>2 DEF Positions
  <2>5. Follows(h, m, Nat, 0, step)
    <3>1. ASSUME NEW j \in 1 .. m, h[j - 1] \in Nat
          PROVE  h[j] = step[<<j, h[j - 1]>>]
      <4>1. j \in 1 .. n
        BY <1>1
      <4>2. step[<<j, h[j - 1]>>] = h[j - 1] + Draws(j)
        BY <1>3, <3>1, <4>1
      <4> QED BY <2>4, <4>2
    <3> QED BY <2>4, <3>1 DEF Follows
  <2>6. \A j \in 0 .. m : h[j] = p[j]
    <3>1. n \in Nat /\ p \in [0 .. n -> Nat] /\ m \in 0 .. n
      BY <1>1
    <3> QED BY ONLY <1>4, <2>5, <3>1, RecursionUnique
  <2> QED BY <2>3, <2>6
<1>8. Position(k) = p[k - 1] /\ p[k] = Position(k) + Draws(k) /\ Position(n + 1) = p[n]
  <2>1. k - 1 \in 0 .. n /\ n \in 0 .. n /\ (k - 1) + 1 = k
    BY <1>1
  <2> QED BY <1>5, <1>7, <2>1
<1>9. p[k] <= p[n]
  <2> DEFINE T == {i \in Nat : k + i <= n => p[k] <= p[k + i]}
  <2>1. 0 \in T
    BY <1>1
  <2>2. ASSUME NEW i \in Nat, i \in T
        PROVE  i + 1 \in T
    <3> SUFFICES ASSUME k + (i + 1) <= n
                 PROVE  p[k] <= p[k + (i + 1)]
      OBVIOUS
    <3>1. /\ k + (i + 1) \in 1 .. n /\ (k + (i + 1)) - 1 = k + i
          /\ k + i \in 0 .. n /\ k \in 0 .. n /\ k + i <= n
      BY <1>1
    <3>2. p[k + (i + 1)] = p[k + i] + Draws(k + (i + 1)) /\ Draws(k + (i + 1)) \in Nat
      BY <1>1, <1>5, <3>1
    <3>3. p[k] \in Nat /\ p[k + i] \in Nat /\ p[k] <= p[k + i]
      BY <2>2, <3>1
    <3> QED BY <3>2, <3>3
  <2>3. n - k \in Nat /\ k + (n - k) = n
    BY <1>1
  <2>4. n - k \in T
    <3> HIDE DEF T
    <3> QED BY <2>1, <2>2, <2>3, NumbersInductive
  <2> QED BY <2>3, <2>4
<1> QED BY <1>1, <1>8, <1>9
-----------------------------------------------------------------------------
(***************************************************************************)
(* Every recorded constraint, folded, is sound.                            *)
(***************************************************************************)

(* In degree two, Binds says that a constraint is sound. *)
LEMMA BindsSound ==
  ASSUME NEW p \in F, NEW q \in F, NEW error \in F, NEW check \in [F -> F],
         Binds(Simple(<<p, q>>, error, check))
  PROVE  Simple(<<p, q>>, error, check) \in Simples
<1> DEFINE c == Simple(<<p, q>>, error, check)
<1>1. /\ c.kind = "simple" /\ c.published = <<p, q>> /\ c.error = error /\ c.check = check
      /\ c = [kind |-> "simple", published |-> <<p, q>>, error |-> error, check |-> check]
  BY DEF Simple
<1>2. <<p, q>> \in Seq(F) /\ Len(<<p, q>>) = 2 /\ <<p, q>>[1] = p /\ <<p, q>>[2] = q
  OBVIOUS
<1>3. ASSUME NEW delta \in F
      PROVE  check[delta] = Plus(Evaluate(<<p, q>>, delta), Times(error, Power(delta, 2)))
  <2>1. check[delta] = Plus(Plus(p, Times(q, delta)), Times(error, Times(delta, delta)))
    BY <1>1, <1>2 DEF Binds
  <2> QED BY <2>1, EvaluatePair, PowerSmall
<1>4. Sound(c)
  BY <1>1, <1>2, <1>3 DEF Sound
<1> HIDE DEF c
<1> QED BY <1>1, <1>2, <1>4 DEF Simples, c

(* The product of two keys, by powers of Delta. *)
LEMMA KeyProduct ==
  ASSUME NEW a \in Wires, NEW b \in Wires, NEW delta \in F
  PROVE  Times(a.key[delta], b.key[delta]) =
           Plus(Plus(Times(a.tag, b.tag),
                     Times(Plus(Times(a.value, b.tag), Times(b.value, a.tag)), delta)),
                Times(Times(a.value, b.value), Times(delta, delta)))
<1> DEFINE c == [value |-> Zero, tag |-> Zero, key |-> [x \in F |-> Times(Zero, x)]]
<1>1. c \in WireType /\ Matched(c)
  BY ConstantMatches, FieldAssumption
<1>2. a \in WireType /\ b \in WireType /\ Matched(a) /\ Matched(b)
  BY DEF Wires
<1>3. Binds(MulConstraint(a, b, c))
  BY <1>1, <1>2, MulCheckBinds
<1>4. /\ a.key[delta] \in F /\ b.key[delta] \in F /\ a.tag \in F /\ b.tag \in F
      /\ a.value \in F /\ b.value \in F
  BY <1>2 DEF WireType
<1>5. c.key[delta] = Zero /\ c.tag = Zero /\ c.value = Zero
  BY FieldAssumption
<1>6. /\ Times(a.key[delta], b.key[delta]) \in F /\ Times(a.value, b.value) \in F
      /\ Plus(Times(a.value, b.tag), Times(b.value, a.tag)) \in F
  BY <1>4, Closed
<1>7. Plus(Times(a.key[delta], b.key[delta]), Times(delta, c.key[delta])) =
        Plus(Plus(Times(a.tag, b.tag),
                  Times(Plus(Plus(Times(a.value, b.tag), Times(b.value, a.tag)), c.tag), delta)),
             Times(Plus(Times(a.value, b.value), c.value), Times(delta, delta)))
  BY <1>3 DEF Binds, MulConstraint, Simple
<1>8. \A x \in F : Plus(x, Zero) = x /\ Times(x, Zero) = Zero
  BY FieldAssumption
<1> QED BY <1>5, <1>6, <1>7, <1>8

(* proof.rs, fold: whatever the challenges, a folded system is a sound
   constraint of degree two. *)
LEMMA FoldedSound ==
  ASSUME NEW system \in Systems, NEW phi, Summable(Len(system.linear), phi)
  PROVE  /\ Folded(system, phi) \in Simples
         /\ Len(Folded(system, phi).published) = 2
<1> DEFINE n == Len(system.terms)
           m == Len(system.linear)
           A(t) == system.terms[t].a
           B(t) == system.terms[t].b
           L(e) == system.linear[e]
           c == [t \in 1 .. n |-> Weighted(m, phi, system.terms[t].coefficients)]
           p == [t \in 1 .. n |-> Times(A(t).tag, B(t).tag)]
           q == [t \in 1 .. n |-> Plus(Times(A(t).value, B(t).tag), Times(B(t).value, A(t).tag))]
           r == [t \in 1 .. n |-> Times(A(t).value, B(t).value)]
           u == [e \in 1 .. m |-> L(e).tag]
           v == [e \in 1 .. m |-> L(e).value]
           keys(delta) == [t \in 1 .. n |-> Times(A(t).key[delta], B(t).key[delta])]
           linears(delta) == [e \in 1 .. m |-> L(e).key[delta]]
           P == Weighted(n, c, p)
           Q == Weighted(n, c, q)
           R == Weighted(n, c, r)
           U == Weighted(m, phi, u)
           V == Weighted(m, phi, v)
           check == [delta \in F |-> Plus(Weighted(n, c, keys(delta)),
                                         Times(delta, Weighted(m, phi, linears(delta))))]
<1>1. Folded(system, phi) = Simple(<<P, Plus(Q, U)>>, Plus(R, V), check)
  BY DEF Folded
<1>2. /\ system.terms \in Seq(Terms) /\ system.linear \in Seq(Wires)
      /\ n \in Nat /\ m \in Nat
      /\ \A t \in 1 .. n : Len(system.terms[t].coefficients) = m
  BY DEF Systems
<1>3. ASSUME NEW t \in 1 .. n
      PROVE  /\ A(t) \in Wires /\ B(t) \in Wires
             /\ Summable(m, system.terms[t].coefficients)
  <2>1. system.terms[t] \in Terms
    BY <1>2, ElementOfSeq
  <2>2. system.terms[t].coefficients \in Seq(F)
    BY <2>1 DEF Terms
  <2> QED BY <1>2, <2>1, <2>2, SequenceSummable DEF Terms
<1>4. ASSUME NEW e \in 1 .. m
      PROVE  L(e) \in Wires
  BY <1>2, ElementOfSeq
<1>5. Summable(n, c)
  <2> SUFFICES ASSUME NEW t \in 1 .. n
               PROVE  Weighted(m, phi, system.terms[t].coefficients) \in F
    BY DEF Summable
  <2> HIDE DEF n, m
  <2> QED BY <1>2, <1>3, WeightedClosed DEF m
<1>6. Summable(n, p) /\ Summable(n, q) /\ Summable(n, r)
  <2> SUFFICES ASSUME NEW t \in 1 .. n
               PROVE  p[t] \in F /\ q[t] \in F /\ r[t] \in F
    BY DEF Summable
  <2>1. A(t).tag \in F /\ A(t).value \in F /\ B(t).tag \in F /\ B(t).value \in F
    BY <1>3 DEF Wires, WireType
  <2> QED BY <2>1, Closed
<1>7. Summable(m, u) /\ Summable(m, v)
  BY <1>4 DEF Summable, Wires, WireType
<1>8. ASSUME NEW delta \in F, NEW t \in 1 .. n
      PROVE  keys(delta)[t] = Plus(Plus(p[t], Times(q[t], delta)), Times(r[t], Times(delta, delta)))
  BY <1>3, KeyProduct
<1>9. ASSUME NEW delta \in F, NEW e \in 1 .. m
      PROVE  linears(delta)[e] = Plus(u[e], Times(v[e], delta))
  BY <1>4 DEF Wires, Matched
<1> HIDE DEF c, p, q, r, u, v, keys, linears, n, m
<1>10. P \in F /\ Q \in F /\ R \in F /\ U \in F /\ V \in F
  BY <1>2, <1>5, <1>6, <1>7, WeightedClosed DEF m
<1>11. ASSUME NEW delta \in F
       PROVE  Weighted(n, c, keys(delta)) =
                Plus(Plus(P, Times(Q, delta)), Times(R, Times(delta, delta)))
  <2> DEFINE qd == [t \in 1 .. n |-> Times(q[t], delta)]
             rd == [t \in 1 .. n |-> Times(r[t], Times(delta, delta))]
             pq == [t \in 1 .. n |-> Plus(p[t], qd[t])]
  <2>1. /\ \A t \in 1 .. n : qd[t] = Times(q[t], delta)
        /\ \A t \in 1 .. n : rd[t] = Times(r[t], Times(delta, delta))
        /\ \A t \in 1 .. n : pq[t] = Plus(p[t], qd[t])
    OBVIOUS
  <2>2. Times(delta, delta) \in F
    BY Closed
  <2>3. Summable(n, qd) /\ Summable(n, rd)
    BY <1>6, <2>1, <2>2, Closed DEF Summable
  <2>4. Summable(n, pq)
    BY <1>6, <2>1, <2>3, Closed DEF Summable
  <2>5. \A t \in 1 .. n : keys(delta)[t] = Plus(pq[t], rd[t])
    BY <1>8
  <2> HIDE DEF qd, rd, pq
  <2>6. Weighted(n, c, qd) = Times(Q, delta)
    BY <1>2, <1>5, <1>6, <2>1, WeightedTimes
  <2>7. Weighted(n, c, rd) = Times(R, Times(delta, delta))
    BY <1>2, <1>5, <1>6, <2>1, <2>2, WeightedTimes
  <2>8. Weighted(n, c, pq) = Plus(P, Weighted(n, c, qd))
    BY <1>2, <1>5, <1>6, <2>1, <2>3, WeightedPlus
  <2>9. Weighted(n, c, keys(delta)) = Plus(Weighted(n, c, pq), Weighted(n, c, rd))
    BY <1>2, <1>5, <2>3, <2>4, <2>5, WeightedPlus
  <2> QED BY <2>6, <2>7, <2>8, <2>9
<1>12. ASSUME NEW delta \in F
       PROVE  Weighted(m, phi, linears(delta)) = Plus(U, Times(V, delta))
  <2> DEFINE vd == [e \in 1 .. m |-> Times(v[e], delta)]
  <2>1. \A e \in 1 .. m : vd[e] = Times(v[e], delta)
    OBVIOUS
  <2>2. Summable(m, vd) /\ Summable(m, phi)
    BY <1>7, <2>1, Closed DEF Summable, m
  <2>3. \A e \in 1 .. m : linears(delta)[e] = Plus(u[e], vd[e])
    BY <1>9
  <2> HIDE DEF vd
  <2>4. Weighted(m, phi, vd) = Times(V, delta)
    BY <1>2, <1>7, <2>1, <2>2, WeightedTimes
  <2>5. Weighted(m, phi, linears(delta)) = Plus(U, Weighted(m, phi, vd))
    BY <1>2, <1>7, <2>2, <2>3, WeightedPlus
  <2> QED BY <2>4, <2>5
<1> HIDE DEF P, Q, R, U, V
<1>13. ASSUME NEW delta \in F
       PROVE  /\ check[delta] = Plus(Plus(P, Times(Plus(Q, U), delta)),
                                     Times(Plus(R, V), Times(delta, delta)))
              /\ check[delta] \in F
  <2> DEFINE dd == Times(delta, delta)
  <2>1. dd \in F
    BY Closed
  <2>2. check[delta] = Plus(Plus(Plus(P, Times(Q, delta)), Times(R, dd)),
                            Times(delta, Plus(U, Times(V, delta))))
    BY <1>11, <1>12
  <2>3. Times(delta, Plus(U, Times(V, delta))) = Plus(Times(U, delta), Times(V, dd))
    <3>1. Times(V, delta) \in F /\ Times(delta, U) = Times(U, delta)
      BY <1>10, Closed
    <3>2. Times(delta, Plus(U, Times(V, delta))) =
            Plus(Times(delta, U), Times(delta, Times(V, delta)))
      BY <1>10, <3>1, Distributes
    <3>3. Times(delta, Times(V, delta)) = Times(V, dd)
      BY <1>10, Exchange
    <3> QED BY <3>1, <3>2, <3>3
  <2> HIDE DEF dd
  <2>4. /\ Times(Q, delta) \in F /\ Times(R, dd) \in F /\ Times(U, delta) \in F
        /\ Times(V, dd) \in F /\ Plus(P, Times(Q, delta)) \in F
    BY <1>10, <2>1, Closed
  <2>5. check[delta] = Plus(Plus(Plus(P, Times(Q, delta)), Times(U, delta)),
                            Plus(Times(R, dd), Times(V, dd)))
    <3>1. Plus(Plus(Plus(P, Times(Q, delta)), Times(R, dd)), Plus(Times(U, delta), Times(V, dd))) =
            Plus(Plus(Plus(P, Times(Q, delta)), Times(U, delta)), Plus(Times(R, dd), Times(V, dd)))
      BY <2>4, Interchange
    <3> QED BY <2>2, <2>3, <3>1
  <2>6. Plus(Plus(P, Times(Q, delta)), Times(U, delta)) =
          Plus(P, Plus(Times(Q, delta), Times(U, delta)))
    BY <1>10, <2>4, SumAssociates
  <2>7. Plus(Times(Q, delta), Times(U, delta)) = Times(Plus(Q, U), delta)
    BY <1>10, RightDistributes
  <2>8. Plus(Times(R, dd), Times(V, dd)) = Times(Plus(R, V), dd)
    BY <1>10, <2>1, RightDistributes
  <2>9. check[delta] = Plus(Plus(P, Times(Plus(Q, U), delta)), Times(Plus(R, V), dd))
    BY <2>5, <2>6, <2>7, <2>8
  <2>10. Plus(P, Times(Plus(Q, U), delta)) \in F /\ Times(Plus(R, V), dd) \in F
    BY <1>10, <2>1, Closed
  <2> QED BY <2>9, <2>10, Closed DEF dd
<1>14. check \in [F -> F]
  BY <1>13
<1> HIDE DEF check
<1>15. Binds(Simple(<<P, Plus(Q, U)>>, Plus(R, V), check))
  BY <1>13 DEF Binds, Simple
<1>16. Plus(Q, U) \in F /\ Plus(R, V) \in F
  BY <1>10, Closed
<1> QED BY <1>1, <1>10, <1>14, <1>15, <1>16, BindsSound DEF Simple
-----------------------------------------------------------------------------
(***************************************************************************)
(* What each backend call records.                                         *)
(***************************************************************************)

(* assert_zero. *)
LEMMA ZeroSound ==
  ASSUME NEW a \in Wires
  PROVE  ZeroConstraint(a) \in Simples
<1> DEFINE check == [delta \in F |-> Times(delta, a.key[delta])]
<1>1. a \in WireType /\ Matched(a) /\ a.tag \in F /\ a.value \in F
  BY DEF Wires, WireType
<1>2. \A delta \in F : Times(delta, a.key[delta]) \in F
  BY <1>1, Closed DEF WireType
<1>3. check \in [F -> F]
  BY <1>2
<1>4. Zero \in F
  BY FieldAssumption
<1>5. ZeroConstraint(a) = Simple(<<Zero, a.tag>>, a.value, check)
  BY DEF ZeroConstraint
<1>6. Binds(ZeroConstraint(a))
  BY <1>1, ZeroCheckBinds
<1> HIDE DEF check
<1> QED BY <1>1, <1>3, <1>4, <1>5, <1>6, BindsSound

(* assert_mul. *)
LEMMA MulSound ==
  ASSUME NEW a \in Wires, NEW b \in Wires, NEW c \in Wires
  PROVE  MulConstraint(a, b, c) \in Simples
<1> DEFINE check == [delta \in F |->
                      Plus(Times(a.key[delta], b.key[delta]), Times(delta, c.key[delta]))]
           p == Times(a.tag, b.tag)
           q == Plus(Plus(Times(a.value, b.tag), Times(b.value, a.tag)), c.tag)
           error == Plus(Times(a.value, b.value), c.value)
<1>1. /\ a \in WireType /\ b \in WireType /\ c \in WireType
      /\ Matched(a) /\ Matched(b) /\ Matched(c)
  BY DEF Wires
<1>2. ASSUME NEW delta \in F
      PROVE  check[delta] \in F
  <2>1. a.key[delta] \in F /\ b.key[delta] \in F /\ c.key[delta] \in F
    BY <1>1 DEF WireType
  <2> QED BY <2>1, Closed
<1>3. check \in [F -> F]
  BY <1>2
<1>4. p \in F /\ q \in F /\ error \in F
  <2>1. /\ a.tag \in F /\ b.tag \in F /\ c.tag \in F
        /\ a.value \in F /\ b.value \in F /\ c.value \in F
    BY <1>1 DEF WireType
  <2> QED BY <2>1, Closed
<1>5. MulConstraint(a, b, c) = Simple(<<p, q>>, error, check)
  BY DEF MulConstraint
<1>6. Binds(MulConstraint(a, b, c))
  BY <1>1, MulCheckBinds
<1> HIDE DEF check, p, q, error
<1> QED BY <1>3, <1>4, <1>5, <1>6, BindsSound

(* assert_expr_zero: the leading coefficient is the error. *)
LEMMA ExprZeroSound ==
  ASSUME NEW e \in Exprs
  PROVE  Simple(Front(e.coefficients), Last(e.coefficients), e.evaluation) \in Simples
<1> DEFINE c == e.coefficients
           n == Len(c) - 1
           front == SubSeq(c, 1, n)
           s == Simple(front, c[n + 1], e.evaluation)
<1>1. c \in Seq(F) /\ Len(c) >= 1 /\ e.evaluation \in [F -> F]
  BY DEF Exprs
<1>2. n \in Nat /\ n + 1 = Len(c)
  BY <1>1
<1>3. front \in Seq(F) /\ Len(front) = n /\ \A k \in 1 .. n : front[k] = c[k]
  BY <1>1, <1>2
<1>4. Summable(n + 1, c)
  BY <1>1, <1>2, SequenceSummable
<1>5. c[n + 1] \in F
  BY <1>2, <1>4 DEF Summable
<1>6. Simple(Front(c), Last(c), e.evaluation) = s
  BY <1>2 DEF Front, Last
<1>7. /\ s.kind = "simple" /\ s.published = front /\ s.error = c[n + 1] /\ s.check = e.evaluation
      /\ s = [kind |-> "simple", published |-> front, error |-> c[n + 1], check |-> e.evaluation]
  BY DEF Simple
<1>8. ASSUME NEW delta \in F
      PROVE  e.evaluation[delta] = Plus(Evaluate(front, delta), Times(c[n + 1], Power(delta, n)))
  <2>1. e.evaluation[delta] = Poly(n + 1, c, delta)
    BY <1>2, EvaluateIsPoly DEF Exprs
  <2> HIDE DEF c, n, front
  <2>2. Poly(n + 1, c, delta) = Plus(Poly(n, c, delta), Times(c[n + 1], Power(delta, n)))
    BY <1>2, <1>4, PolyLast
  <2>3. Summable(n, c)
    BY <1>2, <1>4 DEF Summable
  <2>4. Poly(n, front, delta) = Poly(n, c, delta)
    BY <1>2, <1>3, <2>3, PolyAgrees
  <2>5. Evaluate(front, delta) = Poly(n, front, delta)
    BY <1>3, EvaluateIsPoly
  <2> QED BY <2>1, <2>2, <2>4, <2>5
<1>9. Sound(s)
  BY <1>3, <1>7, <1>8 DEF Sound
<1> HIDE DEF c, n, front, s
<1>10. s \in Simples
  BY <1>1, <1>3, <1>5, <1>7, <1>9 DEF Simples, c
<1> QED BY <1>6, <1>10 DEF c

(* wire_expr. *)
LEMMA WireExprMatches ==
  ASSUME NEW a \in Wires
  PROVE  [coefficients |-> <<a.tag, a.value>>, evaluation |-> a.key] \in Exprs
<1>1. a.tag \in F /\ a.value \in F /\ a.key \in [F -> F]
  BY DEF Wires, WireType
<1>2. \A delta \in F : a.key[delta] = Evaluate(<<a.tag, a.value>>, delta)
  BY <1>1, EvaluatePair DEF Wires, Matched
<1> DEFINE c == <<a.tag, a.value>>
<1>3. c \in Seq(F) /\ Len(c) >= 1
  BY <1>1
<1> DEFINE key == a.key
<1>4. key \in [F -> F] /\ \A delta \in F : key[delta] = Evaluate(c, delta)
  BY <1>1, <1>2
<1> HIDE DEF c, key
<1>5. [coefficients |-> c, evaluation |-> key] \in Exprs
  BY <1>3, <1>4 DEF Exprs
<1> QED BY <1>5 DEF c, key

(* A function on 1 .. n is a sequence of length n. *)
LEMMA CoefficientsAreSeq ==
  ASSUME NEW n \in Nat, NEW c \in [1 .. n -> F]
  PROVE  c \in Seq(F) /\ Len(c) = n /\ Summable(n, c)
<1>1. c \in Seq(F) /\ DOMAIN c = 1 .. n
  BY IsASeq
<1> QED BY <1>1, LenProperties DEF Summable

(* expr_add: the lower degree is aligned on both sides. *)
LEMMA ExprSumMatches ==
  ASSUME NEW a \in Exprs, NEW b \in Exprs
  PROVE  LET degree == Larger(Degree(a), Degree(b))
             p == Aligned(a.coefficients, degree + 1)
             q == Aligned(b.coefficients, degree + 1)
         IN [coefficients |-> [k \in 1 .. degree + 1 |-> Plus(p[k], q[k])],
             evaluation |-> [delta \in F |->
               Plus(AlignedEvaluation(a, degree)[delta],
                    AlignedEvaluation(b, degree)[delta])]] \in Exprs
<1> DEFINE degree == Larger(Degree(a), Degree(b))
           p == Aligned(a.coefficients, degree + 1)
           q == Aligned(b.coefficients, degree + 1)
           r == [k \in 1 .. degree + 1 |-> Plus(p[k], q[k])]
           evaluation == [delta \in F |->
               Plus(AlignedEvaluation(a, degree)[delta], AlignedEvaluation(b, degree)[delta])]
<1>1. /\ a.coefficients \in Seq(F) /\ b.coefficients \in Seq(F)
      /\ Len(a.coefficients) \in Nat /\ Len(b.coefficients) \in Nat
      /\ Len(a.coefficients) >= 1 /\ Len(b.coefficients) >= 1
      /\ a.evaluation \in [F -> F] /\ b.evaluation \in [F -> F]
  BY DEF Exprs
<1>2. /\ degree \in Nat /\ degree + 1 \in Nat
      /\ Len(a.coefficients) <= degree + 1 /\ Len(b.coefficients) <= degree + 1
      /\ (degree + 1) - Len(a.coefficients) = degree - Degree(a)
      /\ (degree + 1) - Len(b.coefficients) = degree - Degree(b)
      /\ degree - Degree(a) \in Nat /\ degree - Degree(b) \in Nat
  BY <1>1 DEF Larger, Degree
<1> HIDE DEF degree
<1>3. p \in [1 .. degree + 1 -> F] /\ q \in [1 .. degree + 1 -> F]
  BY <1>1, <1>2, AlignedClosed
<1>4. /\ Summable(degree + 1, p) /\ Summable(degree + 1, q)
      /\ \A k \in 1 .. degree + 1 : r[k] = Plus(p[k], q[k])
  BY <1>3 DEF Summable
<1>5. r \in [1 .. degree + 1 -> F]
  <2>1. \A k \in 1 .. degree + 1 : p[k] \in F /\ q[k] \in F
    BY <1>4 DEF Summable
  <2> HIDE DEF p, q
  <2> QED BY <2>1, Closed
<1> HIDE DEF r
<1>6. r \in Seq(F) /\ Len(r) = degree + 1
  BY <1>2, <1>5, CoefficientsAreSeq
<1>7. ASSUME NEW delta \in F
      PROVE  evaluation[delta] = Evaluate(r, delta) /\ evaluation[delta] \in F
  <2>1. evaluation[delta] = Plus(Times(a.evaluation[delta], Power(delta, degree - Degree(a))),
                                 Times(b.evaluation[delta], Power(delta, degree - Degree(b))))
    BY DEF AlignedEvaluation
  <2>2. /\ a.evaluation[delta] = Evaluate(a.coefficients, delta)
        /\ b.evaluation[delta] = Evaluate(b.coefficients, delta)
    BY DEF Exprs
  <2>3. /\ Poly(degree + 1, p, delta) = Times(a.evaluation[delta], Power(delta, degree - Degree(a)))
        /\ Poly(degree + 1, q, delta) = Times(b.evaluation[delta], Power(delta, degree - Degree(b)))
    BY <1>1, <1>2, <2>2, AlignedEvaluates
  <2> HIDE DEF p, q, evaluation
  <2>4. Poly(degree + 1, r, delta) = Plus(Poly(degree + 1, p, delta), Poly(degree + 1, q, delta))
    BY <1>2, <1>4, PolyPlus
  <2>5. Evaluate(r, delta) = Poly(degree + 1, r, delta)
    BY <1>6, EvaluateIsPoly
  <2> QED BY <1>6, <2>1, <2>3, <2>4, <2>5, EvaluateClosed
<1>8. evaluation \in [F -> F]
  BY <1>7
<1> HIDE DEF evaluation
<1>9. [coefficients |-> r, evaluation |-> evaluation] \in Exprs
  BY <1>2, <1>6, <1>7, <1>8 DEF Exprs
<1> QED BY <1>9 DEF r, evaluation, degree

(* expr_mul: the convolution of the coefficients. *)
LEMMA ExprProductMatches ==
  ASSUME NEW a \in Exprs, NEW b \in Exprs
  PROVE  LET p == a.coefficients
             q == b.coefficients
             Term(k, i) == IF k + 1 - i \in 1 .. Len(q) THEN Times(p[i], q[k + 1 - i]) ELSE Zero
         IN [coefficients |-> [k \in 1 .. Degree(a) + Degree(b) + 1 |->
                                SumOf(Len(p), [i \in 1 .. Len(p) |-> Term(k, i)])],
             evaluation |-> [delta \in F |-> Times(a.evaluation[delta], b.evaluation[delta])]]
               \in Exprs
<1> DEFINE p == a.coefficients
           q == b.coefficients
           n == Degree(a) + Degree(b) + 1
           r == [k \in 1 .. n |-> SumOf(Len(p), [i \in 1 .. Len(p) |-> ProductTerm(p, q, i, k)])]
           evaluation == [delta \in F |-> Times(a.evaluation[delta], b.evaluation[delta])]
<1>1. /\ p \in Seq(F) /\ q \in Seq(F)
      /\ Len(p) \in Nat /\ Len(q) \in Nat
      /\ Len(p) >= 1 /\ Len(q) >= 1
      /\ a.evaluation \in [F -> F] /\ b.evaluation \in [F -> F]
  BY DEF Exprs
<1>2. n \in Nat /\ n >= 1 /\ Len(p) + Len(q) <= n + 1
  <2>1. n = (Len(p) - 1) + (Len(q) - 1) + 1
    BY DEF Degree
  <2> HIDE DEF p, q, n
  <2> QED BY <1>1, <2>1
<1>3. \A k \in 1 .. n : r[k] = SumOf(Len(p), [i \in 1 .. Len(p) |-> ProductTerm(p, q, i, k)])
  OBVIOUS
<1>4. ASSUME NEW delta \in F
      PROVE  /\ Summable(n, r)
             /\ Poly(n, r, delta) = Times(Evaluate(p, delta), Evaluate(q, delta))
  <2> HIDE DEF p, q, n, r
  <2> QED BY <1>1, <1>2, <1>3, ProductEvaluates
<1>5. Summable(n, r)
  BY <1>4, FieldAssumption
<1>6. r \in [1 .. n -> F]
  <2>1. \A k \in 1 .. n : r[k] \in F
    BY <1>5 DEF Summable
  <2>2. r = [k \in 1 .. n |-> r[k]]
    OBVIOUS
  <2> HIDE DEF r
  <2> QED BY <2>1, <2>2
<1>7. [coefficients |-> r, evaluation |-> evaluation] \in Exprs
  <2> HIDE DEF r, n
  <2>1. r \in Seq(F) /\ Len(r) = n
    BY <1>2, <1>6, CoefficientsAreSeq
  <2>2. ASSUME NEW delta \in F
        PROVE  evaluation[delta] = Evaluate(r, delta) /\ evaluation[delta] \in F
    <3>1. evaluation[delta] = Times(Evaluate(p, delta), Evaluate(q, delta))
      BY DEF Exprs
    <3>2. Evaluate(r, delta) = Poly(n, r, delta)
      BY <2>1, EvaluateIsPoly
    <3> HIDE DEF p, q, evaluation
    <3> QED BY <1>4, <2>1, <3>1, <3>2, EvaluateClosed
  <2>3. evaluation \in [F -> F]
    BY <2>2
  <2> HIDE DEF evaluation
  <2> QED BY <1>2, <2>1, <2>2, <2>3 DEF Exprs
<1> QED BY <1>7 DEF ProductTerm
-----------------------------------------------------------------------------
(***************************************************************************)
(* The batch.                                                              *)
(***************************************************************************)
MaskType == [value : F, tag : F]

(* The stream and masks of a proof reach as far as the batch draws. *)
Drawn(stream, masks) ==
  /\ stream \in Seq(F) /\ masks \in Seq(MaskType)
  /\ Supplied(stream, masks)

(* proof.rs: with the challenges that the stream holds for it, every
   constraint is a sound one of the counted degree. *)
LEMMA ResolvedSound ==
  ASSUME constraints \in Seq(Constraints), NEW k \in 1 .. Len(constraints),
         NEW stream \in Seq(F), Position(Len(constraints) + 1) <= Len(stream)
  PROVE  /\ Resolved(k, stream) \in Simples
         /\ ConstraintDegree(Resolved(k, stream)) = CountedDegree(k)
         /\ Chi(k, stream) \in F
<1>1. /\ Position(k) \in Nat /\ Draws(k) \in Nat \ {0} /\ Len(stream) \in Nat
      /\ Position(k) + Draws(k) <= Len(stream)
  BY PositionsFollow, CountsTyped
<1>2. Chi(k, stream) \in F
  <2>1. Position(k) + Draws(k) \in 1 .. Len(stream)
    BY <1>1
  <2> QED BY <2>1, ElementOfSeq DEF Chi
<1>3. CASE IsSystem(k)
  <2>1. constraints[k] \in Systems
    BY <1>3, KindsDiffer
  <2>2. Len(constraints[k].linear) \in Nat /\ Draws(k) = Len(constraints[k].linear) + 1
    BY <1>3, <2>1 DEF Systems, Draws
  <2>3. Summable(Len(constraints[k].linear), Phi(k, stream))
    <3> DEFINE first == Position(k) + 1
               last == Position(k) + Draws(k) - 1
    <3>1. /\ first \in Int /\ last \in Int /\ \A i \in first .. last : i \in 1 .. Len(stream)
          /\ (IF first <= last THEN last - first + 1 ELSE 0) = Len(constraints[k].linear)
      <4> DEFINE at == Position(k)
                 l == Len(constraints[k].linear)
                 drawn == Draws(k)
      <4>1. /\ at \in Nat /\ l \in Nat /\ drawn = l + 1
            /\ Len(stream) \in Nat /\ at + drawn <= Len(stream)
        BY <1>1, <2>2
      <4>2. first = at + 1 /\ last = at + drawn - 1
        OBVIOUS
      <4> HIDE DEF at, l, drawn, first, last
      <4>3. last = at + l
        BY <4>1, <4>2
      <4>4. (IF first <= last THEN last - first + 1 ELSE 0) = l
        BY <4>1, <4>2, <4>3
      <4> QED BY <4>1, <4>2, <4>3, <4>4 DEF l
    <3>2. \A i \in first .. last : stream[i] \in F
      BY <3>1, ElementOfSeq
    <3>3. Phi(k, stream) = SubSeq(stream, first, last)
      BY DEF Phi
    <3> HIDE DEF first, last
    <3>4. Phi(k, stream) \in Seq(F) /\ Len(Phi(k, stream)) = Len(constraints[k].linear)
      BY <3>1, <3>2, <3>3, SubSeqProperties
    <3> QED BY <3>4, SequenceSummable
  <2>4. Resolved(k, stream) = Folded(constraints[k], Phi(k, stream))
    BY <1>3 DEF Resolved
  <2>5. Resolved(k, stream) \in Simples /\ Len(Resolved(k, stream).published) = 2
    BY <2>1, <2>3, <2>4, FoldedSound
  <2> QED BY <1>2, <1>3, <2>5 DEF ConstraintDegree, CountedDegree
<1>4. CASE ~IsSystem(k)
  <2>1. constraints[k] \in Simples /\ Resolved(k, stream) = constraints[k]
    BY <1>4, KindsDiffer DEF Resolved
  <2> QED BY <1>2, <1>4, <2>1 DEF CountedDegree
<1> QED BY <1>3, <1>4

(* The challenges of the batch are field elements. *)
LEMMA BatchedClosed ==
  ASSUME constraints \in Seq(Constraints), NEW stream \in Seq(F),
         Position(Len(constraints) + 1) <= Len(stream)
  PROVE  /\ Len(constraints) \in Nat
         /\ Summable(Len(constraints), [k \in 1 .. Len(constraints) |-> Chi(k, stream)])
<1>1. Len(constraints) \in Nat
  OBVIOUS
<1>2. \A k \in 1 .. Len(constraints) : Chi(k, stream) \in F
  BY ResolvedSound
<1> QED BY <1>1, <1>2 DEF Summable

(* The masks of every coefficient are field elements. *)
LEMMA MasksClosed ==
  ASSUME constraints \in Seq(Constraints), NEW masks \in Seq(MaskType),
         MaxDegree - 1 <= Len(masks)
  PROVE  /\ \A j \in 1 .. MaxDegree - 1 : masks[j].tag \in F /\ masks[j].value \in F
         /\ \A i \in 1 .. MaxDegree : MaskCoefficient(masks, i) \in F
<1>1. MaxDegree \in Nat /\ Len(masks) \in Nat
  BY MaxDegreeBounds
<1>2. ASSUME NEW j \in 1 .. MaxDegree - 1
      PROVE  masks[j].tag \in F /\ masks[j].value \in F
  <2>1. j \in 1 .. Len(masks)
    BY <1>1
  <2>2. masks[j] \in MaskType
    BY <2>1, ElementOfSeq
  <2> QED BY <2>2 DEF MaskType
<1>3. ASSUME NEW i \in 1 .. MaxDegree
      PROVE  MaskCoefficient(masks, i) \in F
  <2>1. i < MaxDegree => masks[i].tag \in F
    BY <1>1, <1>2
  <2>2. i > 1 => masks[i - 1].value \in F
    <3>1. i > 1 => i - 1 \in 1 .. MaxDegree - 1
      BY <1>1
    <3> QED BY <1>2, <3>1
  <2>3. Zero \in F
    BY FieldAssumption
  <2> QED BY <2>1, <2>2, <2>3, Closed DEF MaskCoefficient
<1> QED BY <1>2, <1>3

(* proof.rs prove publishes field elements. *)
LEMMA ProvedClosed ==
  ASSUME constraints \in Seq(Constraints), NEW stream, NEW masks, Drawn(stream, masks)
  PROVE  ProvedCoefficients(stream, masks) \in [1 .. MaxDegree -> F]
<1> DEFINE n == Len(constraints)
           w == [k \in 1 .. n |-> Chi(k, stream)]
<1>1. /\ stream \in Seq(F) /\ masks \in Seq(MaskType)
      /\ Position(n + 1) <= Len(stream) /\ MaxDegree - 1 <= Len(masks)
  BY DEF Drawn, Supplied
<1>2. n \in Nat /\ Summable(n, w) /\ MaxDegree \in Nat
  BY <1>1, BatchedClosed, MaxDegreeBounds
<1>3. ASSUME NEW i \in 1 .. MaxDegree
      PROVE  ProvedCoefficients(stream, masks)[i] \in F
  <2> DEFINE a == [k \in 1 .. n |-> Aligned(Resolved(k, stream).published, MaxDegree)[i]]
  <2>1. ASSUME NEW k \in 1 .. n
        PROVE  Aligned(Resolved(k, stream).published, MaxDegree)[i] \in F
    <3>1. Resolved(k, stream).published \in Seq(F)
      BY <1>1, ResolvedSound DEF Simples
    <3>2. Aligned(Resolved(k, stream).published, MaxDegree) \in [1 .. MaxDegree -> F]
      BY <1>2, <3>1, AlignedClosed
    <3> QED BY <3>2
  <2>2. Summable(n, a)
    BY <2>1 DEF Summable
  <2>3. ProvedCoefficients(stream, masks)[i] = Plus(MaskCoefficient(masks, i), Weighted(n, w, a))
    BY DEF ProvedCoefficients, Batched
  <2> HIDE DEF w, a, n
  <2>4. Weighted(n, w, a) \in F
    BY <1>2, <2>2, WeightedClosed
  <2>5. MaskCoefficient(masks, i) \in F
    BY <1>1, MasksClosed
  <2> QED BY <2>3, <2>4, <2>5, Closed
<1> QED BY <1>3 DEF ProvedCoefficients
-----------------------------------------------------------------------------
(***************************************************************************)
(* The invariant of all backend calls and of the proof.                    *)
(***************************************************************************)

(* A published proof has field coefficients, and an honest one those that
   prove computes for constraints whose values are all zero. *)
ProofInv ==
  phase = "proved" =>
    /\ Drawn(proof.stream, proof.masks)
    /\ proof.coefficients \in [1 .. MaxDegree -> F]
    /\ proof.honest =>
         /\ proof.coefficients = ProvedCoefficients(proof.stream, proof.masks)
         /\ \A k \in 1 .. Len(constraints) : Resolved(k, proof.stream).error = Zero

CircuitInv ==
  /\ WireInv
  /\ exprs \subseteq Exprs
  /\ constraints \in Seq(Constraints)
  /\ ProofInv

(* The empty circuit has all of it. *)
LEMMA CircuitInvInit == Init => CircuitInv
<1> SUFFICES ASSUME Init
             PROVE  CircuitInv
  OBVIOUS
<1>1. exprs = {} /\ constraints = <<>> /\ phase = "build"
  BY DEF Init
<1>2. constraints \in Seq(Constraints)
  BY <1>1
<1> QED BY <1>1, <1>2, WireInvInit DEF CircuitInv, ProofInv

(* Wires of the invariant have matching keys. *)
LEMMA WiresAreTyped ==
  ASSUME CircuitInv
  PROVE  wires \subseteq Wires
BY DEF CircuitInv, WireInv, WireKeysMatch, Wires, Matched

(* The batch depends on the recorded constraints only. *)
LEMMA BatchKept ==
  ASSUME UNCHANGED constraints, NEW stream, NEW masks
  PROVE  /\ MaxDegree' = MaxDegree
         /\ Supplied(stream, masks)' = Supplied(stream, masks)
         /\ ProvedCoefficients(stream, masks)' = ProvedCoefficients(stream, masks)
         /\ \A k : Resolved(k, stream)' = Resolved(k, stream)
<1>1. MaxDegree' = MaxDegree
  BY DEF MaxDegree, CountedDegree, IsSystem, ConstraintDegree
<1>2. Supplied(stream, masks)' = Supplied(stream, masks)
  BY <1>1 DEF Supplied, Position, Draws, IsSystem
<1>3. ProvedCoefficients(stream, masks)' = ProvedCoefficients(stream, masks)
  BY DEF ProvedCoefficients, MaxDegree, CountedDegree, IsSystem, ConstraintDegree,
         Batched, Chi, Phi, Position, Draws, Resolved, MaskCoefficient
<1>4. \A k : Resolved(k, stream)' = Resolved(k, stream)
  BY DEF Resolved, IsSystem, Phi, Position, Draws
<1> QED BY <1>1, <1>2, <1>3, <1>4

(* Calls that record nothing leave the circuit as it is. *)
LEMMA CircuitKept ==
  ASSUME CircuitInv, WireInv', UNCHANGED <<exprs, constraints>>, phase' # "proved"
  PROVE  CircuitInv'
BY DEF CircuitInv, ProofInv

(* A new expression that matches keeps the invariant. *)
LEMMA NewExprKeeps ==
  ASSUME CircuitInv, WireInv', NEW e \in Exprs, NewExpr(e)
  PROVE  CircuitInv'
<1>1. /\ exprs' = exprs \cup {e} /\ constraints' = constraints /\ phase' = "build"
  BY DEF NewExpr, Building
<1> QED BY <1>1 DEF CircuitInv, ProofInv

(* So does a new constraint that is sound. *)
LEMMA NewConstraintKeeps ==
  ASSUME CircuitInv, WireInv', NEW c \in Constraints, NewConstraint(c)
  PROVE  CircuitInv'
<1>1. /\ exprs' = exprs /\ constraints' = Append(constraints, c) /\ phase' = "build"
  BY DEF NewConstraint, Building
<1>2. constraints' \in Seq(Constraints)
  BY <1>1, AppendProperties DEF CircuitInv
<1> QED BY <1>1, <1>2 DEF CircuitInv, ProofInv

(* assert_quad_system of one product, as Next calls it. *)
LEMMA SystemTyped ==
  ASSUME NEW a \in Wires, NEW b \in Wires, NEW c \in Wires, NEW v \in Seq(F)
  PROVE  [kind |-> "system", terms |-> <<[a |-> a, b |-> b, coefficients |-> v]>>,
          linear |-> [e \in DOMAIN v |-> c]] \in Constraints
<1> DEFINE term == [a |-> a, b |-> b, coefficients |-> v]
           terms == <<term>>
           linear == [e \in DOMAIN v |-> c]
<1>1. term \in Terms /\ term.coefficients = v
  BY DEF Terms
<1> HIDE DEF term
<1>2. terms \in Seq(Terms) /\ Len(terms) = 1 /\ terms[1] = term
  BY <1>1
<1>3. DOMAIN v = 1 .. Len(v) /\ Len(v) \in Nat
  OBVIOUS
<1>4. linear \in [1 .. Len(v) -> Wires]
  BY <1>3
<1>5. linear \in Seq(Wires) /\ Len(linear) = Len(v)
  <2>1. linear \in Seq(Wires) /\ DOMAIN linear = 1 .. Len(v)
    BY <1>3, <1>4, IsASeq
  <2> HIDE DEF linear
  <2> QED BY <1>3, <2>1, LenProperties
<1>6. \A t \in 1 .. Len(terms) : Len(terms[t].coefficients) = Len(linear)
  BY <1>1, <1>2, <1>5
<1> HIDE DEF terms, linear
<1>7. [kind |-> "system", terms |-> terms, linear |-> linear] \in Systems
  BY <1>2, <1>5, <1>6 DEF Systems
<1> QED BY <1>7 DEF Constraints, terms, linear, term

(* Every step keeps it. *)
LEMMA CircuitInvStep == CircuitInv /\ [Next]_vars => CircuitInv'
<1> SUFFICES ASSUME CircuitInv, [Next]_vars
             PROVE  CircuitInv'
  OBVIOUS
<1>1. WireInv'
  BY WireInvStep DEF CircuitInv
<1>2. wires \subseteq Wires /\ exprs \subseteq Exprs
  BY WiresAreTyped DEF CircuitInv
<1>3. CASE WitnessBit
  BY <1>1, <1>3, CircuitKept DEF WitnessBit, NewWire, Building
<1>4. ASSUME NEW c, Constant(c)
      PROVE  CircuitInv'
  BY <1>1, <1>4, CircuitKept DEF Constant, NewWire, Building
<1>5. ASSUME NEW a, NEW b, Add(a, b)
      PROVE  CircuitInv'
  BY <1>1, <1>5, CircuitKept DEF Add, NewWire, Building
<1>6. ASSUME NEW c, NEW a, Scale(c, a)
      PROVE  CircuitInv'
  BY <1>1, <1>6, CircuitKept DEF Scale, NewWire, Building
<1>7. ASSUME NEW a \in wires, WireExpr(a)
      PROVE  CircuitInv'
  <2>1. [coefficients |-> <<a.tag, a.value>>, evaluation |-> a.key] \in Exprs
    BY <1>2, WireExprMatches
  <2> QED BY <1>1, <1>7, <2>1, NewExprKeeps DEF WireExpr
<1>8. ASSUME NEW a \in exprs, NEW b \in exprs, ExprAdd(a, b)
      PROVE  CircuitInv'
  <2>1. a \in Exprs /\ b \in Exprs
    BY <1>2
  <2> DEFINE degree == Larger(Degree(a), Degree(b))
             p == Aligned(a.coefficients, degree + 1)
             q == Aligned(b.coefficients, degree + 1)
             e == [coefficients |-> [k \in 1 .. degree + 1 |-> Plus(p[k], q[k])],
                   evaluation |-> [delta \in F |->
                     Plus(AlignedEvaluation(a, degree)[delta],
                          AlignedEvaluation(b, degree)[delta])]]
  <2>2. e \in Exprs
    BY <2>1, ExprSumMatches
  <2>3. NewExpr(e)
    BY <1>8 DEF ExprAdd
  <2> HIDE DEF e
  <2> QED BY <1>1, <2>2, <2>3, NewExprKeeps
<1>9. ASSUME NEW a \in exprs, NEW b \in exprs, ExprMul(a, b)
      PROVE  CircuitInv'
  <2>1. a \in Exprs /\ b \in Exprs
    BY <1>2
  <2> DEFINE p == a.coefficients
             q == b.coefficients
             Term(k, i) == IF k + 1 - i \in 1 .. Len(q) THEN Times(p[i], q[k + 1 - i]) ELSE Zero
             e == [coefficients |-> [k \in 1 .. Degree(a) + Degree(b) + 1 |->
                                      SumOf(Len(p), [i \in 1 .. Len(p) |-> Term(k, i)])],
                   evaluation |-> [delta \in F |-> Times(a.evaluation[delta], b.evaluation[delta])]]
  <2>2. e \in Exprs
    BY <2>1, ExprProductMatches
  <2>3. NewExpr(e)
    BY <1>9 DEF ExprMul
  <2> HIDE DEF e
  <2> QED BY <1>1, <2>2, <2>3, NewExprKeeps
<1>10. ASSUME NEW a, NEW b, ExprMulTooHigh(a, b)
       PROVE  CircuitInv'
  BY <1>1, <1>10, CircuitKept DEF ExprMulTooHigh, circuit
<1>11. ASSUME NEW a \in wires, AssertZero(a)
       PROVE  CircuitInv'
  <2>1. ZeroConstraint(a) \in Constraints
    BY <1>2, ZeroSound DEF Constraints
  <2> QED BY <1>1, <1>11, <2>1, NewConstraintKeeps DEF AssertZero
<1>12. ASSUME NEW a \in wires, NEW b \in wires, NEW c \in wires, AssertMul(a, b, c)
       PROVE  CircuitInv'
  <2>1. MulConstraint(a, b, c) \in Constraints
    BY <1>2, MulSound DEF Constraints
  <2> QED BY <1>1, <1>12, <2>1, NewConstraintKeeps DEF AssertMul
<1>13. ASSUME NEW expr \in exprs, AssertExprZero(expr)
       PROVE  CircuitInv'
  <2>1. Simple(Front(expr.coefficients), Last(expr.coefficients), expr.evaluation) \in Constraints
    BY <1>2, ExprZeroSound DEF Constraints
  <2> QED BY <1>1, <1>13, <2>1, NewConstraintKeeps DEF AssertExprZero
<1>14. ASSUME NEW a \in wires, NEW b \in wires, NEW c \in wires, NEW v \in Coefficients,
              AssertQuadSystem(<<[a |-> a, b |-> b, coefficients |-> v]>>, [e \in DOMAIN v |-> c])
       PROVE  CircuitInv'
  <2>1. v \in Seq(F)
    BY InputsAssumption
  <2>2. [kind |-> "system", terms |-> <<[a |-> a, b |-> b, coefficients |-> v]>>,
         linear |-> [e \in DOMAIN v |-> c]] \in Constraints
    BY <1>2, <2>1, SystemTyped
  <2> QED BY <1>1, <1>14, <2>2, NewConstraintKeeps DEF AssertQuadSystem
<1>15. CASE RefuseMismatch
  BY <1>1, <1>15, CircuitKept DEF RefuseMismatch, circuit
<1>16. ASSUME NEW stream \in Streams, NEW masks \in Masks, Prove(stream, masks)
       PROVE  CircuitInv'
  <2>1. UNCHANGED <<exprs, constraints>>
    BY <1>16 DEF Prove, circuit
  <2>2. CASE phase' # "proved"
    BY <1>1, <2>1, <2>2, CircuitKept
  <2>3. CASE phase' = "proved"
    <3>1. /\ \A k \in DOMAIN constraints : Satisfied(k) /\ Resolved(k, stream).error = Zero
          /\ proof' = [coefficients |-> ProvedCoefficients(stream, masks),
                       stream |-> stream, masks |-> masks, honest |-> TRUE]
          /\ Supplied(stream, masks)
      BY <1>16, <2>3 DEF Prove
    <3>2. constraints \in Seq(Constraints) /\ DOMAIN constraints = 1 .. Len(constraints)
      BY DEF CircuitInv
    <3>3. Drawn(stream, masks)
      BY <3>1, InputsAssumption DEF Drawn, MaskType
    <3>4. ProvedCoefficients(stream, masks) \in [1 .. MaxDegree -> F]
      BY <3>2, <3>3, ProvedClosed
    <3>5. /\ proof'.coefficients = ProvedCoefficients(stream, masks)
          /\ proof'.stream = stream /\ proof'.masks = masks
      BY <3>1
    <3>6. /\ MaxDegree' = MaxDegree /\ Supplied(stream, masks)'
          /\ ProvedCoefficients(stream, masks)' = ProvedCoefficients(stream, masks)
          /\ \A k \in 1 .. Len(constraints') : Resolved(k, stream)'.error = Zero
      BY <2>1, <3>1, <3>2, BatchKept
    <3>7. ProofInv'
      <4>1. Drawn(proof.stream, proof.masks)'
        BY <3>3, <3>5, <3>6 DEF Drawn
      <4>2. (proof.coefficients \in [1 .. MaxDegree -> F])'
        BY <3>4, <3>5, <3>6
      <4>3. (proof.coefficients = ProvedCoefficients(proof.stream, proof.masks))'
        BY <3>5, <3>6
      <4>4. (\A k \in 1 .. Len(constraints) : Resolved(k, proof.stream).error = Zero)'
        BY <3>5, <3>6
      <4> QED BY <4>1, <4>2, <4>3, <4>4 DEF ProofInv
    <3> QED BY <1>1, <2>1, <3>7 DEF CircuitInv
  <2> QED BY <2>2, <2>3
<1>17. ASSUME NEW stream \in Streams, NEW masks \in Masks, NEW offset \in Forgeries,
              Forge(stream, masks, offset)
       PROVE  CircuitInv'
  <2>1. UNCHANGED <<exprs, constraints>>
    BY <1>17 DEF Forge, circuit
  <2> DEFINE forged == [i \in 1 .. MaxDegree |->
                Plus(ProvedCoefficients(stream, masks)[i], Aligned(offset, MaxDegree)[i])]
  <2>2. /\ Supplied(stream, masks)
        /\ proof' = [coefficients |-> forged, stream |-> stream, masks |-> masks, honest |-> FALSE]
    BY <1>17 DEF Forge
  <2>3. constraints \in Seq(Constraints)
    BY DEF CircuitInv
  <2>4. Drawn(stream, masks)
    BY <2>2, InputsAssumption DEF Drawn, MaskType
  <2>5. forged \in [1 .. MaxDegree -> F]
    <3>1. ProvedCoefficients(stream, masks) \in [1 .. MaxDegree -> F]
      BY <2>3, <2>4, ProvedClosed
    <3>2. Aligned(offset, MaxDegree) \in [1 .. MaxDegree -> F]
      BY <2>3, MaxDegreeBounds, AlignedClosed, InputsAssumption
    <3>3. ASSUME NEW i \in 1 .. MaxDegree
          PROVE  Plus(ProvedCoefficients(stream, masks)[i], Aligned(offset, MaxDegree)[i]) \in F
      BY <3>1, <3>2, Closed
    <3> QED BY <3>3
  <2> HIDE DEF forged
  <2>6. /\ proof'.coefficients = forged /\ proof'.honest = FALSE
        /\ proof'.stream = stream /\ proof'.masks = masks
    BY <2>2
  <2>7. MaxDegree' = MaxDegree /\ Supplied(stream, masks)'
    BY <2>1, <2>2, BatchKept
  <2>8. ProofInv'
    <3>1. Drawn(proof.stream, proof.masks)'
      BY <2>4, <2>6, <2>7 DEF Drawn
    <3>2. (proof.coefficients \in [1 .. MaxDegree -> F])'
      BY <2>5, <2>6, <2>7
    <3> QED BY <2>6, <3>1, <3>2 DEF ProofInv
  <2> QED BY <1>1, <2>1, <2>8 DEF CircuitInv
<1>18. CASE UNCHANGED vars
  <2>1. UNCHANGED <<exprs, constraints, phase, proof>>
    BY <1>18 DEF vars
  <2> DEFINE s == proof.stream
             m == proof.masks
  <2>2. /\ MaxDegree' = MaxDegree /\ Supplied(s, m)' = Supplied(s, m)
        /\ ProvedCoefficients(s, m)' = ProvedCoefficients(s, m)
        /\ \A k : Resolved(k, s)' = Resolved(k, s)
    <3>1. PICK stream, masks : stream = s /\ masks = m
      OBVIOUS
    <3>2. s' = s /\ m' = m
      BY <2>1
    <3> HIDE DEF s, m
    <3> QED BY <2>1, <3>1, <3>2, BatchKept
  <2>3. ProofInv'
    <3> SUFFICES ASSUME phase = "proved"
                 PROVE  ProofInv'
      BY <2>1 DEF ProofInv
    <3>1. ProofInv
      BY DEF CircuitInv
    <3> QED BY <2>1, <2>2, <3>1 DEF ProofInv, Drawn
  <2> QED BY <1>1, <2>1, <2>3 DEF CircuitInv
<1> QED
  BY <1>3, <1>4, <1>5, <1>6, <1>7, <1>8, <1>9, <1>10, <1>11, <1>12, <1>13, <1>14, <1>15,
     <1>16, <1>17, <1>18 DEF Next

(* In any circuit, built from any calls, the prover's polynomials and the
   verifier's evaluations agree. *)
THEOREM CircuitInvariant == Spec => []CircuitInv
BY CircuitInvInit, CircuitInvStep, PTL DEF Spec

(* So the keys of wires and the evaluations of expressions match, after any
   sequence of calls (backend.rs). *)
THEOREM AllKeysMatch == Spec => []KeysMatch
<1>1. CircuitInv => KeysMatch
  BY DEF CircuitInv, WireInv, KeysMatch, Exprs
<1> QED BY CircuitInvariant, <1>1, PTL
-----------------------------------------------------------------------------
(***************************************************************************)
(* What the verifier computes for the batch, at any Delta.                 *)
(***************************************************************************)

(* The verifier's sides of the masks and of the constraints. *)
Masked(masks, delta) ==
  SumOf(MaxDegree - 1,
        [j \in 1 .. MaxDegree - 1 |->
           Times(Plus(masks[j].tag, Times(masks[j].value, delta)), Power(delta, j - 1))])

Checks(stream, delta) ==
  [k \in 1 .. Len(constraints) |->
     Times(Resolved(k, stream).check[delta],
           Power(delta, MaxDegree - ConstraintDegree(Resolved(k, stream))))]

Errors(stream) == [k \in 1 .. Len(constraints) |-> Resolved(k, stream).error]

Alignments(stream) ==
  [k \in 1 .. Len(constraints) |-> Aligned(Resolved(k, stream).published, MaxDegree)]

(* The keys of the masks are the polynomial of the mask coefficients. *)
LEMMA MasksEvaluate ==
  ASSUME constraints \in Seq(Constraints), NEW masks \in Seq(MaskType),
         MaxDegree - 1 <= Len(masks), NEW delta \in F
  PROVE  LET b == [i \in 1 .. MaxDegree |-> MaskCoefficient(masks, i)]
         IN Summable(MaxDegree, b) /\ Poly(MaxDegree, b, delta) = Masked(masks, delta)
<1> DEFINE m == MaxDegree - 1
           b == [i \in 1 .. m + 1 |-> MaskCoefficient(masks, i)]
           t == [j \in 1 .. m |-> masks[j].tag]
           v == [j \in 1 .. m |-> masks[j].value]
           high == [i \in 1 .. m + 1 |-> IF i < m + 1 THEN masks[i].tag ELSE Zero]
           low == [i \in 1 .. m + 1 |-> IF i > 1 THEN masks[i - 1].value ELSE Zero]
           dv == [j \in 1 .. m |-> Times(delta, PolyTerms(m, v, delta)[j])]
           keys == [j \in 1 .. m |->
             Times(Plus(masks[j].tag, Times(masks[j].value, delta)), Power(delta, j - 1))]
<1>1. m \in Nat /\ m + 1 = MaxDegree /\ 1 + m = MaxDegree
  BY MaxDegreeBounds
<1>2. /\ \A j \in 1 .. m : masks[j].tag \in F /\ masks[j].value \in F
      /\ \A i \in 1 .. m + 1 : MaskCoefficient(masks, i) \in F
  BY <1>1, MasksClosed
<1>3. \A i \in 1 .. m + 1 : b[i] = Plus(high[i], low[i])
  BY <1>1 DEF MaskCoefficient
<1>4. Summable(m, t) /\ Summable(m, v) /\ Summable(m + 1, b)
  BY <1>2 DEF Summable
<1>5. /\ \A j \in 1 .. m : high[j] = t[j]
      /\ \A j \in m + 1 .. m + 1 : high[j] = Zero
      /\ \A j \in 1 .. 1 : low[j] = Zero
      /\ \A j \in 1 .. m : low[j + 1] = v[j]
  <2> HIDE DEF m
  <2> QED BY <1>1
<1>6. Summable(m + 1, high) /\ Summable(m + 1, low)
  <2> SUFFICES ASSUME NEW i \in 1 .. m + 1
               PROVE  high[i] \in F /\ low[i] \in F
    BY DEF Summable
  <2> HIDE DEF m
  <2>1. CASE i < m + 1
    <3>1. i \in 1 .. m
      BY <1>1, <2>1
    <3>2. high[i] \in F
      BY <1>2, <2>1, <3>1
    <3>3. i > 1 => i - 1 \in 1 .. m
      BY <1>1, <3>1
    <3>4. low[i] \in F
      BY <1>2, <3>3, FieldAssumption
    <3> QED BY <3>2, <3>4
  <2>2. CASE ~(i < m + 1)
    <3>1. high[i] \in F
      BY <2>2, FieldAssumption
    <3>2. i > 1 => i - 1 \in 1 .. m
      BY <1>1
    <3>3. low[i] \in F
      BY <1>2, <3>2, FieldAssumption
    <3> QED BY <3>1, <3>3
  <2> QED BY <2>1, <2>2
<1>7. ASSUME NEW j \in 1 .. m
      PROVE  keys[j] = Plus(PolyTerms(m, t, delta)[j], dv[j])
  <2> DEFINE x == masks[j].tag
             y == masks[j].value
             z == Power(delta, j - 1)
  <2>1. x \in F /\ y \in F /\ z \in F
    BY <1>2, PowerClosed
  <2>2. /\ keys[j] = Times(Plus(x, Times(y, delta)), z)
        /\ PolyTerms(m, t, delta)[j] = Times(x, z)
        /\ dv[j] = Times(delta, Times(y, z))
    BY DEF PolyTerms
  <2> HIDE DEF x, y, z, keys, t, dv
  <2>3. Times(y, delta) \in F /\ Times(y, delta) = Times(delta, y)
    BY <2>1, Closed
  <2>4. Times(Plus(x, Times(y, delta)), z) = Plus(Times(x, z), Times(Times(y, delta), z))
    BY <2>1, <2>3, RightDistributes
  <2>5. Times(Times(delta, y), z) = Times(delta, Times(y, z))
    BY <2>1, Associates
  <2> QED BY <2>2, <2>3, <2>4, <2>5
<1>8. Masked(masks, delta) = SumOf(m, keys)
  BY DEF Masked
<1>9. \A j \in 1 .. m : dv[j] = Times(delta, PolyTerms(m, v, delta)[j])
  OBVIOUS
<1> HIDE DEF m, b, t, v, high, low, dv, keys
<1>10. /\ Summable(m, PolyTerms(m, t, delta)) /\ Summable(m, PolyTerms(m, v, delta))
       /\ Poly(m, t, delta) \in F /\ Poly(m, v, delta) \in F
  BY <1>1, <1>4, PolyTermsClosed
<1>11. Summable(m, dv)
  BY <1>9, <1>10, Closed DEF Summable
<1>12. SumOf(m, dv) = Times(delta, Poly(m, v, delta))
  BY <1>1, <1>9, <1>10, SumOfTimes DEF Poly
<1>13. SumOf(m, keys) = Plus(Poly(m, t, delta), Times(delta, Poly(m, v, delta)))
  BY <1>1, <1>7, <1>10, <1>11, <1>12, SumOfPlus DEF Poly
<1>14. Poly(m + 1, b, delta) = Plus(Poly(m + 1, high, delta), Poly(m + 1, low, delta))
  <2>1. m + 1 \in Nat
    BY <1>1
  <2> QED BY <1>3, <1>6, <2>1, PolyPlus
<1>15. Poly(m + 1, high, delta) = Poly(m, t, delta)
  <2>1. m + 1 \in Nat /\ m <= m + 1
    BY <1>1
  <2> QED BY <1>1, <1>4, <1>5, <2>1, PolyExtended
<1>16. Poly(m + 1, low, delta) = Times(delta, Poly(m, v, delta))
  <2>1. Poly(m + 1, low, delta) = Plus(low[1], Times(delta, Poly(m, v, delta)))
    <3>1. m \in Nat /\ \A j \in 1 .. m : v[j] = low[j + 1]
      BY <1>1, <1>5
    <3> QED BY ONLY <1>6, <3>1, delta \in F, PolyFirst
  <2>2. low[1] = Zero /\ Times(delta, Poly(m, v, delta)) \in F
    BY <1>5, <1>10, Closed
  <2> QED BY <2>1, <2>2, FieldAssumption
<1>17. Summable(m + 1, b) /\ Poly(m + 1, b, delta) = Masked(masks, delta)
  BY <1>4, <1>8, <1>13, <1>14, <1>15, <1>16
<1>18. b = [i \in 1 .. MaxDegree |-> MaskCoefficient(masks, i)]
  BY <1>1 DEF b
<1> QED BY <1>1, <1>17, <1>18

(* A check, moved up to the degree of the batch, is the polynomial of the
   aligned coefficients and the error as the coefficient after the last. *)
LEMMA CheckEvaluates ==
  ASSUME constraints \in Seq(Constraints), NEW k \in 1 .. Len(constraints),
         NEW stream \in Seq(F), Position(Len(constraints) + 1) <= Len(stream), NEW delta \in F
  PROVE  /\ Summable(MaxDegree, Alignments(stream)[k])
         /\ Errors(stream)[k] \in F
         /\ Checks(stream, delta)[k] =
              Plus(Poly(MaxDegree, Alignments(stream)[k], delta),
                   Times(Errors(stream)[k], Power(delta, MaxDegree)))
<1> DEFINE c == Resolved(k, stream)
           l == Len(c.published)
           s == MaxDegree - l
           E == Evaluate(c.published, delta)
           S == Power(delta, s)
           L == Power(delta, l)
<1>1. /\ c \in Simples /\ ConstraintDegree(c) = CountedDegree(k)
      /\ MaxDegree \in Nat /\ CountedDegree(k) <= MaxDegree
  BY ResolvedSound, MaxDegreeBounds
<1>2. /\ c.published \in Seq(F) /\ l \in Nat /\ c.error \in F /\ Sound(c)
      /\ l <= MaxDegree /\ s \in Nat /\ l + s = MaxDegree
  <2>1. c.published \in Seq(F) /\ c.error \in F /\ Sound(c)
    BY <1>1 DEF Simples
  <2>2. l \in Nat /\ l <= MaxDegree
    BY <1>1, <2>1 DEF ConstraintDegree
  <2> QED BY <1>1, <2>1, <2>2
<1>3. /\ Alignments(stream)[k] = Aligned(c.published, MaxDegree)
      /\ Errors(stream)[k] = c.error
      /\ Checks(stream, delta)[k] = Times(c.check[delta], S)
  BY DEF Alignments, Errors, Checks, ConstraintDegree
<1>4. Aligned(c.published, MaxDegree) \in [1 .. MaxDegree -> F]
  BY <1>1, <1>2, AlignedClosed
<1>5. Summable(MaxDegree, Aligned(c.published, MaxDegree))
  BY <1>4 DEF Summable
<1>6. Poly(MaxDegree, Aligned(c.published, MaxDegree), delta) = Times(E, S)
  BY <1>1, <1>2, AlignedEvaluates
<1>7. c.check[delta] = Plus(E, Times(c.error, L))
  BY <1>2 DEF Sound
<1>8. E \in F /\ S \in F /\ L \in F
  BY <1>2, EvaluateClosed, PowerClosed
<1>9. Power(delta, MaxDegree) = Times(L, S)
  <2>1. Power(delta, l + s) = Times(L, S)
    BY <1>2, PowerPlus
  <2> QED BY <1>2, <2>1
<1> HIDE DEF E, S, L
<1>10. Times(Plus(E, Times(c.error, L)), S) = Plus(Times(E, S), Times(c.error, Times(L, S)))
  <2>1. Times(c.error, L) \in F
    BY <1>2, <1>8, Closed
  <2>2. Times(Plus(E, Times(c.error, L)), S) = Plus(Times(E, S), Times(Times(c.error, L), S))
    BY <1>8, <2>1, RightDistributes
  <2>3. Times(Times(c.error, L), S) = Times(c.error, Times(L, S))
    BY <1>2, <1>8, Associates
  <2> QED BY <2>2, <2>3
<1> QED BY <1>2, <1>3, <1>5, <1>6, <1>7, <1>9, <1>10

(* proof.rs: what the verifier adds up is the polynomial that prove
   computes, and the batched error as the coefficient after its last. *)
LEMMA BatchEvaluates ==
  ASSUME constraints \in Seq(Constraints), NEW stream, NEW masks, Drawn(stream, masks),
         NEW delta \in F
  PROVE  Plus(Masked(masks, delta), Batched(stream, Checks(stream, delta))) =
           Plus(Poly(MaxDegree, ProvedCoefficients(stream, masks), delta),
                Times(Batched(stream, Errors(stream)), Power(delta, MaxDegree)))
<1> DEFINE n == Len(constraints)
           w == [k \in 1 .. n |-> Chi(k, stream)]
           D == MaxDegree
           a == Alignments(stream)
           e == Errors(stream)
           checks == Checks(stream, delta)
           top == Power(delta, D)
           polys == [k \in 1 .. n |-> Poly(D, a[k], delta)]
           tops == [k \in 1 .. n |-> Times(e[k], top)]
           mc == [i \in 1 .. D |-> MaskCoefficient(masks, i)]
           bc == [i \in 1 .. D |-> Weighted(n, w, [k \in 1 .. n |-> a[k][i]])]
           proved == ProvedCoefficients(stream, masks)
<1>1. /\ stream \in Seq(F) /\ masks \in Seq(MaskType)
      /\ Position(n + 1) <= Len(stream) /\ D - 1 <= Len(masks)
  BY DEF Drawn, Supplied
<1>2. n \in Nat /\ Summable(n, w) /\ D \in Nat
  BY <1>1, BatchedClosed, MaxDegreeBounds
<1>3. top \in F
  BY <1>2, PowerClosed
<1>4. ASSUME NEW k \in 1 .. n
      PROVE  /\ Summable(D, a[k]) /\ e[k] \in F
             /\ checks[k] = Plus(Poly(D, a[k], delta), Times(e[k], top))
  BY <1>1, CheckEvaluates
<1>5. \A i \in 1 .. D : proved[i] = Plus(mc[i], bc[i])
  <2> SUFFICES ASSUME NEW i \in 1 .. D
               PROVE  proved[i] = Plus(MaskCoefficient(masks, i),
                                       Weighted(n, w, [k \in 1 .. n |-> a[k][i]]))
    OBVIOUS
  <2>1. [k \in 1 .. n |-> a[k][i]] =
          [k \in 1 .. n |-> Aligned(Resolved(k, stream).published, MaxDegree)[i]]
    BY DEF Alignments
  <2> QED BY <2>1 DEF ProvedCoefficients, Batched
<1>6. Summable(D, mc) /\ Poly(D, mc, delta) = Masked(masks, delta)
  BY <1>1, MasksEvaluate
<1>7. \A i \in 1 .. D : bc[i] = Weighted(n, w, [k \in 1 .. n |-> a[k][i]])
  OBVIOUS
<1>8. /\ Batched(stream, checks) = Weighted(n, w, checks)
      /\ Batched(stream, e) = Weighted(n, w, e)
  BY DEF Batched
<1> HIDE DEF n, w, D, a, e, checks, top, mc, bc, proved
<1>9. Summable(D, bc) /\ Poly(D, bc, delta) = Weighted(n, w, polys)
  <2>1. \A k \in 1 .. n : Summable(D, a[k])
    BY <1>4
  <2>2. /\ Summable(D, bc)
        /\ Poly(D, bc, delta) = Weighted(n, w, PolyValues(D, n, a, delta))
    <3>1. \A i \in 1 .. D : bc[i] = Weighted(n, w, Column(n, a, i))
      BY <1>7 DEF Column
    <3> QED BY ONLY <1>2, <2>1, <3>1, delta \in F, WeightedPoly
  <2> QED BY ONLY <2>2 DEF polys, PolyValues
<1>10. Poly(D, proved, delta) = Plus(Poly(D, mc, delta), Poly(D, bc, delta))
  BY <1>2, <1>5, <1>6, <1>9, PolyPlus
<1>11. Summable(n, polys) /\ Summable(n, e) /\ Summable(n, tops)
  <2> SUFFICES ASSUME NEW k \in 1 .. n
               PROVE  Poly(D, a[k], delta) \in F /\ e[k] \in F /\ Times(e[k], top) \in F
    BY DEF Summable
  <2> QED BY <1>2, <1>3, <1>4, PolyTermsClosed, Closed
<1>12. \A k \in 1 .. n : checks[k] = Plus(polys[k], tops[k]) /\ tops[k] = Times(e[k], top)
  BY <1>4
<1> HIDE DEF polys, tops
<1>13. Weighted(n, w, tops) = Times(Weighted(n, w, e), top)
  BY <1>2, <1>3, <1>11, <1>12, WeightedTimes
<1>14. Weighted(n, w, checks) = Plus(Weighted(n, w, polys), Weighted(n, w, tops))
  BY <1>2, <1>11, <1>12, WeightedPlus
<1>15. /\ Poly(D, mc, delta) \in F /\ Weighted(n, w, polys) \in F /\ Weighted(n, w, tops) \in F
  BY <1>2, <1>6, <1>11, PolyTermsClosed, WeightedClosed
<1>16. Plus(Masked(masks, delta), Weighted(n, w, checks)) =
         Plus(Poly(D, proved, delta), Times(Weighted(n, w, e), top))
  BY <1>6, <1>9, <1>10, <1>13, <1>14, <1>15, SumAssociates
<1> QED BY <1>8, <1>16 DEF D, e, checks, top, proved

(* The verifier compares that polynomial and error with the polynomial of
   the published coefficients. *)
LEMMA VerifiesMeans ==
  ASSUME CircuitInv, phase = "proved", NEW delta \in F
  PROVE  Verifies(delta) <=>
           Plus(Poly(MaxDegree, ProvedCoefficients(proof.stream, proof.masks), delta),
                Times(BatchedError, Power(delta, MaxDegree))) =
             Poly(MaxDegree, proof.coefficients, delta)
<1>1. /\ constraints \in Seq(Constraints) /\ Drawn(proof.stream, proof.masks)
      /\ proof.coefficients \in [1 .. MaxDegree -> F] /\ MaxDegree \in Nat
  BY MaxDegreeBounds DEF CircuitInv, ProofInv
<1>2. Len(proof.coefficients) = MaxDegree
  BY <1>1
<1>3. Evaluate(proof.coefficients, delta) = Poly(MaxDegree, proof.coefficients, delta)
  BY <1>2, EvaluateIsPoly
<1>4. [k \in 1 .. Len(constraints) |-> CheckedAt(k, delta)] = Checks(proof.stream, delta)
  BY DEF CheckedAt, Checks
<1>5. Verifies(delta) <=>
        Plus(Masked(proof.masks, delta),
             Batched(proof.stream, Checks(proof.stream, delta))) =
          Evaluate(proof.coefficients, delta)
  BY <1>4 DEF Verifies, Masked
<1>6. BatchedError = Batched(proof.stream, Errors(proof.stream))
  BY DEF BatchedError, Errors
<1>7. Plus(Masked(proof.masks, delta),
           Batched(proof.stream, Checks(proof.stream, delta))) =
        Plus(Poly(MaxDegree, ProvedCoefficients(proof.stream, proof.masks), delta),
             Times(BatchedError, Power(delta, MaxDegree)))
  BY <1>1, <1>6, BatchEvaluates
<1> QED BY ONLY <1>3, <1>5, <1>7

(* The batched error of an honest proof is zero, and every batched error is
   a field element. *)
LEMMA BatchedErrorClosed ==
  ASSUME CircuitInv, phase = "proved"
  PROVE  BatchedError \in F /\ (proof.honest => BatchedError = Zero)
<1> DEFINE n == Len(constraints)
           w == [k \in 1 .. n |-> Chi(k, proof.stream)]
           e == Errors(proof.stream)
<1>1. /\ constraints \in Seq(Constraints) /\ proof.stream \in Seq(F)
      /\ Position(n + 1) <= Len(proof.stream)
  BY DEF CircuitInv, ProofInv, Drawn, Supplied
<1>2. n \in Nat /\ Summable(n, w)
  BY <1>1, BatchedClosed
<1>3. \A k \in 1 .. n : Resolved(k, proof.stream) \in Simples
  BY <1>1, ResolvedSound
<1>4. Summable(n, e)
  BY <1>3 DEF Summable, Errors, Simples
<1>5. BatchedError = Weighted(n, w, e)
  BY DEF BatchedError, Errors, Batched
<1>6. proof.honest => \A k \in 1 .. n : e[k] = Zero
  BY DEF CircuitInv, ProofInv, Errors
<1> HIDE DEF n, w, e
<1> QED BY <1>2, <1>4, <1>5, <1>6, WeightedClosed, WeightedZeroes

(* proof.rs prove, verify: a proof of a satisfied circuit verifies at every
   Delta, whatever the circuit, its witness and the challenges. *)
THEOREM HonestProofsAlwaysVerify == Spec => []HonestProofsVerify
<1>1. CircuitInv => HonestProofsVerify
  <2> SUFFICES ASSUME CircuitInv, phase = "proved", proof.honest, NEW delta \in F
               PROVE  Verifies(delta)
    BY DEF HonestProofsVerify
  <2> DEFINE proved == ProvedCoefficients(proof.stream, proof.masks)
  <2>1. /\ proof.coefficients = proved /\ MaxDegree \in Nat
        /\ proof.coefficients \in [1 .. MaxDegree -> F]
    BY MaxDegreeBounds DEF CircuitInv, ProofInv
  <2>2. BatchedError = Zero
    BY BatchedErrorClosed
  <2>3. Poly(MaxDegree, proved, delta) \in F /\ Power(delta, MaxDegree) \in F
    <3>1. Summable(MaxDegree, proof.coefficients)
      BY <2>1 DEF Summable
    <3> QED BY <2>1, <3>1, PolyTermsClosed, PowerClosed
  <2> HIDE DEF proved
  <2>4. Plus(Poly(MaxDegree, proved, delta), Times(Zero, Power(delta, MaxDegree))) =
          Poly(MaxDegree, proved, delta)
    BY <2>3, FieldAssumption
  <2> QED BY <2>1, <2>2, <2>4, VerifiesMeans DEF proved
<1> QED BY CircuitInvariant, <1>1, PTL

(* The proof of the tests of false assertions, for any of them: whatever
   coefficients are published, if the batched values of the constraints do
   not cancel then verification means that Delta is a root of a polynomial
   whose highest coefficient is their sum. *)
LEMMA FalseProofRoots ==
  ASSUME CircuitInv, phase = "proved", BatchedError # Zero
  PROVE  Cardinality({delta \in F : Verifies(delta)}) <= MaxDegree
<1> DEFINE D == MaxDegree
           proved == ProvedCoefficients(proof.stream, proof.masks)
           published == proof.coefficients
           b == [i \in 1 .. D |-> Plus(proved[i], published[i])]
           c == [i \in 1 .. D + 1 |-> IF i = D + 1 THEN BatchedError ELSE b[i]]
           passing == {delta \in F : Verifies(delta)}
<1>1. /\ D \in Nat /\ published \in [1 .. D -> F]
      /\ constraints \in Seq(Constraints) /\ Drawn(proof.stream, proof.masks)
  BY MaxDegreeBounds DEF CircuitInv, ProofInv
<1>2. proved \in [1 .. D -> F]
  BY <1>1, ProvedClosed
<1>3. BatchedError \in F
  BY BatchedErrorClosed
<1>4. Summable(D, proved) /\ Summable(D, published) /\ Summable(D, b)
  <2> HIDE DEF D, proved, published
  <2> QED BY <1>1, <1>2, Closed DEF Summable
<1>5. /\ c \in [1 .. D + 1 -> F] /\ c[D + 1] = BatchedError
      /\ \A i \in 1 .. D : c[i] = b[i]
  <2> HIDE DEF D, proved, published, b
  <2>1. \A i \in 1 .. D + 1 : i # D + 1 => i \in 1 .. D
    BY <1>1
  <2>2. \A i \in 1 .. D + 1 : c[i] \in F
    BY <1>3, <1>4, <2>1 DEF Summable
  <2>3. D + 1 \in 1 .. D + 1 /\ \A i \in 1 .. D : i \in 1 .. D + 1 /\ i # D + 1
    BY <1>1
  <2> QED BY <2>2, <2>3
<1>6. ASSUME NEW delta \in F, Verifies(delta)
      PROVE  Poly(D + 1, c, delta) = Zero
  <2> DEFINE p == Poly(D, proved, delta)
             q == Poly(D, published, delta)
             r == Times(BatchedError, Power(delta, D))
  <2>1. Plus(p, r) = q
    BY <1>6, VerifiesMeans
  <2>2. \A i \in 1 .. D : b[i] = Plus(proved[i], published[i])
    OBVIOUS
  <2> HIDE DEF D, proved, published, b, c
  <2>3. p \in F /\ q \in F /\ r \in F
    BY <1>1, <1>3, <1>4, PolyTermsClosed, PowerClosed, Closed
  <2>4. Poly(D, b, delta) = Plus(p, q)
    BY <1>1, <1>4, <2>2, PolyPlus
  <2>5. Poly(D, c, delta) = Poly(D, b, delta)
    BY <1>1, <1>4, <1>5, PolyAgrees
  <2>6. Poly(D + 1, c, delta) = Plus(Poly(D, c, delta), r)
    <3>1. Summable(D + 1, c)
      BY <1>5 DEF Summable
    <3> QED BY <1>1, <1>5, <3>1, PolyLast
  <2> HIDE DEF p, q, r
  <2>7. Plus(Plus(p, Plus(p, r)), r) = Zero
    <3>1. Plus(p, Plus(p, r)) = r
      BY <2>3, SumAssociates, FieldAssumption
    <3> QED BY <2>3, <3>1, FieldAssumption
  <2> QED BY <2>1, <2>4, <2>5, <2>6, <2>7
<1> HIDE DEF D, c
<1>7. passing \subseteq Roots(D, c)
  BY <1>6 DEF Roots
<1>8. IsFiniteSet(Roots(D, c)) /\ Cardinality(Roots(D, c)) <= D
  BY <1>1, <1>3, <1>5, RootBound
<1>9. /\ IsFiniteSet(passing) /\ Cardinality(passing) <= Cardinality(Roots(D, c))
      /\ Cardinality(passing) \in Nat /\ Cardinality(Roots(D, c)) \in Nat
  BY <1>7, <1>8, FS_Subset, FS_CardinalityType
<1>10. Cardinality(passing) <= D
  <2> HIDE DEF passing
  <2> QED BY <1>1, <1>8, <1>9
<1> QED BY <1>10 DEF D

(* proof.rs verify: no published coefficients pass for more Delta than the
   degree of the batch unless the batched values of the constraints cancel,
   for every field, circuit, stream and masks. *)
THEOREM FalseProofsAlwaysFail == Spec => []FalseProofsFail
<1>1. CircuitInv => FalseProofsFail
  BY FalseProofRoots DEF FalseProofsFail
<1> QED BY CircuitInvariant, <1>1, PTL
=============================================================================
