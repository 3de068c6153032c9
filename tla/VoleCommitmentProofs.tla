----------------------- MODULE VoleCommitmentProofs -----------------------
(***************************************************************************)
(* Proofs about VoleCommitment for every number and depth of the trees,    *)
(* every salt, every challenge and every order of the tasks: the VOLE      *)
(* correlation holds, an opening binds its challenge and hides one leaf.   *)
(***************************************************************************)
EXTENDS VoleCommitment, SumTheorems, FunctionTheorems

(***************************************************************************)
(* Powers of two and bits.                                                 *)
(***************************************************************************)

(* 2^(m + n) = 2^m 2^n. *)
LEMMA PowersAdd ==
  ASSUME NEW m \in Nat, NEW n \in Nat
  PROVE  2^(m + n) = 2^m * 2^n
<1> DEFINE T == {i \in Nat : 2^(m + i) = 2^m * 2^i}
<1>1. 0 \in T
  BY PowersDouble
<1>2. ASSUME NEW i \in Nat, i \in T
      PROVE  i + 1 \in T
  <2>1. /\ 2^m \in Nat /\ 2^i \in Nat /\ 2^(i + 1) = 2 * 2^i
        /\ m + i \in Nat /\ 2^((m + i) + 1) = 2 * 2^(m + i)
    BY PowersDouble
  <2>2. 2^(m + i) = 2^m * 2^i
    BY <1>2
  <2>3. m + (i + 1) = (m + i) + 1
    OBVIOUS
  <2>4. \A x, y \in Nat : 2 * (x * y) = x * (2 * y)
    OBVIOUS
  <2>5. 2^((m + i) + 1) = 2^m * 2^(i + 1)
    BY <2>1, <2>2, <2>4
  <2> QED BY <2>3, <2>5
<1>3. \A i \in Nat : i \in T
  <2> HIDE DEF T
  <2> QED BY <1>1, <1>2, NumbersInductive
<1> QED BY <1>3

(* Quotient and remainder. *)
LEMMA Division ==
  ASSUME NEW a \in Nat, NEW b \in Nat \ {0}
  PROVE  /\ a \div b \in Nat /\ (a % b) \in 0 .. b - 1
         /\ a = b * (a \div b) + (a % b)
OBVIOUS

(* They are the only ones. *)
LEMMA DivisionUnique ==
  ASSUME NEW a \in Nat, NEW b \in Nat \ {0}, NEW q \in Nat, NEW r \in 0 .. b - 1, a = b * q + r
  PROVE  a \div b = q /\ (a % b) = r
OBVIOUS

(* Dividing twice. *)
LEMMA DivisionTwice ==
  \A a \in Nat, b \in Nat \ {0}, c \in Nat \ {0} : (a \div b) \div c = a \div (b * c)
<1> SUFFICES ASSUME NEW a \in Nat, NEW b \in Nat \ {0}, NEW c \in Nat \ {0}
             PROVE  (a \div b) \div c = a \div (b * c)
  OBVIOUS
<1> DEFINE q == a \div b
           r == a % b
           p == q \div c
           s == q % c
<1>1. /\ q \in Nat /\ r \in 0 .. b - 1 /\ a = b * q + r
      /\ p \in Nat /\ s \in 0 .. c - 1 /\ q = c * p + s
  BY Division
<1>2. b * c \in Nat \ {0}
  OBVIOUS
<1> HIDE DEF q, r, p, s
<1>3. b * s + r \in 0 .. b * c - 1
  <2>1. b * s <= b * (c - 1) /\ b * (c - 1) = b * c - b /\ b * s \in Nat
    BY <1>1
  <2> QED BY <1>1, <1>2, <2>1
<1>4. a = (b * c) * p + (b * s + r)
  <2>1. b * q = (b * c) * p + b * s
    BY <1>1
  <2> QED BY <1>1, <1>2, <2>1
<1>5. a \div (b * c) = p
  BY <1>1, <1>2, <1>3, <1>4, DivisionUnique
<1> QED BY <1>5 DEF p, q

(* The number above bit l is the one above bit l + 1, with bit l. *)
LEMMA BitStep ==
  ASSUME NEW a \in Nat, NEW l \in Nat
  PROVE  /\ Bit(a, l) \in {0, 1} /\ a \div 2^l \in Nat /\ a \div 2^(l + 1) \in Nat
         /\ a \div 2^l = 2 * (a \div 2^(l + 1)) + Bit(a, l)
<1> DEFINE q == a \div 2^l
<1>1. 2^l \in Nat \ {0} /\ 2^(l + 1) = 2^l * 2
  BY PowersDouble
<1>2. q \in Nat
  BY <1>1, Division
<1>3. q \div 2 = a \div 2^(l + 1)
  <2>1. 2 \in Nat \ {0}
    OBVIOUS
  <2>2. (a \div 2^l) \div 2 = a \div (2^l * 2)
    BY ONLY <1>1, <2>1, a \in Nat, DivisionTwice
  <2> QED BY <1>1, <2>2
<1> HIDE DEF q
<1>4. q = 2 * (q \div 2) + (q % 2) /\ (q % 2) \in {0, 1} /\ q \div 2 \in Nat
  BY <1>2
<1>5. Bit(a, l) = q % 2
  BY DEF Bit, q
<1>6. /\ Bit(a, l) \in {0, 1} /\ q \in Nat /\ a \div 2^(l + 1) \in Nat
      /\ q = 2 * (a \div 2^(l + 1)) + Bit(a, l)
  BY <1>2, <1>3, <1>4, <1>5
<1> QED BY <1>6 DEF q

(* Numbers with the same bits are the same. *)
LEMMA BitsDetermine ==
  ASSUME NEW k \in Nat, NEW a \in Nat, NEW b \in Nat, a \div 2^k = b \div 2^k,
         \A i \in 0 .. k - 1 : Bit(a, i) = Bit(b, i)
  PROVE  a = b
<1> DEFINE T == {m \in Nat : m <= k => a \div 2^(k - m) = b \div 2^(k - m)}
<1>1. 0 \in T
  OBVIOUS
<1>2. ASSUME NEW m \in Nat, m \in T
      PROVE  m + 1 \in T
  <2> SUFFICES ASSUME m + 1 <= k
               PROVE  a \div 2^(k - (m + 1)) = b \div 2^(k - (m + 1))
    OBVIOUS
  <2> DEFINE l == k - (m + 1)
  <2>1. l \in Nat /\ l \in 0 .. k - 1 /\ l + 1 = k - m
    OBVIOUS
  <2>2. a \div 2^(l + 1) = b \div 2^(l + 1)
    BY <1>2, <2>1
  <2> HIDE DEF l
  <2>3. /\ a \div 2^l = 2 * (a \div 2^(l + 1)) + Bit(a, l)
        /\ b \div 2^l = 2 * (b \div 2^(l + 1)) + Bit(b, l)
    BY <2>1, BitStep
  <2>4. a \div 2^l = b \div 2^l
    BY <2>1, <2>2, <2>3
  <2> QED BY <2>4 DEF l
<1>3. \A m \in Nat : m \in T
  <2> HIDE DEF T
  <2> QED BY <1>1, <1>2, NumbersInductive
<1>4. a \div 2^0 = b \div 2^0
  <2>1. k \in T
    <3> HIDE DEF T
    <3> QED BY <1>3
  <2>2. k - k = 0 /\ k <= k
    OBVIOUS
  <2> QED BY <2>1, <2>2
<1> QED BY <1>4, PowersDouble
-----------------------------------------------------------------------------
(***************************************************************************)
(* Sums of vectors.                                                        *)
(***************************************************************************)

(* The positions in S whose vector holds x. *)
Holding(S, f, x) == {i \in S : x \in f[i]}

(* A sum holds what an odd number of vectors hold. *)
LEMMA XorSumMember ==
  ASSUME NEW S, IsFiniteSet(S), NEW f, NEW x
  PROVE  /\ IsFiniteSet(Holding(S, f, x)) /\ Cardinality(Holding(S, f, x)) \in Nat
         /\ x \in XorSum(S, f) <=> (Cardinality(Holding(S, f, x)) % 2) = 1
<1>1. IsFiniteSet(Holding(S, f, x)) /\ Cardinality(Holding(S, f, x)) \in Nat
  BY FS_Subset, FS_CardinalityType DEF Holding
<1>2. ASSUME (Cardinality(Holding(S, f, x)) % 2) = 1
      PROVE  x \in UNION {f[i] : i \in S}
  <2>1. Cardinality(Holding(S, f, x)) # 0
    BY <1>2
  <2>2. Holding(S, f, x) # {}
    BY <2>1, FS_EmptySet
  <2> QED BY <2>2 DEF Holding
<1> QED BY <1>1, <1>2 DEF XorSum, Holding

(* The sum over two parts is the sum of their sums. *)
LEMMA XorSumSplit ==
  ASSUME NEW S, NEW T, IsFiniteSet(S), IsFiniteSet(T), S \cap T = {}, NEW f
  PROVE  XorSum(S \cup T, f) = SymDiff(XorSum(S, f), XorSum(T, f))
<1> SUFFICES ASSUME NEW x
             PROVE  x \in XorSum(S \cup T, f) <=> x \in SymDiff(XorSum(S, f), XorSum(T, f))
  OBVIOUS
<1> DEFINE A == Holding(S, f, x)
           B == Holding(T, f, x)
           C == Holding(S \cup T, f, x)
<1>1. IsFiniteSet(S \cup T)
  BY FS_Union
<1>2. /\ IsFiniteSet(A) /\ Cardinality(A) \in Nat
      /\ x \in XorSum(S, f) <=> (Cardinality(A) % 2) = 1
  BY XorSumMember
<1>3. /\ IsFiniteSet(B) /\ Cardinality(B) \in Nat
      /\ x \in XorSum(T, f) <=> (Cardinality(B) % 2) = 1
  BY XorSumMember
<1>4. x \in XorSum(S \cup T, f) <=> (Cardinality(C) % 2) = 1
  BY <1>1, XorSumMember
<1>5. C = A \cup B /\ A \cap B = {}
  BY DEF Holding
<1> HIDE DEF A, B, C
<1>6. Cardinality(C) = Cardinality(A) + Cardinality(B)
  <2>1. Cardinality(A \cup B) = Cardinality(A) + Cardinality(B) - Cardinality(A \cap B)
    BY <1>2, <1>3, FS_Union
  <2>2. Cardinality(A \cap B) = 0
    BY <1>5, FS_EmptySet
  <2> QED BY <1>2, <1>3, <1>5, <2>1, <2>2
<1>7. ((Cardinality(A) + Cardinality(B)) % 2) = 1 <=>
        ((Cardinality(A) % 2) = 1) # ((Cardinality(B) % 2) = 1)
  <2>1. \A m, n \in Nat : ((m + n) % 2) = 1 <=> ~ ((m % 2) = 1 <=> (n % 2) = 1)
    OBVIOUS
  <2> QED BY <1>2, <1>3, <2>1
<1> QED BY <1>2, <1>3, <1>4, <1>6, <1>7 DEF SymDiff

(* The sum of one vector. *)
LEMMA XorSumSingle ==
  ASSUME NEW i, NEW f
  PROVE  XorSum({i}, f) = f[i]
<1> SUFFICES ASSUME NEW x
             PROVE  x \in XorSum({i}, f) <=> x \in f[i]
  OBVIOUS
<1>1. IsFiniteSet({i}) /\ Cardinality({i}) = 1
  BY FS_Singleton
<1>2. x \in XorSum({i}, f) <=> (Cardinality(Holding({i}, f, x)) % 2) = 1
  BY <1>1, XorSumMember
<1>3. CASE x \in f[i]
  <2>1. Holding({i}, f, x) = {i}
    BY <1>3 DEF Holding
  <2> QED BY <1>1, <1>2, <1>3, <2>1
<1>4. CASE x \notin f[i]
  <2>1. Holding({i}, f, x) = {}
    BY <1>4 DEF Holding
  <2>2. Cardinality({}) = 0
    BY FS_EmptySet
  <2> QED BY <1>2, <1>4, <2>1, <2>2
<1> QED BY <1>3, <1>4

(* The sum of no vector. *)
LEMMA XorSumEmpty ==
  ASSUME NEW f
  PROVE  XorSum({}, f) = {}
BY DEF XorSum

(* The same vectors in another order have the same sum. *)
LEMMA XorSumReindexed ==
  ASSUME NEW S, IsFiniteSet(S), NEW T, NEW p \in Bijection(S, T), NEW f, NEW g,
         \A i \in S : f[i] = g[p[i]]
  PROVE  XorSum(S, f) = XorSum(T, g)
<1>1. IsFiniteSet(T)
  BY FS_Bijection DEF ExistsBijection
<1> SUFFICES ASSUME NEW x
             PROVE  x \in XorSum(S, f) <=> x \in XorSum(T, g)
  OBVIOUS
<1> DEFINE A == Holding(S, f, x)
           B == Holding(T, g, x)
           q == [i \in A |-> p[i]]
<1>2. /\ p \in [S -> T] /\ \A i, k \in S : p[i] = p[k] => i = k
      /\ \A k \in T : \E i \in S : p[i] = k
  BY DEF Bijection, Injection, Surjection, IsInjective
<1>3. q \in Bijection(A, B)
  <2>1. q \in [A -> B]
    BY <1>2 DEF Holding
  <2>2. \A i, k \in A : q[i] = q[k] => i = k
    BY <1>2 DEF Holding
  <2>3. \A k \in B : \E i \in A : q[i] = k
    <3> SUFFICES ASSUME NEW k \in B
                 PROVE  \E i \in A : q[i] = k
      OBVIOUS
    <3>1. PICK i \in S : p[i] = k
      BY <1>2 DEF Holding
    <3>2. i \in A
      BY <3>1 DEF Holding
    <3> QED BY <3>1, <3>2
  <2> HIDE DEF A, B, q
  <2> QED BY <2>1, <2>2, <2>3 DEF Bijection, Injection, Surjection, IsInjective
<1>4. IsFiniteSet(A) /\ (x \in XorSum(S, f) <=> (Cardinality(A) % 2) = 1)
  BY XorSumMember
<1>5. x \in XorSum(T, g) <=> (Cardinality(B) % 2) = 1
  BY <1>1, XorSumMember
<1> HIDE DEF A, B, q
<1>6. ExistsBijection(A, B)
  BY <1>3 DEF ExistsBijection
<1>7. Cardinality(B) = Cardinality(A)
  BY <1>4, <1>6, FS_Bijection
<1> QED BY <1>4, <1>5, <1>7

(* Equal vectors have equal sums. *)
LEMMA XorSumAgrees ==
  ASSUME NEW S, NEW f, NEW g, \A i \in S : f[i] = g[i]
  PROVE  XorSum(S, f) = XorSum(S, g)
<1>1. {f[i] : i \in S} = {g[i] : i \in S}
  OBVIOUS
<1>2. \A x : {i \in S : x \in f[i]} = {i \in S : x \in g[i]}
  OBVIOUS
<1> QED BY <1>1, <1>2 DEF XorSum
-----------------------------------------------------------------------------
(***************************************************************************)
(* The accumulator.                                                        *)
(***************************************************************************)

(* The pending subtree of level l after n leaves, and the completed leaves
   with bit b. *)
Left(n, l) ==
  2^(l + 1) * (n \div 2^(l + 1)) .. 2^(l + 1) * (n \div 2^(l + 1)) + 2^l - 1
OddLeaves(n, b) == {i \in 0 .. 2^(b + 1) * (n \div 2^(b + 1)) - 1 : Bit(i, b) = 1}

(* The accumulator holds the sums over the first leaves of f. *)
Exact(a, f) ==
  /\ a.count \in 0 .. 2^K
  /\ DOMAIN a.pending = {l \in 0 .. K : Bit(a.count, l) = 1}
  /\ \A l \in DOMAIN a.pending : a.pending[l] = XorSum(Left(a.count, l), f)
  /\ \A b \in 0 .. K - 1 : a.planes[b] = XorSum(OddLeaves(a.count, b), f)

(* A number below 2^k has no bits from k on. *)
LEMMA SmallHasNoBit ==
  ASSUME NEW k \in Nat, NEW n \in 0 .. 2^k - 1
  PROVE  n \div 2^k = 0 /\ Bit(n, k) = 0
<1>1. 2^k \in Nat \ {0}
  BY PowersDouble
<1>2. n \div 2^k = 0
  BY <1>1
<1> QED BY <1>2 DEF Bit

(* t is the lowest bit that is not set. *)
LowestClear(n, t) == Bit(n, t) = 0 /\ \A l \in 0 .. t - 1 : Bit(n, l) = 1

(* Counting on carries up to the lowest clear bit. *)
LEMMA Carry ==
  ASSUME NEW n \in Nat, NEW t \in Nat, LowestClear(n, t)
  PROVE  /\ \A l \in 0 .. t : /\ (n + 1) \div 2^l = n \div 2^l + 1
                              /\ n + 1 = 2^l * ((n + 1) \div 2^l)
         /\ \A l \in Nat : l > t => (n + 1) \div 2^l = n \div 2^l
         /\ \A l \in 0 .. t - 1 : Bit(n + 1, l) = 0
         /\ Bit(n + 1, t) = 1
         /\ \A l \in Nat : l > t => Bit(n + 1, l) = Bit(n, l)
<1> DEFINE N == [l \in Nat |-> n \div 2^l]
           M == [l \in Nat |-> (n + 1) \div 2^l]
           T == {l \in Nat : l <= t => M[l] = N[l] + 1 /\ n + 1 = 2^l * M[l]}
           U == {i \in Nat : M[t + 1 + i] = N[t + 1 + i]}
<1>1. n + 1 \in Nat
  OBVIOUS
<1>2. ASSUME NEW l \in Nat
      PROVE  /\ Bit(n, l) \in {0, 1} /\ Bit(n + 1, l) \in {0, 1}
             /\ N[l] \in Nat /\ N[l + 1] \in Nat /\ M[l] \in Nat /\ M[l + 1] \in Nat
             /\ N[l] = 2 * N[l + 1] + Bit(n, l) /\ M[l] = 2 * M[l + 1] + Bit(n + 1, l)
  BY <1>1, BitStep
<1>3. M[0] = n + 1 /\ N[0] = n /\ 2^0 = 1
  <2>1. 2^0 = 1
    BY PowersDouble
  <2> QED BY <2>1
<1>14. \A l \in Nat : N[l] = n \div 2^l /\ M[l] = (n + 1) \div 2^l
  OBVIOUS
<1> HIDE DEF N, M
<1>15. /\ \A x, y \in Nat, b \in {0, 1} : (2 * x + 1) + 1 = 2 * y + b => y = x + 1 /\ b = 0
       /\ \A x, y \in Nat, b \in {0, 1} : 2 * x + 1 = 2 * y + b => y = x /\ b = 1
       /\ \A x, y \in Nat : x * (2 * y) = (2 * x) * y
  OBVIOUS
<1>4. 0 \in T
  BY <1>3
<1>5. ASSUME NEW l \in Nat, l \in T
      PROVE  l + 1 \in T
  <2> SUFFICES ASSUME l + 1 <= t
               PROVE  M[l + 1] = N[l + 1] + 1 /\ n + 1 = 2^(l + 1) * M[l + 1]
    OBVIOUS
  <2>1. M[l] = N[l] + 1 /\ n + 1 = 2^l * M[l]
    BY <1>5
  <2>2. Bit(n, l) = 1
    BY DEF LowestClear
  <2>3. M[l + 1] = N[l + 1] + 1 /\ M[l] = 2 * M[l + 1]
    <3>1. /\ N[l + 1] \in Nat /\ M[l + 1] \in Nat /\ Bit(n + 1, l) \in {0, 1}
          /\ N[l] = 2 * N[l + 1] + 1 /\ M[l] = 2 * M[l + 1] + Bit(n + 1, l)
      BY <1>2, <2>2
    <3>2. (2 * N[l + 1] + 1) + 1 = 2 * M[l + 1] + Bit(n + 1, l)
      BY <2>1, <3>1
    <3>3. M[l + 1] = N[l + 1] + 1 /\ Bit(n + 1, l) = 0
      BY <1>15, <3>1, <3>2
    <3> QED BY <3>1, <3>3
  <2>4. 2^(l + 1) = 2 * 2^l /\ 2^l \in Nat
    BY PowersDouble
  <2>5. M[l + 1] \in Nat
    BY <1>2
  <2>6. 2^l * (2 * M[l + 1]) = 2^(l + 1) * M[l + 1]
    BY <1>15, <2>4, <2>5
  <2> QED BY <2>1, <2>3, <2>6
<1>6. \A l \in Nat : l \in T
  <2> HIDE DEF T
  <2> QED BY <1>4, <1>5, NumbersInductive
<1>7. M[t] = N[t] + 1
  BY <1>6
<1>8. Bit(n + 1, t) = 1 /\ M[t + 1] = N[t + 1]
  <2>1. Bit(n, t) = 0
    BY DEF LowestClear
  <2>2. /\ N[t + 1] \in Nat /\ M[t + 1] \in Nat /\ Bit(n + 1, t) \in {0, 1}
        /\ N[t] = 2 * N[t + 1] /\ M[t] = 2 * M[t + 1] + Bit(n + 1, t)
    BY <1>2, <2>1
  <2>3. 2 * N[t + 1] + 1 = 2 * M[t + 1] + Bit(n + 1, t)
    BY <1>7, <2>2
  <2> QED BY <1>15, <2>2, <2>3
<1>16. ASSUME NEW l \in Nat, M[l] = N[l]
       PROVE  M[l + 1] = N[l + 1] /\ Bit(n + 1, l) = Bit(n, l)
  <2>3. /\ N[l + 1] \in Nat /\ M[l + 1] \in Nat
        /\ Bit(n, l) \in {0, 1} /\ Bit(n + 1, l) \in {0, 1}
        /\ N[l] = 2 * N[l + 1] + Bit(n, l) /\ M[l] = 2 * M[l + 1] + Bit(n + 1, l)
    BY ONLY <1>2, l \in Nat
  <2>1. /\ N[l + 1] \in Nat /\ M[l + 1] \in Nat
        /\ Bit(n, l) \in {0, 1} /\ Bit(n + 1, l) \in {0, 1}
        /\ 2 * N[l + 1] + Bit(n, l) = 2 * M[l + 1] + Bit(n + 1, l)
    BY ONLY <2>3, M[l] = N[l], <1>16
  <2>2. \A x, y \in Nat, b, c \in {0, 1} : 2 * x + b = 2 * y + c => x = y /\ b = c
    OBVIOUS
  <2> QED BY ONLY <2>1, <2>2
<1>9. 0 \in U
  BY <1>8
<1>10. ASSUME NEW i \in Nat, i \in U
       PROVE  i + 1 \in U
  <2>1. t + 1 + i \in Nat /\ (t + 1 + i) + 1 = t + 1 + (i + 1)
    OBVIOUS
  <2> DEFINE l == t + 1 + i
  <2>2. M[l] = N[l] /\ l \in Nat
    BY <1>10, <2>1
  <2> HIDE DEF l
  <2>3. M[l + 1] = N[l + 1]
    BY <1>16, <2>2
  <2> QED BY <2>1, <2>3 DEF l
<1>11. \A i \in Nat : i \in U
  <2> HIDE DEF U
  <2> QED BY <1>9, <1>10, NumbersInductive
<1>12. ASSUME NEW l \in Nat, l > t
       PROVE  M[l] = N[l] /\ Bit(n + 1, l) = Bit(n, l)
  <2>1. l - (t + 1) \in Nat /\ t + 1 + (l - (t + 1)) = l
    BY ONLY l \in Nat, t \in Nat, l > t
  <2>2. l - (t + 1) \in U
    <3> HIDE DEF U
    <3> QED BY <1>11, <2>1
  <2>3. M[l] = N[l]
    BY <2>1, <2>2
  <2> QED BY ONLY <1>16, <2>3, l \in Nat
<1>13. ASSUME NEW l \in 0 .. t - 1
       PROVE  Bit(n + 1, l) = 0
  <2>1. M[l] = N[l] + 1 /\ M[l + 1] = N[l + 1] + 1 /\ Bit(n, l) = 1
    BY <1>6 DEF LowestClear
  <2> QED BY <1>2, <2>1
<1> QED BY <1>6, <1>8, <1>12, <1>13, <1>14

(* Bit b in a block of 2^(b + 1) numbers. *)
LEMMA BitInBlock ==
  ASSUME NEW b \in Nat, NEW q \in Nat, NEW r \in 0 .. 2^(b + 1) - 1
  PROVE  Bit(2^(b + 1) * q + r, b) = IF r < 2^b THEN 0 ELSE 1
<1> DEFINE p == 2^b
           i == 2^(b + 1) * q + r
<1>1. p \in Nat \ {0} /\ 2^(b + 1) = 2 * p
  BY PowersDouble
<1> HIDE DEF p
<1>2. i \in Nat /\ r \in Nat /\ r < 2 * p
  <2>1. r \in Nat /\ r < 2 * p /\ 2 * p * q \in Nat
    BY <1>1
  <2> QED BY <1>1, <2>1
<1>3. i = p * (2 * q) + r
  <2>1. (2 * p) * q = p * (2 * q)
    BY <1>1
  <2> QED BY <1>1, <2>1
<1> HIDE DEF i
<1>4. CASE r < p
  <2>1. r \in 0 .. p - 1 /\ 2 * q \in Nat
    BY <1>1, <1>2, <1>4
  <2>2. i \div p = 2 * q
    BY <1>1, <1>2, <1>3, <2>1, DivisionUnique
  <2>3. (2 * q) % 2 = 0
    OBVIOUS
  <2> QED BY <1>4, <2>2, <2>3 DEF Bit, i, p
<1>5. CASE ~ (r < p)
  <2>1. r - p \in 0 .. p - 1 /\ 2 * q + 1 \in Nat
    BY <1>1, <1>2, <1>5
  <2>2. i = p * (2 * q + 1) + (r - p)
    <3>1. p * (2 * q + 1) = p * (2 * q) + p
      BY <1>1
    <3> QED BY <1>1, <1>2, <1>3, <3>1
  <2>3. i \div p = 2 * q + 1
    BY <1>1, <1>2, <2>1, <2>2, DivisionUnique
  <2>4. (2 * q + 1) % 2 = 1
    OBVIOUS
  <2> QED BY <1>5, <2>3, <2>4 DEF Bit, i, p
<1> QED BY <1>4, <1>5

(* A level below the lowest clear bit: where the blocks of the next number
   end. *)
LEMMA CarryBlocks ==
  ASSUME NEW n \in Nat, NEW t \in Nat, LowestClear(n, t), NEW l \in 0 .. t - 1
  PROVE  /\ 2^l \in Nat \ {0} /\ 2^(l + 1) = 2 * 2^l
         /\ n \div 2^(l + 1) \in Nat
         /\ 2^(l + 1) * (n \div 2^(l + 1)) = n + 1 - 2 * 2^l
         /\ 2^(l + 1) * ((n + 1) \div 2^(l + 1)) = n + 1
         /\ n + 1 - 2 * 2^l \in Nat
<1> DEFINE N == n \div 2^(l + 1)
           M == (n + 1) \div 2^(l + 1)
           p == 2^(l + 1)
<1>1. 2^l \in Nat \ {0} /\ p \in Nat \ {0} /\ p = 2 * 2^l
  BY PowersDouble
<1>2. N \in Nat
  BY BitStep
<1>3. M = N + 1 /\ n + 1 = p * M
  BY Carry
<1> HIDE DEF N, M, p
<1>4. p * M = p * N + p /\ p * N \in Nat
  BY <1>1, <1>2, <1>3
<1>5. p * N = n + 1 - p
  BY <1>1, <1>3, <1>4
<1> QED BY <1>1, <1>2, <1>3, <1>4, <1>5 DEF N, M, p

(* What is carried up to a level is the sum of the leaves it covers. *)
LEMMA CarriedSums ==
  ASSUME NEW n \in Nat, NEW t \in Nat, LowestClear(n, t), NEW f, NEW a,
         \A l \in 0 .. t - 1 : a.pending[l] = XorSum(Left(n, l), f)
  PROVE  \A l \in 0 .. t : Carried(a, f[n], t)[l] = XorSum(n + 1 - 2^l .. n, f)
<1> DEFINE G == [l \in 0 .. t |-> XorSum(n + 1 - 2^l .. n, f)]
           IsCarried(cur) == cur = [l \in 0 .. t |-> IF l = 0 THEN f[n]
                                      ELSE SymDiff(cur[l - 1], a.pending[l - 1])]
           C == CHOOSE cur : IsCarried(cur)
<1>1. G[0] = f[n]
  <2>1. n + 1 - 2^0 .. n = {n}
    BY PowersDouble
  <2> QED BY <2>1, XorSumSingle
<1>2. ASSUME NEW l \in Nat, l + 1 <= t
      PROVE  G[l + 1] = SymDiff(G[l], a.pending[l])
  <2> DEFINE p == 2^l
             S == n + 1 - p .. n
             L == Left(n, l)
  <2>8. l \in 0 .. t - 1
    BY <1>2
  <2>9. /\ 2^l \in Nat \ {0} /\ 2^(l + 1) = 2 * 2^l
         /\ 2^(l + 1) * (n \div 2^(l + 1)) = n + 1 - 2 * 2^l
         /\ n + 1 - 2 * 2^l \in Nat
    BY ONLY <2>8, n \in Nat, t \in Nat, LowestClear(n, t), CarryBlocks
  <2>1. /\ l \in 0 .. t - 1 /\ p \in Nat \ {0} /\ 2^(l + 1) = 2 * p
        /\ 2^(l + 1) * (n \div 2^(l + 1)) = n + 1 - 2 * p
        /\ n + 1 - 2 * p \in Nat
    BY <2>8, <2>9
  <2>2. L = n + 1 - 2 * p .. n - p
    <3>1. L = n + 1 - 2 * p .. (n + 1 - 2 * p) + p - 1
      BY <2>1 DEF Left
    <3>2. (n + 1 - 2 * p) + p - 1 = n - p
      BY <2>1
    <3> QED BY <3>1, <3>2
  <2>3. a.pending[l] = XorSum(L, f)
    BY <2>1
  <2>4. G[l] = XorSum(S, f) /\ G[l + 1] = XorSum(n + 1 - 2 * p .. n, f)
    <3>1. l \in 0 .. t /\ l + 1 \in 0 .. t
      BY <1>2
    <3>2. G[l] = XorSum(n + 1 - 2^l .. n, f) /\ G[l + 1] = XorSum(n + 1 - 2^(l + 1) .. n, f)
      BY ONLY <3>1
    <3>3. 2^(l + 1) = 2 * p
      BY <2>1
    <3> QED BY ONLY <3>2, <3>3
  <2> HIDE DEF p, G, L
  <2>5. IsFiniteSet(S) /\ IsFiniteSet(L)
    <3>1. n + 1 - p \in Int /\ n + 1 - 2 * p \in Int /\ n - p \in Int /\ n \in Int
      BY <2>1
    <3> QED BY <2>2, <3>1, FS_Interval
  <2>6. S \cap L = {} /\ S \cup L = n + 1 - 2 * p .. n
    BY <2>1, <2>2
  <2> HIDE DEF S
  <2>7. XorSum(S \cup L, f) = SymDiff(XorSum(S, f), XorSum(L, f))
    BY <2>5, <2>6, XorSumSplit
  <2> QED BY <2>3, <2>4, <2>6, <2>7
<1>3. IsCarried(G)
  <2>1. ASSUME NEW l \in 0 .. t, l # 0
        PROVE  G[l] = SymDiff(G[l - 1], a.pending[l - 1])
    <3>1. l - 1 \in Nat /\ (l - 1) + 1 <= t /\ (l - 1) + 1 = l
      BY <2>1
    <3> HIDE DEF G
    <3> QED BY <1>2, <3>1
  <2>2. G = [l \in 0 .. t |-> G[l]]
    OBVIOUS
  <2>3. 0 \in 0 .. t
    OBVIOUS
  <2> HIDE DEF G
  <2>4. \A l \in 0 .. t : G[l] = IF l = 0 THEN f[n] ELSE SymDiff(G[l - 1], a.pending[l - 1])
    BY <1>1, <2>1
  <2> QED BY <2>2, <2>4
<1>4. IsCarried(C)
  <2> HIDE DEF G, IsCarried
  <2> QED BY <1>3
<1>5. C = Carried(a, f[n], t)
  BY DEF Carried
<1>6. ASSUME NEW l \in 0 .. t
      PROVE  C[l] = IF l = 0 THEN f[n] ELSE SymDiff(C[l - 1], a.pending[l - 1])
  <2> HIDE DEF C
  <2> QED BY <1>4
<1> HIDE DEF C, G, IsCarried
<1> DEFINE T == {l \in Nat : l <= t => C[l] = G[l]}
<1>7. 0 \in T
  BY <1>1, <1>6
<1>8. ASSUME NEW l \in Nat, l \in T
      PROVE  l + 1 \in T
  <2> SUFFICES ASSUME l + 1 <= t
               PROVE  C[l + 1] = G[l + 1]
    OBVIOUS
  <2>1. l + 1 \in 0 .. t /\ l + 1 # 0 /\ (l + 1) - 1 = l /\ l <= t
    OBVIOUS
  <2>2. C[l + 1] = SymDiff(C[l], a.pending[l])
    BY <1>6, <2>1
  <2>3. C[l] = G[l]
    BY <1>8, <2>1
  <2> QED BY <1>2, <2>2, <2>3
<1>9. \A l \in Nat : l \in T
  <2> HIDE DEF T
  <2> QED BY <1>7, <1>8, NumbersInductive
<1> SUFFICES ASSUME NEW l \in 0 .. t
             PROVE  Carried(a, f[n], t)[l] = XorSum(n + 1 - 2^l .. n, f)
  OBVIOUS
<1>10. C[l] = G[l]
  BY <1>9
<1> QED BY <1>5, <1>10 DEF G

(* The level a new leaf is carried to is the lowest clear bit of the count. *)
LEMMA TopIsLowestClear ==
  ASSUME NEW n \in 0 .. 2^K - 1, NEW D, D = {l \in 0 .. K : Bit(n, l) = 1}
  PROVE  Min((0 .. K) \ D) \in 0 .. K /\ LowestClear(n, Min((0 .. K) \ D))
<1> DEFINE S == (0 .. K) \ D
<1>1. K \in Nat /\ 2^K \in Nat
  BY ParamsAssumption, PowersDouble
<1>2. n \in Nat
  BY <1>1
<1>3. \A l \in 0 .. K : Bit(n, l) \in {0, 1}
  <2> SUFFICES ASSUME NEW l \in 0 .. K
               PROVE  Bit(n, l) \in {0, 1}
    OBVIOUS
  <2>1. l \in Nat
    BY <1>1
  <2> QED BY <1>2, <2>1, BitStep
<1>4. K \in S
  <2>1. Bit(n, K) = 0
    BY <1>1, SmallHasNoBit
  <2> QED BY <1>1, <2>1
<1>5. PICK m \in S : \A l \in S : m <= l
  <2>1. S \subseteq Nat /\ S # {}
    BY <1>1, <1>4
  <2> HIDE DEF S
  <2> QED BY <2>1, LeastNumber
<1>6. Min(S) \in S /\ \A l \in S : Min(S) <= l
  <2> HIDE DEF S
  <2> QED BY <1>5 DEF Min
<1> DEFINE t == Min(S)
<1>7. t \in 0 .. K /\ t \notin D /\ \A l \in 0 .. K : l < t => l \in D
  <2>1. t \in 0 .. K /\ t \notin D
    BY <1>6
  <2>2. \A l \in S : t <= l
    BY <1>6
  <2> HIDE DEF t
  <2>3. ASSUME NEW l \in 0 .. K, l < t
        PROVE  l \in D
    <3>1. ~ (t <= l)
      BY <1>1, <2>1, <2>3
    <3> QED BY <2>2, <3>1
  <2> QED BY <2>1, <2>3
<1> HIDE DEF t, S
<1>8. Bit(n, t) = 0
  BY <1>3, <1>7
<1>9. ASSUME NEW l \in 0 .. t - 1
      PROVE  Bit(n, l) = 1
  <2>1. l \in 0 .. K /\ l < t
    BY <1>1, <1>7
  <2> QED BY <1>7, <2>1
<1>10. t \in 0 .. K /\ LowestClear(n, t)
  BY <1>7, <1>8, <1>9 DEF LowestClear
<1> QED BY <1>10 DEF t, S

(* The completed leaves with bit b, one leaf later. *)
LEMMA OddLeavesGrow ==
  ASSUME NEW n \in Nat, NEW t \in Nat, LowestClear(n, t), NEW b \in 0 .. t - 1
  PROVE  /\ OddLeaves(n + 1, b) = OddLeaves(n, b) \cup (n + 1 - 2^b .. n)
         /\ OddLeaves(n, b) \cap (n + 1 - 2^b .. n) = {}
<1> DEFINE p == 2^b
           q == 2^(b + 1)
           N == n \div q
<1>1. /\ p \in Nat \ {0} /\ q = 2 * p /\ N \in Nat
      /\ q * N = n + 1 - 2 * p /\ q * ((n + 1) \div q) = n + 1
      /\ n + 1 - 2 * p \in Nat
  BY CarryBlocks
<1>2. b \in Nat
  OBVIOUS
<1>3. \A r \in 0 .. q - 1 : Bit(q * N + r, b) = IF r < p THEN 0 ELSE 1
  <2>1. \A c \in Nat, x \in Nat : \A r \in 0 .. 2^(c + 1) - 1 :
          Bit(2^(c + 1) * x + r, c) = IF r < 2^c THEN 0 ELSE 1
    BY BitInBlock
  <2>2. N \in Nat
    BY <1>1
  <2> QED BY ONLY <1>2, <2>1, <2>2
<1>4. OddLeaves(n, b) = {i \in 0 .. n - 2 * p : Bit(i, b) = 1}
  <2>1. OddLeaves(n, b) = {i \in 0 .. q * N - 1 : Bit(i, b) = 1}
    BY DEF OddLeaves
  <2>2. q * N - 1 = n - 2 * p
    <3> HIDE DEF p, q, N
    <3> QED BY <1>1
  <2> QED BY <2>1, <2>2
<1>5. OddLeaves(n + 1, b) = {i \in 0 .. n : Bit(i, b) = 1}
  <2>1. OddLeaves(n + 1, b) = {i \in 0 .. q * ((n + 1) \div q) - 1 : Bit(i, b) = 1}
    BY DEF OddLeaves
  <2>2. q * ((n + 1) \div q) - 1 = n
    BY <1>1
  <2> QED BY <2>1, <2>2
<1>6. ASSUME NEW i \in n + 1 - 2 * p .. n
      PROVE  Bit(i, b) = 1 <=> i \in n + 1 - p .. n
  <2> DEFINE r == i - (n + 1 - 2 * p)
  <2> HIDE DEF p, q, N
  <2>1. r \in 0 .. q - 1 /\ i = q * N + r /\ (r < p <=> i < n + 1 - p) /\ i \in Int
    BY <1>1, <1>6
  <2> HIDE DEF r
  <2>2. Bit(i, b) = IF r < p THEN 0 ELSE 1
    BY <1>3, <2>1
  <2> QED BY <1>1, <1>6, <2>1, <2>2
<1> HIDE DEF p, q, N
<1>7. /\ 0 .. n = (0 .. n - 2 * p) \cup (n + 1 - 2 * p .. n)
      /\ (0 .. n - 2 * p) \cap (n + 1 - p .. n) = {}
      /\ n + 1 - p .. n \subseteq n + 1 - 2 * p .. n
  BY <1>1
<1>8. /\ OddLeaves(n + 1, b) = OddLeaves(n, b) \cup (n + 1 - p .. n)
      /\ OddLeaves(n, b) \cap (n + 1 - p .. n) = {}
  BY <1>4, <1>5, <1>6, <1>7
<1> QED BY <1>8 DEF p

(* Adding the next leaf keeps the accumulator exact. *)
LEMMA PushExact ==
  ASSUME NEW a, NEW f, Exact(a, f), a.count < 2^K
  PROVE  Exact(Push(a, f[a.count]), f) /\ Push(a, f[a.count]).count = a.count + 1
<1> DEFINE n == a.count
           D == DOMAIN a.pending
           t == Min((0 .. K) \ D)
           C == Carried(a, f[n], t)
           e == Push(a, f[n])
<1>1. K \in Nat /\ 2^K \in Nat \ {0} /\ n \in Nat /\ n \in 0 .. 2^K - 1
  <2>1. K \in Nat /\ 2^K \in Nat \ {0}
    BY ParamsAssumption, PowersDouble
  <2>2. n \in 0 .. 2^K
    BY DEF Exact
  <2> QED BY <2>1, <2>2
<1>2. D = {l \in 0 .. K : Bit(n, l) = 1}
  BY DEF Exact
<1>3. /\ \A l \in D : a.pending[l] = XorSum(Left(n, l), f)
      /\ \A b \in 0 .. K - 1 : a.planes[b] = XorSum(OddLeaves(n, b), f)
  BY DEF Exact
<1>4. /\ e.count = n + 1
      /\ DOMAIN e.pending = {d \in D : d > t} \cup {t}
      /\ \A l \in DOMAIN e.pending : e.pending[l] = IF l = t THEN C[t] ELSE a.pending[l]
      /\ \A b \in 0 .. K - 1 :
           e.planes[b] = IF b < t THEN SymDiff(a.planes[b], C[b]) ELSE a.planes[b]
  BY DEF Push
<1>5. t \in 0 .. K /\ LowestClear(n, t)
  <2> HIDE DEF n, D
  <2> QED BY <1>1, <1>2, TopIsLowestClear
<1> HIDE DEF n, D, t, C, e
<1>6. t \in Nat
  BY <1>1, <1>5
<1>7. \A l \in 0 .. t : C[l] = XorSum(n + 1 - 2^l .. n, f)
  <2>1. ASSUME NEW l \in 0 .. t - 1
        PROVE  a.pending[l] = XorSum(Left(n, l), f)
    <3>1. l \in 0 .. K /\ Bit(n, l) = 1
      BY <1>1, <1>5 DEF LowestClear
    <3> QED BY <1>2, <1>3, <3>1
  <2> QED BY <1>1, <1>5, <1>6, <2>1, CarriedSums DEF C
<1>8. /\ \A l \in 0 .. t : /\ (n + 1) \div 2^l = n \div 2^l + 1
                          /\ n + 1 = 2^l * ((n + 1) \div 2^l)
      /\ \A l \in Nat : l > t => (n + 1) \div 2^l = n \div 2^l
      /\ \A l \in 0 .. t - 1 : Bit(n + 1, l) = 0
      /\ Bit(n + 1, t) = 1
      /\ \A l \in Nat : l > t => Bit(n + 1, l) = Bit(n, l)
  BY <1>1, <1>5, <1>6, Carry
<1>9. n + 1 \in 0 .. 2^K
  BY <1>1
<1>10. DOMAIN e.pending = {l \in 0 .. K : Bit(n + 1, l) = 1}
  <2>1. ASSUME NEW l \in 0 .. K
        PROVE  (l \in D /\ l > t) \/ l = t <=> Bit(n + 1, l) = 1
    <3>1. l \in Nat
      BY <1>1
    <3>2. CASE l > t
      BY <1>2, <1>6, <1>8, <3>1, <3>2
    <3>3. CASE l = t
      BY <1>8, <3>3
    <3>4. CASE l < t
      <4>1. l \in 0 .. t - 1 /\ ~ (l > t) /\ l # t
        BY <1>6, <3>1, <3>4
      <4> QED BY <1>8, <4>1
    <3> QED BY <1>6, <3>1, <3>2, <3>3, <3>4
  <2>2. {d \in D : d > t} \cup {t} = {l \in 0 .. K : Bit(n + 1, l) = 1}
    BY <1>2, <1>5, <2>1
  <2> QED BY <1>4, <2>2
<1>11. ASSUME NEW l \in DOMAIN e.pending
       PROVE  e.pending[l] = XorSum(Left(n + 1, l), f)
  <2>1. CASE l = t
    <3> DEFINE p == 2^t
               M == (n + 1) \div 2^(t + 1)
    <3>1. p \in Nat \ {0} /\ 2^(t + 1) = 2 * p
      BY <1>6, PowersDouble
    <3>2. n + 1 = p * ((n + 1) \div p) /\ (n + 1) \div p = 2 * M + 1 /\ M \in Nat
      <4>1. t \in 0 .. t /\ n + 1 \in Nat
        BY <1>1, <1>6
      <4> QED BY <1>6, <1>8, <4>1, BitStep
    <3> HIDE DEF p, M
    <3>3. n + 1 = 2 * p * M + p /\ 2 * p * M \in Nat
      <4>1. p * (2 * M + 1) = 2 * p * M + p /\ 2 * p * M \in Nat
        BY <3>1, <3>2
      <4> QED BY <3>2, <4>1
    <3>4. Left(n + 1, t) = 2 * p * M .. 2 * p * M + p - 1
      BY <3>1 DEF Left, p, M
    <3>5. 2 * p * M = n + 1 - p /\ 2 * p * M + p - 1 = n
      BY <1>1, <3>1, <3>3
    <3>6. C[t] = XorSum(n + 1 - p .. n, f)
      <4>1. t \in 0 .. t
        BY <1>6
      <4> QED BY <1>7, <4>1 DEF p
    <3> QED BY <1>4, <2>1, <3>4, <3>5, <3>6
  <2>2. CASE l # t
    <3>1. l \in D /\ l > t /\ l \in Nat
      BY <1>1, <1>2, <1>4, <2>2
    <3>2. l + 1 \in Nat /\ l + 1 > t
      BY <1>6, <3>1
    <3>3. Left(n + 1, l) = Left(n, l)
      BY <1>8, <3>2 DEF Left
    <3> QED BY <1>3, <1>4, <2>2, <3>1, <3>3
  <2> QED BY <2>1, <2>2
<1>12. ASSUME NEW b \in 0 .. K - 1
       PROVE  e.planes[b] = XorSum(OddLeaves(n + 1, b), f)
  <2>1. CASE b < t
    <3> DEFINE S == OddLeaves(n, b)
               R == n + 1 - 2^b .. n
    <3>1. b \in 0 .. t - 1 /\ b \in 0 .. t
      BY <1>1, <1>6, <2>1
    <3>2. OddLeaves(n + 1, b) = S \cup R /\ S \cap R = {}
      BY <1>1, <1>5, <1>6, <3>1, OddLeavesGrow
    <3>3. IsFiniteSet(S) /\ IsFiniteSet(R)
      <4>1. 2^b \in Nat /\ 2^(b + 1) * (n \div 2^(b + 1)) - 1 \in Int
        <5>1. b \in Nat /\ b + 1 \in Nat
          BY <3>1
        <5>2. 2^b \in Nat /\ 2^(b + 1) \in Nat \ {0}
          BY <5>1, PowersDouble
        <5>3. n \div 2^(b + 1) \in Nat
          BY <1>1, <5>2, Division
        <5> QED BY <5>2, <5>3
      <4>2. IsFiniteSet(0 .. 2^(b + 1) * (n \div 2^(b + 1)) - 1) /\ IsFiniteSet(R)
        <5>1. n + 1 - 2^b \in Int /\ n \in Int
          BY <1>1, <4>1
        <5> QED BY <4>1, <5>1, FS_Interval
      <4>3. S \subseteq 0 .. 2^(b + 1) * (n \div 2^(b + 1)) - 1
        BY DEF OddLeaves
      <4> HIDE DEF S, R
      <4> QED BY <4>2, <4>3, FS_Subset
    <3> HIDE DEF S, R
    <3>4. XorSum(S \cup R, f) = SymDiff(XorSum(S, f), XorSum(R, f))
      BY <3>2, <3>3, XorSumSplit
    <3>5. a.planes[b] = XorSum(S, f) /\ C[b] = XorSum(R, f)
      BY <1>3, <1>7, <3>1 DEF S, R
    <3> QED BY <1>4, <2>1, <3>2, <3>4, <3>5
  <2>2. CASE ~ (b < t)
    <3>1. b + 1 \in Nat /\ b + 1 > t
      BY <1>1, <1>6, <2>2
    <3>2. OddLeaves(n + 1, b) = OddLeaves(n, b)
      BY <1>8, <3>1 DEF OddLeaves
    <3> QED BY <1>3, <1>4, <2>2, <3>2
  <2> QED BY <2>1, <2>2
<1>13. Exact(e, f) /\ e.count = n + 1
  BY <1>4, <1>9, <1>10, <1>11, <1>12 DEF Exact
<1> QED BY <1>13 DEF e, n

(* No leaf has been added yet. *)
LEMMA FreshExact ==
  ASSUME NEW f
  PROVE  Exact(Fresh, f) /\ Fresh.count = 0
<1>1. K \in Nat /\ 2^K \in Nat \ {0}
  BY ParamsAssumption, PowersDouble
<1>2. \A l \in Nat : 2^l \in Nat \ {0} /\ 0 \div 2^l = 0 /\ Bit(0, l) = 0
  <2> SUFFICES ASSUME NEW l \in Nat
               PROVE  2^l \in Nat \ {0} /\ 0 \div 2^l = 0 /\ Bit(0, l) = 0
    OBVIOUS
  <2>1. 2^l \in Nat \ {0}
    BY PowersDouble
  <2>2. 0 \in 0 .. 2^l - 1
    BY <2>1
  <2> QED BY <2>1, <2>2, SmallHasNoBit
<1>3. 0 \in 0 .. 2^K
  BY <1>1
<1>4. DOMAIN Fresh.pending = {l \in 0 .. K : Bit(0, l) = 1}
  BY <1>1, <1>2 DEF Fresh
<1>5. ASSUME NEW b \in 0 .. K - 1
      PROVE  Fresh.planes[b] = XorSum(OddLeaves(0, b), f)
  <2>1. b + 1 \in Nat
    BY <1>1
  <2>2. 2^(b + 1) * (0 \div 2^(b + 1)) - 1 = -1
    BY <1>2, <2>1
  <2>3. OddLeaves(0, b) = {}
    BY <2>2 DEF OddLeaves
  <2> QED BY <2>3, XorSumEmpty DEF Fresh
<1>6. Fresh.count = 0 /\ DOMAIN Fresh.pending = {}
  BY DEF Fresh
<1> QED BY <1>3, <1>4, <1>5, <1>6 DEF Exact

(* A full accumulator holds the sum of all leaves and the planes of all of
   them. *)
LEMMA FullExact ==
  ASSUME NEW a, NEW f, Exact(a, f), a.count = 2^K
  PROVE  /\ a.pending[K] = XorSum(Leaves, f)
         /\ \A b \in 0 .. K - 1 : a.planes[b] = XorSum({i \in Leaves : Bit(i, b) = 1}, f)
<1> DEFINE p == 2^K
<1>1. K \in Nat /\ p \in Nat \ {0} /\ 2^(K + 1) = 2 * p
  BY ParamsAssumption, PowersDouble
<1>2. Leaves = 0 .. p - 1
  BY DEF Leaves, NodesAt
<1>3. a.pending[K] = XorSum(Leaves, f)
  <2>1. p \div p = 1 /\ p \div (2 * p) = 0
    <3> HIDE DEF p
    <3>1. 0 \in Nat /\ 1 \in Nat /\ 0 \in 0 .. p - 1 /\ p \in 0 .. 2 * p - 1
          /\ 2 * p \in Nat \ {0} /\ p = p * 1 + 0 /\ p = (2 * p) * 0 + p
      BY <1>1
    <3> QED BY <1>1, <3>1, DivisionUnique
  <2>2. K \in DOMAIN a.pending
    <3>1. Bit(p, K) = 1
      BY <2>1 DEF Bit
    <3> QED BY <1>1, <3>1 DEF Exact
  <2>3. Left(p, K) = Leaves
    <3>1. 2^(K + 1) * (p \div 2^(K + 1)) = 0
      BY <1>1, <2>1
    <3>2. Left(p, K) = 0 .. 0 + p - 1
      BY <3>1 DEF Left
    <3>3. 0 + p - 1 = p - 1
      BY <1>1
    <3> QED BY <1>2, <3>2, <3>3
  <2> QED BY <2>2, <2>3 DEF Exact
<1>4. ASSUME NEW b \in 0 .. K - 1
      PROVE  a.planes[b] = XorSum({i \in Leaves : Bit(i, b) = 1}, f)
  <2> DEFINE q == 2^(b + 1)
             r == 2^(K - (b + 1))
  <2>1. b + 1 \in Nat /\ K - (b + 1) \in Nat /\ (b + 1) + (K - (b + 1)) = K
    BY <1>1
  <2>2. q \in Nat \ {0} /\ r \in Nat
    BY <2>1, PowersDouble
  <2>3. p = q * r
    <3>1. 2^((b + 1) + (K - (b + 1))) = q * r
      BY <2>1, PowersAdd
    <3> QED BY <2>1, <3>1
  <2> HIDE DEF q, r, p
  <2>4. p \div q = r
    <3>1. 0 \in 0 .. q - 1 /\ p = q * r + 0
      BY <1>1, <2>2, <2>3
    <3> QED BY <1>1, <2>2, <3>1, DivisionUnique
  <2>5. q * (p \div q) - 1 = p - 1
    BY <2>3, <2>4
  <2>6. OddLeaves(p, b) = {i \in 0 .. q * (p \div q) - 1 : Bit(i, b) = 1}
    BY DEF OddLeaves, q
  <2>7. OddLeaves(p, b) = {i \in Leaves : Bit(i, b) = 1}
    BY <1>2, <2>5, <2>6
  <2> QED BY <2>7 DEF Exact, p
<1> QED BY <1>3, <1>4
-----------------------------------------------------------------------------
(***************************************************************************)
(* Seed trees.                                                             *)
(***************************************************************************)

(* The seeds of level l of a tree, given those of the level above. *)
SeedsBelow(root, salt, l, above) ==
  [i \in NodesAt(l) |->
     IF l = 0 THEN root ELSE ExpandNode(salt, l - 1, i \div 2, above[i \div 2])[i % 2]]

IsSeedTree(root, salt, m, g) ==
  /\ g = [l \in 0 .. m |-> g[l]]
  /\ \A l \in 0 .. m : g[l] = SeedsBelow(root, salt, l, g[l - 1])

(* Expanding a root level by level is well defined. *)
LEMMA SeedTreesExist ==
  ASSUME NEW root, NEW salt, NEW m \in Nat
  PROVE  \E g : IsSeedTree(root, salt, m, g)
<1> DEFINE T == {n \in Nat : \E g : IsSeedTree(root, salt, n, g)}
<1>1. 0 \in T
  <2> DEFINE h == [l \in 0 .. 0 |-> [i \in NodesAt(0) |-> root]]
  <2>1. h = [l \in 0 .. 0 |-> h[l]]
    OBVIOUS
  <2>2. \A l \in 0 .. 0 : h[l] = SeedsBelow(root, salt, l, h[l - 1])
    BY DEF SeedsBelow
  <2>3. IsSeedTree(root, salt, 0, h)
    <3> HIDE DEF h
    <3> QED BY <2>1, <2>2 DEF IsSeedTree
  <2> QED BY <2>3
<1>2. ASSUME NEW n \in Nat, n \in T
      PROVE  n + 1 \in T
  <2>1. PICK g : IsSeedTree(root, salt, n, g)
    BY <1>2
  <2> DEFINE h == [l \in 0 .. n + 1 |->
                     IF l = n + 1 THEN SeedsBelow(root, salt, n + 1, g[n]) ELSE g[l]]
  <2>2. /\ h = [l \in 0 .. n + 1 |-> h[l]]
        /\ h[n + 1] = SeedsBelow(root, salt, n + 1, g[n])
        /\ \A l \in 0 .. n : h[l] = g[l]
    OBVIOUS
  <2> HIDE DEF h
  <2>3. ASSUME NEW l \in 0 .. n + 1
        PROVE  h[l] = SeedsBelow(root, salt, l, h[l - 1])
    <3>1. CASE l = n + 1
      <4>1. l - 1 = n /\ n \in 0 .. n
        BY <3>1
      <4>2. h[l - 1] = g[n]
        BY <2>2, <4>1
      <4> QED BY <2>2, <3>1, <4>2
    <3>2. CASE l = 0
      <4>1. 0 \in 0 .. n
        OBVIOUS
      <4>2. h[0] = SeedsBelow(root, salt, 0, g[0 - 1])
        BY <2>1, <2>2, <4>1 DEF IsSeedTree
      <4>3. \A u, v : SeedsBelow(root, salt, 0, u) = SeedsBelow(root, salt, 0, v)
        BY DEF SeedsBelow
      <4> QED BY ONLY <3>2, <4>2, <4>3
    <3>3. CASE l # n + 1 /\ l # 0
      <4>1. l \in 0 .. n /\ l - 1 \in 0 .. n
        BY <3>3
      <4>2. h[l] = g[l] /\ h[l - 1] = g[l - 1]
        BY <2>2, <4>1
      <4> QED BY <2>1, <4>1, <4>2 DEF IsSeedTree
    <3> QED BY <3>1, <3>2, <3>3
  <2>4. IsSeedTree(root, salt, n + 1, h)
    BY <2>2, <2>3 DEF IsSeedTree
  <2> QED BY <2>4
<1>3. \A n \in Nat : n \in T
  <2> HIDE DEF T
  <2> QED BY <1>1, <1>2, NumbersInductive
<1> QED BY <1>3

(* The seeds of a tree: the root, and the expansions of their parents. *)
LEMMA SeedsExpanded ==
  ASSUME NEW root, NEW salt, NEW depth \in Nat
  PROVE  LET seeds == SeedLevels(root, salt, depth)
         IN  /\ seeds[0][0] = root
             /\ \A l \in 1 .. depth : \A i \in NodesAt(l) :
                  seeds[l][i] = <<"expand", salt, l - 1, i \div 2,
                                  seeds[l - 1][i \div 2], (i % 2)>>
<1> DEFINE Is(g) ==
             g = [l \in 0 .. depth |->
                    [i \in NodesAt(l) |->
                       IF l = 0 THEN root
                       ELSE ExpandNode(salt, l - 1, i \div 2, g[l - 1][i \div 2])[i % 2]]]
           seeds == SeedLevels(root, salt, depth)
<1>1. \E g : Is(g)
  <2>1. PICK g : IsSeedTree(root, salt, depth, g)
    BY SeedTreesExist
  <2>2. Is(g)
    BY <2>1 DEF IsSeedTree, SeedsBelow
  <2> QED BY <2>2
<1>2. seeds = CHOOSE g : Is(g)
  BY DEF SeedLevels
<1> HIDE DEF seeds
<1>3. Is(seeds)
  <2> HIDE DEF Is
  <2> QED BY <1>1, <1>2
<1>4. ASSUME NEW l \in 0 .. depth, NEW i \in NodesAt(l)
      PROVE  seeds[l][i] = IF l = 0 THEN root
                 ELSE ExpandNode(salt, l - 1, i \div 2, seeds[l - 1][i \div 2])[i % 2]
  <2>1. seeds[l] =
          [c \in NodesAt(l) |->
             IF l = 0 THEN root
             ELSE ExpandNode(salt, l - 1, c \div 2, seeds[l - 1][c \div 2])[c % 2]]
    BY <1>3
  <2> QED BY ONLY <2>1, i \in NodesAt(l)
<1> HIDE DEF Is
<1>5. seeds[0][0] = root
  <2>1. 0 \in NodesAt(0) /\ 0 \in 0 .. depth
    BY PowersDouble DEF NodesAt
  <2> QED BY <1>4, <2>1
<1>6. ASSUME NEW l \in 1 .. depth, NEW i \in NodesAt(l)
      PROVE  seeds[l][i] = <<"expand", salt, l - 1, i \div 2,
                             seeds[l - 1][i \div 2], (i % 2)>>
  <2>1. l \in 0 .. depth /\ l # 0
    OBVIOUS
  <2>2. seeds[l][i] = ExpandNode(salt, l - 1, i \div 2, seeds[l - 1][i \div 2])[i % 2]
    BY <1>4, <2>1
  <2>3. (i % 2) \in {0, 1}
    <3>1. i \in Nat
      <4>1. 2^l \in Nat
        BY PowersDouble
      <4> QED BY <4>1 DEF NodesAt
    <3> QED BY <3>1
  <2>5. \A u, v, w : \A s \in {0, 1} :
          ExpandNode(salt, u, v, w)[s] = <<"expand", salt, u, v, w, s>>
    BY DEF ExpandNode
  <2> QED BY <2>2, <2>3, <2>5
<1>7. /\ seeds[0][0] = root
      /\ \A l \in 1 .. depth : \A i \in NodesAt(l) :
           seeds[l][i] = <<"expand", salt, l - 1, i \div 2,
                           seeds[l - 1][i \div 2], (i % 2)>>
  BY <1>5, <1>6
<1> QED BY <1>7 DEF seeds

(* The path to a leaf: one node on each level, each the parent of the next. *)
LEMMA PathFacts ==
  ASSUME NEW leaf \in Leaves
  PROVE  /\ K \in Nat /\ leaf \in Nat
         /\ \A l \in 0 .. K : PathIndex(leaf, K, l) \in NodesAt(l)
         /\ \A l \in 1 .. K : PathIndex(leaf, K, l) \div 2 = PathIndex(leaf, K, l - 1)
         /\ PathIndex(leaf, K, K) = leaf /\ PathIndex(leaf, K, 0) = 0
<1>1. K \in Nat /\ 2^K \in Nat \ {0} /\ leaf \in Nat /\ leaf < 2^K
  <2>1. K \in Nat /\ 2^K \in Nat \ {0}
    BY ParamsAssumption, PowersDouble
  <2> QED BY <2>1 DEF Leaves, NodesAt
<1>2. ASSUME NEW l \in 0 .. K
      PROVE  PathIndex(leaf, K, l) \in NodesAt(l)
  <2> DEFINE p == 2^(K - l)
             r == 2^l
             q == leaf \div p
  <2>1. l \in Nat /\ K - l \in Nat /\ l + (K - l) = K
    BY <1>1
  <2>2. p \in Nat \ {0} /\ r \in Nat \ {0}
    BY <2>1, PowersDouble
  <2>3. 2^K = r * p
    <3>1. 2^(l + (K - l)) = r * p
      BY <2>1, PowersAdd
    <3> QED BY <2>1, <3>1
  <2>4. q \in Nat /\ (leaf % p) \in Nat /\ leaf = p * q + (leaf % p)
    <3>1. q \in Nat /\ (leaf % p) \in 0 .. p - 1 /\ leaf = p * q + (leaf % p)
      BY ONLY <1>1, <2>2, Division
    <3> QED BY <2>2, <3>1
  <2> HIDE DEF p, q, r
  <2>5. p * q < r * p
    BY <1>1, <2>2, <2>3, <2>4
  <2>6. q < r
    <3>1. CASE q >= r
      <4>1. PICK x \in Nat : q = r + x
        <5>1. q - r \in Nat /\ q = r + (q - r)
          BY <2>2, <2>4, <3>1
        <5> QED BY <5>1
      <4>2. p * q = r * p + p * x /\ p * x \in Nat /\ r * p \in Nat
        BY <2>2, <4>1
      <4> QED BY <2>5, <4>2
    <3> QED BY <2>2, <2>4, <3>1
  <2>7. q \in 0 .. r - 1
    BY <2>2, <2>4, <2>6
  <2> QED BY <2>7 DEF PathIndex, NodesAt, p, q, r
<1>3. ASSUME NEW l \in 1 .. K
      PROVE  PathIndex(leaf, K, l) \div 2 = PathIndex(leaf, K, l - 1)
  <2> DEFINE p == 2^(K - l)
  <2>1. K - l \in Nat /\ (K - l) + 1 = K - (l - 1)
    BY <1>1
  <2>2. p \in Nat \ {0} /\ 2^(K - (l - 1)) = p * 2
    <3>1. p \in Nat \ {0} /\ 2^((K - l) + 1) = 2 * p
      BY <2>1, PowersDouble
    <3> QED BY <2>1, <3>1
  <2> HIDE DEF p
  <2>3. 2 \in Nat \ {0}
    OBVIOUS
  <2>4. (leaf \div p) \div 2 = leaf \div (p * 2)
    <3>1. leaf \in Nat /\ p \in Nat \ {0}
      BY <1>1, <2>2
    <3> QED BY ONLY <2>3, <3>1, DivisionTwice
  <2> QED BY <2>2, <2>4 DEF PathIndex, p
<1>4. PathIndex(leaf, K, K) = leaf
  <2>1. K - K = 0 /\ 2^0 = 1 /\ leaf \div 1 = leaf
    BY <1>1, PowersDouble
  <2> QED BY <2>1 DEF PathIndex
<1>5. PathIndex(leaf, K, 0) = 0
  <2>1. K - 0 = K
    BY <1>1
  <2>2. leaf \div 2^K = 0
    BY <1>1
  <2> QED BY <2>1, <2>2 DEF PathIndex
<1> QED BY <1>1, <1>2, <1>3, <1>4, <1>5

(* The sibling is the other child of the same parent. *)
LEMMA SiblingFacts ==
  ASSUME NEW x \in Nat
  PROVE  /\ SiblingIndex(x) \in Nat /\ SiblingIndex(x) # x
         /\ SiblingIndex(x) \div 2 = x \div 2
         /\ (SiblingIndex(x) % 2) # (x % 2)
         /\ \A y \in Nat : y # x /\ y \div 2 = x \div 2 => y = SiblingIndex(x)
<1>1. x = 2 * (x \div 2) + (x % 2) /\ (x % 2) \in {0, 1} /\ x \div 2 \in Nat
  OBVIOUS
<1>2. ASSUME NEW y \in Nat, y # x, y \div 2 = x \div 2
      PROVE  y = SiblingIndex(x)
  <2>1. y = 2 * (y \div 2) + (y % 2) /\ (y % 2) \in {0, 1}
    OBVIOUS
  <2> QED BY <1>1, <1>2, <2>1 DEF SiblingIndex
<1>3. CASE (x % 2) = 0
  BY <1>1, <1>2, <1>3 DEF SiblingIndex
<1>4. CASE (x % 2) = 1
  BY <1>1, <1>2, <1>4 DEF SiblingIndex
<1> QED BY <1>1, <1>3, <1>4

(* A sibling is a node of the same level. *)
LEMMA SiblingOnLevel ==
  ASSUME NEW l \in Nat, l # 0, NEW x \in NodesAt(l)
  PROVE  SiblingIndex(x) \in NodesAt(l) /\ x \in Nat
<1> DEFINE p == 2^(l - 1)
<1>1. l - 1 \in Nat /\ (l - 1) + 1 = l
  OBVIOUS
<1>2. p \in Nat \ {0} /\ 2^l = 2 * p
  <2>1. p \in Nat \ {0} /\ 2^((l - 1) + 1) = 2 * p
    BY <1>1, PowersDouble
  <2> QED BY <1>1, <2>1
<1> HIDE DEF p
<1>3. x \in Nat /\ x < 2 * p
  BY <1>2 DEF NodesAt
<1>4. SiblingIndex(x) \in Nat /\ SiblingIndex(x) < 2 * p
  BY <1>2, <1>3 DEF SiblingIndex
<1> QED BY <1>2, <1>3, <1>4 DEF NodesAt

(* The levels at which a leaf lies below a revealed sibling. *)
Covering(i, hide) ==
  {level \in 1 .. K : PathIndex(i, K, level) = SiblingIndex(PathIndex(hide, K, level))}

(* Every leaf but the hidden one lies below some revealed sibling. *)
LEMMA CoveringFacts ==
  ASSUME NEW i \in Leaves, NEW hide \in Leaves
  PROVE  /\ i = hide => Covering(i, hide) = {}
         /\ i # hide => Covering(i, hide) # {} /\ Max(Covering(i, hide)) \in Covering(i, hide)
<1> DEFINE P == [l \in 0 .. K |-> PathIndex(i, K, l)]
           Q == [l \in 0 .. K |-> PathIndex(hide, K, l)]
<1>1. /\ K \in Nat
      /\ \A l \in 0 .. K : P[l] \in Nat /\ Q[l] \in Nat
      /\ \A l \in 1 .. K : P[l] \div 2 = P[l - 1] /\ Q[l] \div 2 = Q[l - 1]
      /\ P[K] = i /\ Q[K] = hide /\ P[0] = Q[0]
  <2>1. \A l \in 0 .. K : NodesAt(l) \subseteq Nat
    BY DEF NodesAt
  <2>2. K \in Nat /\ \A l \in 1 .. K : l \in 0 .. K /\ l - 1 \in 0 .. K
    BY ParamsAssumption
  <2>3. 0 \in 0 .. K /\ K \in 0 .. K
    BY <2>2
  <2>4. \A l \in 0 .. K : P[l] \in Nat /\ Q[l] \in Nat
    BY <2>1, PathFacts
  <2>5. \A l \in 1 .. K : P[l] \div 2 = P[l - 1] /\ Q[l] \div 2 = Q[l - 1]
    BY <2>2, PathFacts
  <2>6. P[K] = i /\ Q[K] = hide /\ P[0] = Q[0]
    BY <2>3, PathFacts
  <2> QED BY <2>2, <2>4, <2>5, <2>6
<1>2. Covering(i, hide) = {l \in 1 .. K : P[l] = SiblingIndex(Q[l])}
  <2>1. \A l \in 1 .. K : l \in 0 .. K
    OBVIOUS
  <2> QED BY <2>1 DEF Covering
<1> HIDE DEF P, Q
<1>3. ASSUME i = hide
      PROVE  Covering(i, hide) = {}
  <2> SUFFICES ASSUME NEW l \in Covering(i, hide)
               PROVE  FALSE
    OBVIOUS
  <2>1. l \in 1 .. K /\ PathIndex(hide, K, l) = SiblingIndex(PathIndex(hide, K, l))
    BY <1>3 DEF Covering
  <2>2. PathIndex(hide, K, l) \in Nat
    <3>1. l \in 0 .. K
      BY <2>1
    <3> QED BY <3>1, PathFacts DEF NodesAt
  <2> QED BY <2>1, <2>2, SiblingFacts
<1>4. ASSUME i # hide
      PROVE  Covering(i, hide) # {} /\ Max(Covering(i, hide)) \in Covering(i, hide)
  <2> DEFINE D == {l \in 0 .. K : P[l] # Q[l]}
  <2>1. D \subseteq Nat /\ D # {}
    <3>1. K \in D
      BY <1>1, <1>4
    <3> QED BY <1>1, <3>1
  <2>2. PICK l \in D : \A m \in D : l <= m
    <3> HIDE DEF D
    <3> QED BY <2>1, LeastNumber
  <2>3. l # 0
    BY <1>1
  <2>4. l \in 1 .. K /\ l - 1 \in 0 .. K /\ ~ (l <= l - 1)
    BY <1>1, <2>3
  <2>5. P[l - 1] = Q[l - 1]
    BY <2>2, <2>4
  <2>6. P[l] = SiblingIndex(Q[l])
    <3>1. P[l] \in Nat /\ Q[l] \in Nat /\ P[l] # Q[l] /\ P[l] \div 2 = Q[l] \div 2
      BY <1>1, <2>4, <2>5
    <3> QED BY ONLY <3>1, SiblingFacts
  <2> DEFINE C == Covering(i, hide)
             N == {n \in Nat : K - n \in C}
  <2>7. l \in C
    BY <1>2, <2>4, <2>6
  <2>8. C \subseteq 1 .. K
    BY DEF Covering
  <2> HIDE DEF C
  <2>9. PICK n \in N : \A m \in N : n <= m
    <3>1. K - l \in Nat /\ K - (K - l) = l
      BY <1>1, <2>4
    <3>2. K - l \in N
      BY <2>7, <3>1
    <3>3. N \subseteq Nat /\ N # {}
      BY <3>2
    <3> HIDE DEF N
    <3> QED BY <3>3, LeastNumber
  <2>10. K - n \in C /\ \A m \in C : K - n >= m
    <3>1. K - n \in C /\ n \in Nat
      BY <2>9
    <3>2. ASSUME NEW m \in C
          PROVE  K - n >= m
      <4>1. m \in 1 .. K /\ K - m \in Nat /\ K - (K - m) = m
        BY <1>1, <2>8
      <4>2. K - m \in N
        BY <4>1
      <4>3. n <= K - m
        BY <2>9, <4>2
      <4> QED BY <1>1, <3>1, <4>1, <4>3
    <3> QED BY <3>1, <3>2
  <2> HIDE DEF N
  <2>11. Max(C) \in C
    BY <2>10 DEF Max
  <2> QED BY <2>7, <2>11 DEF C
<1> QED BY <1>3, <1>4

(* Descending from a node of a tree ends in the tree's own leaf. *)
LEMMA DescendFollowsTree ==
  ASSUME NEW root, NEW salt, NEW i \in Leaves, NEW level \in 1 .. K
  PROVE  LET seeds == SeedLevels(root, salt, K)
         IN  Descend(salt, K, level, seeds[level][PathIndex(i, K, level)], i) = seeds[K][i]
<1> DEFINE seeds == SeedLevels(root, salt, K)
           P == [l \in 0 .. K |-> PathIndex(i, K, l)]
           first == seeds[level][P[level]]
           G == [l \in level .. K |-> seeds[l][P[l]]]
           Is(g) == g = [l \in level .. K |->
                           IF l = level THEN first
                           ELSE ExpandNode(salt, l - 1, PathIndex(i, K, l - 1), g[l - 1])
                                  [PathIndex(i, K, l) % 2]]
           C == CHOOSE g : Is(g)
<1>1. K \in Nat /\ \A l \in level .. K : l \in 0 .. K /\ l \in Nat
  BY ParamsAssumption
<1>2. Descend(salt, K, level, first, i) = C[K]
  BY DEF Descend
<1>3. \A l \in 0 .. K : P[l] = PathIndex(i, K, l)
  OBVIOUS
<1>4. ASSUME NEW l \in level .. K, l # level
      PROVE  seeds[l][P[l]] =
               ExpandNode(salt, l - 1, PathIndex(i, K, l - 1), seeds[l - 1][P[l - 1]])
                 [PathIndex(i, K, l) % 2]
  <2>1. l \in 1 .. K /\ l - 1 \in 0 .. K /\ l \in 0 .. K
    BY <1>1, <1>4
  <2>2. /\ P[l] \in NodesAt(l) /\ P[l] \div 2 = P[l - 1]
        /\ P[l] = PathIndex(i, K, l) /\ P[l - 1] = PathIndex(i, K, l - 1)
    BY <2>1, PathFacts
  <2> HIDE DEF P, seeds
  <2>3. seeds[l][P[l]] = <<"expand", salt, l - 1, P[l - 1], seeds[l - 1][P[l - 1]], (P[l] % 2)>>
    <3>1. seeds[l][P[l]] =
            <<"expand", salt, l - 1, P[l] \div 2, seeds[l - 1][P[l] \div 2], (P[l] % 2)>>
      BY <1>1, <2>1, <2>2, SeedsExpanded DEF seeds
    <3> QED BY <2>2, <3>1
  <2>4. (P[l] % 2) \in {0, 1}
    <3>1. P[l] \in Nat
      BY <2>2 DEF NodesAt
    <3> QED BY <3>1
  <2>5. \A u, v, w : \A s \in {0, 1} :
          ExpandNode(salt, u, v, w)[s] = <<"expand", salt, u, v, w, s>>
    BY DEF ExpandNode
  <2> QED BY <2>2, <2>3, <2>4, <2>5
<1> HIDE DEF seeds, P
<1>5. Is(G)
  <2>1. \A l \in level .. K :
          seeds[l][P[l]] = IF l = level THEN first
            ELSE ExpandNode(salt, l - 1, PathIndex(i, K, l - 1), G[l - 1])
                   [PathIndex(i, K, l) % 2]
    <3>1. ASSUME NEW l \in level .. K, l # level
          PROVE  G[l - 1] = seeds[l - 1][P[l - 1]]
      <4>1. l - 1 \in level .. K
        BY <1>1, <3>1
      <4> QED BY <4>1
    <3> HIDE DEF G
    <3>2. level \in level .. K
      BY <1>1
    <3> QED BY <1>4, <3>1, <3>2
  <2> QED BY <2>1
<1>6. Is(C)
  <2> HIDE DEF Is, G
  <2> QED BY <1>5
<1>7. /\ C[level] = first /\ G[level] = first /\ G[K] = seeds[K][P[K]]
      /\ \A l \in level .. K : l # level =>
           C[l] = ExpandNode(salt, l - 1, PathIndex(i, K, l - 1), C[l - 1])
                    [PathIndex(i, K, l) % 2]
      /\ \A l \in level .. K : l # level =>
           G[l] = ExpandNode(salt, l - 1, PathIndex(i, K, l - 1), G[l - 1])
                    [PathIndex(i, K, l) % 2]
  <2>1. level \in level .. K /\ K \in level .. K
    BY <1>1
  <2>2. G[level] = first /\ G[K] = seeds[K][P[K]]
    BY <2>1
  <2> HIDE DEF C, G, first
  <2>3. ASSUME NEW h, Is(h)
        PROVE  /\ h[level] = first
               /\ \A l \in level .. K : l # level =>
                    h[l] = ExpandNode(salt, l - 1, PathIndex(i, K, l - 1), h[l - 1])
                             [PathIndex(i, K, l) % 2]
    BY <2>1, <2>3
  <2> HIDE DEF Is
  <2> QED BY <1>5, <1>6, <2>2, <2>3
<1> HIDE DEF C, G, Is, first
<1> DEFINE T == {n \in Nat : level + n <= K => C[level + n] = G[level + n]}
<1>8. 0 \in T
  <2>1. level + 0 = level
    BY <1>1
  <2> QED BY <1>7, <2>1
<1>9. ASSUME NEW n \in Nat, n \in T
      PROVE  n + 1 \in T
  <2> SUFFICES ASSUME level + (n + 1) <= K
               PROVE  C[level + (n + 1)] = G[level + (n + 1)]
    OBVIOUS
  <2>1. /\ level + (n + 1) \in level .. K /\ level + (n + 1) # level
        /\ (level + (n + 1)) - 1 = level + n /\ level + n <= K
    BY <1>1
  <2>2. C[level + n] = G[level + n]
    BY <1>9, <2>1
  <2> QED BY <1>7, <2>1, <2>2
<1>10. \A n \in Nat : n \in T
  <2> HIDE DEF T
  <2> QED BY <1>8, <1>9, NumbersInductive
<1>11. C[K] = G[K]
  <2>1. K - level \in Nat /\ level + (K - level) = K
    BY <1>1
  <2>2. K - level \in T
    <3> HIDE DEF T
    <3> QED BY <1>10, <2>1
  <2> QED BY <1>1, <2>1, <2>2
<1>12. P[K] = i /\ P[level] = PathIndex(i, K, level)
  <2>1. K \in 0 .. K /\ level \in 0 .. K
    BY <1>1
  <2> QED BY <1>3, <2>1, PathFacts
<1>13. Descend(salt, K, level, seeds[level][PathIndex(i, K, level)], i) = seeds[K][i]
  BY <1>2, <1>7, <1>11, <1>12 DEF first
<1> QED BY <1>13 DEF seeds

(* The openings the protocol makes. *)
OpeningFor(root, salt, hide) == OpenAllButOne(Commit(root, salt, K), K, hide)

(* What an opening holds. *)
LEMMA OpeningHolds ==
  ASSUME NEW root, NEW salt, NEW hide \in Leaves
  PROVE  LET seeds == SeedLevels(root, salt, K)
             opening == OpeningFor(root, salt, hide)
         IN  /\ opening.hiddenCom = LeafCom(salt, hide, seeds[K][hide])
             /\ \A level \in 1 .. K :
                  opening.siblings[level] = seeds[level][SiblingIndex(PathIndex(hide, K, level))]
BY DEF OpeningFor, OpenAllButOne, Commit, Leaves

(* A verifier who was given the opening recomputes all leaves but the hidden
   one; whatever it was given, there is one leaf it does not recompute. *)
LEMMA LeavesRecomputed ==
  ASSUME NEW root, NEW salt, NEW hide \in Leaves
  PROVE  /\ \A i \in Leaves :
              RecomputedLeaves(salt, K, hide, OpeningFor(root, salt, hide))[i] =
                IF i = hide THEN NoSeed ELSE SeedLevels(root, salt, K)[K][i]
         /\ \A opening : RecomputedLeaves(salt, K, hide, opening)[hide] = NoSeed
<1> DEFINE seeds == SeedLevels(root, salt, K)
           opening == OpeningFor(root, salt, hide)
<1>1. ASSUME NEW i \in Leaves, NEW o
      PROVE  RecomputedLeaves(salt, K, hide, o)[i] =
               IF Covering(i, hide) = {} THEN NoSeed
               ELSE Descend(salt, K, Max(Covering(i, hide)),
                            o.siblings[Max(Covering(i, hide))], i)
  BY DEF RecomputedLeaves, Covering, Leaves
<1>2. ASSUME NEW i \in Leaves, i # hide
      PROVE  RecomputedLeaves(salt, K, hide, opening)[i] = seeds[K][i]
  <2> DEFINE level == Max(Covering(i, hide))
  <2>1. Covering(i, hide) # {} /\ level \in Covering(i, hide)
    BY <1>2, CoveringFacts
  <2> HIDE DEF level
  <2>2. level \in 1 .. K /\ PathIndex(i, K, level) = SiblingIndex(PathIndex(hide, K, level))
    BY <2>1 DEF Covering
  <2>3. opening.siblings[level] = seeds[level][PathIndex(i, K, level)]
    BY <2>2, OpeningHolds
  <2>4. Descend(salt, K, level, seeds[level][PathIndex(i, K, level)], i) = seeds[K][i]
    BY <2>2, DescendFollowsTree
  <2> HIDE DEF opening, seeds
  <2>5. RecomputedLeaves(salt, K, hide, opening)[i] =
          Descend(salt, K, level, opening.siblings[level], i)
    BY <1>1, <2>1 DEF level
  <2> QED BY <2>3, <2>4, <2>5
<1>3. \A o : RecomputedLeaves(salt, K, hide, o)[hide] = NoSeed
  BY <1>1, CoveringFacts
<1> QED BY <1>2, <1>3

(* The seeds of leaves are seeds. *)
LEMMA LeafSeeds ==
  ASSUME NEW root, NEW salt, NEW i \in Leaves
  PROVE  SeedLevels(root, salt, K)[K][i] # NoSeed
<1>1. K \in Nat /\ K \in 1 .. K /\ i \in NodesAt(K)
  BY ParamsAssumption DEF Leaves
<1> DEFINE seeds == SeedLevels(root, salt, K)
<1>2. seeds[K][i] = <<"expand", salt, K - 1, i \div 2, seeds[K - 1][i \div 2], (i % 2)>>
  BY <1>1, SeedsExpanded
<1> HIDE DEF seeds
<1>3. \A u, v, w, x, y, z : <<u, v, w, x, y, z>> # <<>>
  OBVIOUS
<1>4. seeds[K][i] # NoSeed
  BY <1>2, <1>3 DEF NoSeed
<1> QED BY <1>4 DEF seeds

(* An opening verifies under the challenge it was made for and no other. *)
LEMMA OpeningVerifies ==
  ASSUME NEW root, NEW salt, NEW hide \in Leaves, NEW asked \in Leaves
  PROVE  Verifies(Commit(root, salt, K).com, salt, K, asked, OpeningFor(root, salt, hide))
           <=> asked = hide
<1> DEFINE seeds == SeedLevels(root, salt, K)
           opening == OpeningFor(root, salt, hide)
           leaves == RecomputedLeaves(salt, K, asked, opening)
           own == [i \in NodesAt(K) |-> LeafCom(salt, i, seeds[K][i])]
           coms == [i \in NodesAt(K) |-> IF leaves[i] = NoSeed THEN opening.hiddenCom
                                        ELSE LeafCom(salt, i, leaves[i])]
<1>1. Commit(root, salt, K).com = RootHash(salt, K, own)
  BY DEF Commit
<1>2. Verifies(Commit(root, salt, K).com, salt, K, asked, opening) <=> coms = own
  BY <1>1 DEF Verifies, RootHash
<1>3. opening.hiddenCom = LeafCom(salt, hide, seeds[K][hide])
  BY OpeningHolds
<1>4. Leaves = NodesAt(K)
  BY DEF Leaves
<1>5. ASSUME asked = hide
      PROVE  coms = own
  <2>1. \A i \in Leaves : leaves[i] = IF i = hide THEN NoSeed ELSE seeds[K][i]
    BY <1>5, LeavesRecomputed
  <2>2. \A i \in Leaves : seeds[K][i] # NoSeed
    BY LeafSeeds
  <2> HIDE DEF leaves, seeds, opening
  <2>3. \A i \in NodesAt(K) : coms[i] = own[i]
    BY <1>3, <1>4, <2>1, <2>2
  <2> QED BY <2>3
<1>6. ASSUME asked # hide
      PROVE  coms # own
  <2>1. leaves[asked] = NoSeed
    BY LeavesRecomputed
  <2> HIDE DEF leaves, seeds, opening
  <2>2. /\ coms[asked] = LeafCom(salt, hide, seeds[K][hide])
        /\ own[asked] = LeafCom(salt, asked, seeds[K][asked])
    BY <1>3, <1>4, <2>1
  <2>3. \A u, v : LeafCom(salt, hide, u) # LeafCom(salt, asked, v)
    BY <1>6 DEF LeafCom
  <2> HIDE DEF coms, own
  <2> QED BY <2>2, <2>3
<1> QED BY <1>2, <1>5, <1>6

(* No seed of the path to the hidden leaf is among the revealed ones. *)
LEMMA PathNotRevealed ==
  ASSUME NEW salt, NEW hide \in Leaves, NEW level \in 0 .. K, NEW shown \in 1 .. K
  PROVE  SeedLevels(RootSeed, salt, K)[level][PathIndex(hide, K, level)]
           # OpeningFor(RootSeed, salt, hide).siblings[shown]
<1> DEFINE seeds == SeedLevels(RootSeed, salt, K)
           P == PathIndex(hide, K, level)
           S == SiblingIndex(PathIndex(hide, K, shown))
<1>1. OpeningFor(RootSeed, salt, hide).siblings[shown] = seeds[shown][S]
  BY OpeningHolds
<1>2. /\ K \in Nat /\ shown \in Nat /\ shown # 0 /\ shown \in 0 .. K
      /\ P \in NodesAt(level) /\ PathIndex(hide, K, shown) \in NodesAt(shown)
  BY ParamsAssumption, PathFacts
<1>3. S \in NodesAt(shown) /\ (S % 2) # (PathIndex(hide, K, shown) % 2)
  BY <1>2, SiblingOnLevel, SiblingFacts
<1>4. seeds[shown][S] =
        <<"expand", salt, shown - 1, S \div 2, seeds[shown - 1][S \div 2], (S % 2)>>
  BY <1>2, <1>3, SeedsExpanded
<1>5. CASE level = 0
  <2>1. seeds[level][P] = RootSeed
    <3>1. P = 0
      BY <1>5, PathFacts
    <3> QED BY <1>2, <1>5, <3>1, SeedsExpanded
  <2> HIDE DEF seeds, S, P
  <2>2. \A v, w, x, y, z : <<"root-seed">> # <<"expand", v, w, x, y, z>>
    OBVIOUS
  <2>3. seeds[level][P] # seeds[shown][S]
    BY <1>4, <2>1, <2>2 DEF RootSeed
  <2> QED BY <1>1, <2>3 DEF seeds, P
<1>6. CASE level # 0
  <2>1. level \in 1 .. K
    BY <1>2, <1>6
  <2>2. seeds[level][P] =
          <<"expand", salt, level - 1, P \div 2, seeds[level - 1][P \div 2], (P % 2)>>
    BY <1>2, <2>1, SeedsExpanded
  <2>3. level = shown => (P % 2) # (S % 2)
    BY <1>3
  <2> HIDE DEF seeds, S, P
  <2>4. level # shown => level - 1 # shown - 1
    BY <1>2, <2>1
  <2>5. \A m, n, x, y, v, w, b, c :
          <<"expand", salt, m, x, v, b>> = <<"expand", salt, n, y, w, c>> => m = n /\ b = c
    OBVIOUS
  <2>6. seeds[level][P] # seeds[shown][S]
    BY <1>4, <2>2, <2>3, <2>4, <2>5
  <2> QED BY <1>1, <2>6 DEF seeds, P
<1> QED BY <1>5, <1>6
-----------------------------------------------------------------------------
(***************************************************************************)
(* Indices and challenges.                                                 *)
(***************************************************************************)

(* Adding a multiple of 2^k changes no bit below k. *)
LEMMA LowBits ==
  ASSUME NEW k \in Nat, NEW x \in Nat, NEW q \in Nat, NEW b \in 0 .. k - 1
  PROVE  Bit(2^k * q + x, b) = Bit(x, b) /\ 2^k * q + x \in Nat
<1> DEFINE p == 2^b
           r == 2^(k - (b + 1))
           y == x \div p
<1>1. b \in Nat /\ k - (b + 1) \in Nat /\ (b + 1) + (k - (b + 1)) = k /\ b + 1 \in Nat
  OBVIOUS
<1>2. p \in Nat \ {0} /\ r \in Nat /\ 2^(b + 1) = 2 * p /\ 2^k = (2 * p) * r
  <2>1. p \in Nat \ {0} /\ r \in Nat /\ 2^(b + 1) = 2 * p
    BY <1>1, PowersDouble
  <2>2. 2^((b + 1) + (k - (b + 1))) = 2^(b + 1) * r
    BY <1>1, PowersAdd
  <2> QED BY <1>1, <2>1, <2>2
<1>3. y \in Nat /\ (x % p) \in 0 .. p - 1 /\ x = p * y + (x % p)
  <2>1. p \in Nat \ {0}
    BY <1>2
  <2> HIDE DEF p
  <2> QED BY <2>1, Division
<1> HIDE DEF p, r, y
<1>4. r * q \in Nat /\ ((2 * p) * r) * q = p * (2 * (r * q))
  BY <1>2
<1> DEFINE m == r * q
<1>5. m \in Nat /\ 2^k * q = p * (2 * m)
  BY <1>2, <1>4
<1> HIDE DEF m
<1>6. 2^k * q + x = p * (2 * m + y) + (x % p) /\ 2 * m + y \in Nat /\ 2^k * q + x \in Nat
  <2>1. p * (2 * m + y) = p * (2 * m) + p * y /\ 2 * m + y \in Nat /\ p * (2 * m) \in Nat
    BY <1>2, <1>3, <1>5
  <2> QED BY <1>2, <1>3, <1>5, <2>1
<1>7. (2^k * q + x) \div p = 2 * m + y
  BY <1>2, <1>3, <1>6, DivisionUnique
<1>8. ((2 * m + y) % 2) = (y % 2)
  BY <1>3, <1>5
<1> QED BY <1>6, <1>7, <1>8 DEF Bit, p, y

(* The digit above 2^k. *)
LEMMA HighBit ==
  ASSUME NEW k \in Nat, NEW x \in 0 .. 2^k - 1, NEW c \in {0, 1}
  PROVE  Bit(2^k * c + x, k) = c /\ 2^k * c + x \in 0 .. 2^(k + 1) - 1
<1>1. 2^k \in Nat \ {0} /\ 2^(k + 1) = 2 * 2^k
  BY PowersDouble
<1> DEFINE p == 2^k
<1> HIDE DEF p
<1>2. p \in Nat \ {0} /\ x \in 0 .. p - 1 /\ p * c + x \in 0 .. 2 * p - 1 /\ p * c + x \in Nat
  <2>1. p * 0 = 0 /\ p * 1 = p
    BY <1>1 DEF p
  <2> QED BY <1>1, <2>1 DEF p
<1>3. (p * c + x) \div p = c
  BY <1>2, DivisionUnique
<1>4. (c % 2) = c
  OBVIOUS
<1> QED BY <1>1, <1>2, <1>3, <1>4 DEF Bit, p

IsNumber(X, m, g) ==
  /\ g = [l \in 0 .. m |-> g[l]]
  /\ \A l \in 0 .. m : g[l] = IF l = 0 THEN 0 ELSE g[l - 1] + 2^(l - 1) * X[l - 1]

(* A number can be put together from its bits. *)
LEMMA NumbersExist ==
  ASSUME NEW X, NEW m \in Nat
  PROVE  \E g : IsNumber(X, m, g)
<1> DEFINE T == {n \in Nat : \E g : IsNumber(X, n, g)}
<1>1. 0 \in T
  <2> DEFINE h == [l \in 0 .. 0 |-> 0]
  <2>1. h = [l \in 0 .. 0 |-> h[l]] /\ \A l \in 0 .. 0 : h[l] = 0 /\ l = 0
    OBVIOUS
  <2> HIDE DEF h
  <2>2. IsNumber(X, 0, h)
    BY <2>1 DEF IsNumber
  <2> QED BY <2>2
<1>2. ASSUME NEW n \in Nat, n \in T
      PROVE  n + 1 \in T
  <2>1. PICK g : IsNumber(X, n, g)
    BY <1>2
  <2> DEFINE h == [l \in 0 .. n + 1 |-> IF l = n + 1 THEN g[n] + 2^n * X[n] ELSE g[l]]
  <2>2. /\ h = [l \in 0 .. n + 1 |-> h[l]]
        /\ h[n + 1] = g[n] + 2^n * X[n]
        /\ \A l \in 0 .. n : h[l] = g[l]
    OBVIOUS
  <2> HIDE DEF h
  <2>3. ASSUME NEW l \in 0 .. n + 1
        PROVE  h[l] = IF l = 0 THEN 0 ELSE h[l - 1] + 2^(l - 1) * X[l - 1]
    <3>1. CASE l = n + 1
      <4>1. l - 1 = n /\ n \in 0 .. n /\ l # 0
        BY <3>1
      <4>2. h[l - 1] = g[n]
        BY <2>2, <4>1
      <4> QED BY <2>2, <3>1, <4>1, <4>2
    <3>2. CASE l # n + 1 /\ l = 0
      <4>1. 0 \in 0 .. n
        OBVIOUS
      <4>2. h[0] = g[0] /\ g[0] = 0
        BY <2>1, <2>2, <4>1 DEF IsNumber
      <4> QED BY <3>2, <4>2
    <3>3. CASE l # n + 1 /\ l # 0
      <4>1. l \in 0 .. n /\ l - 1 \in 0 .. n
        BY <3>3
      <4>2. h[l] = g[l] /\ h[l - 1] = g[l - 1]
        BY <2>2, <4>1
      <4>3. g[l] = g[l - 1] + 2^(l - 1) * X[l - 1]
        BY <2>1, <3>3, <4>1 DEF IsNumber
      <4> QED BY ONLY <3>3, <4>2, <4>3
    <3> QED BY <3>1, <3>2, <3>3
  <2>4. IsNumber(X, n + 1, h)
    BY <2>2, <2>3 DEF IsNumber
  <2> QED BY <2>4
<1>3. \A n \in Nat : n \in T
  <2> HIDE DEF T
  <2> QED BY <1>1, <1>2, NumbersInductive
<1> QED BY <1>3

(* The number with the given bits has them. *)
LEMMA NumberHasBits ==
  ASSUME NEW m \in Nat, NEW X, \A l \in Nat : X[l] \in {0, 1}, NEW g, IsNumber(X, m, g)
  PROVE  g[m] \in 0 .. 2^m - 1 /\ \A i \in 0 .. m - 1 : Bit(g[m], i) = X[i]
<1> DEFINE Good(l) == g[l] \in 0 .. 2^l - 1 /\ \A i \in 0 .. l - 1 : Bit(g[l], i) = X[i]
           T == {l \in Nat : l <= m => Good(l)}
<1>1. \A l \in 0 .. m : g[l] = IF l = 0 THEN 0 ELSE g[l - 1] + 2^(l - 1) * X[l - 1]
  BY DEF IsNumber
<1>2. 0 \in T
  <2>1. 0 \in 0 .. m
    OBVIOUS
  <2>2. g[0] = 0 /\ 2^0 = 1
    BY <1>1, <2>1, PowersDouble
  <2>3. Good(0)
    BY <2>2
  <2> QED BY <2>3
<1>3. ASSUME NEW l \in Nat, l \in T
      PROVE  l + 1 \in T
  <2> SUFFICES ASSUME l + 1 <= m
               PROVE  Good(l + 1)
    OBVIOUS
  <2>1. l + 1 \in 0 .. m /\ l + 1 # 0 /\ (l + 1) - 1 = l /\ l <= m
    OBVIOUS
  <2>2. g[l] \in 0 .. 2^l - 1 /\ \A i \in 0 .. l - 1 : Bit(g[l], i) = X[i]
    BY <1>3, <2>1
  <2>3. 2^l \in Nat \ {0} /\ X[l] \in {0, 1} /\ X[l] \in Nat /\ g[l] \in Nat
    BY <2>2, PowersDouble
  <2>4. g[l + 1] = 2^l * X[l] + g[l]
    <3>1. g[l + 1] = g[l] + 2^l * X[l]
      BY <1>1, <2>1
    <3>2. 2^l * X[l] \in Nat
      BY <2>3
    <3> QED BY <2>3, <3>1, <3>2
  <2>5. Bit(g[l + 1], l) = X[l] /\ g[l + 1] \in 0 .. 2^(l + 1) - 1
    <3>1. \A k \in Nat : \A x \in 0 .. 2^k - 1 : \A c \in {0, 1} :
            Bit(2^k * c + x, k) = c /\ 2^k * c + x \in 0 .. 2^(k + 1) - 1
      BY HighBit
    <3>2. Bit(2^l * X[l] + g[l], l) = X[l] /\ 2^l * X[l] + g[l] \in 0 .. 2^(l + 1) - 1
      BY ONLY <2>2, <2>3, <3>1, l \in Nat
    <3> QED BY ONLY <2>4, <3>2
  <2>6. ASSUME NEW i \in 0 .. (l + 1) - 1
        PROVE  Bit(g[l + 1], i) = X[i]
    <3>1. CASE i = l
      BY <2>5, <3>1
    <3>2. CASE i # l
      <4>1. i \in 0 .. l - 1
        BY <3>2
      <4>2. Bit(2^l * X[l] + g[l], i) = Bit(g[l], i)
        BY <2>3, <4>1, LowBits
      <4> QED BY <2>2, <2>4, <4>1, <4>2
    <3> QED BY <3>1, <3>2
  <2> QED BY <2>5, <2>6
<1>4. \A l \in Nat : l \in T
  <2> HIDE DEF T
  <2> QED BY <1>2, <1>3, NumbersInductive
<1> QED BY <1>4

(* The bits of i ^ d. *)
LEMMA XorIndexBits ==
  ASSUME NEW a \in Nat, NEW b \in Nat
  PROVE  /\ XorIndex(a, b) \in Leaves
         /\ \A i \in 0 .. K - 1 : Bit(XorIndex(a, b), i) = (Bit(a, i) + Bit(b, i)) % 2
<1> DEFINE X == [l \in Nat |-> (Bit(a, l) + Bit(b, l)) % 2]
           Is(g) == g = [l \in 0 .. K |->
                           IF l = 0 THEN 0
                           ELSE g[l - 1] + 2^(l - 1) * ((Bit(a, l - 1) + Bit(b, l - 1)) % 2)]
           low == CHOOSE g : Is(g)
<1>1. K \in Nat
  BY ParamsAssumption
<1>2. XorIndex(a, b) = low[K]
  BY DEF XorIndex
<1>3. \A l \in Nat : X[l] = (Bit(a, l) + Bit(b, l)) % 2
  OBVIOUS
<1>4. \A l \in Nat : X[l] \in {0, 1}
  <2>1. \A l \in Nat : Bit(a, l) \in {0, 1} /\ Bit(b, l) \in {0, 1}
    BY BitStep
  <2>2. \A x, y \in {0, 1} : ((x + y) % 2) \in {0, 1}
    OBVIOUS
  <2> QED BY <1>3, <2>1, <2>2
<1> HIDE DEF X
<1>5. ASSUME NEW g
      PROVE  IsNumber(X, K, g) <=> Is(g)
  <2>1. \A l \in 0 .. K : l # 0 =>
          X[l - 1] = (Bit(a, l - 1) + Bit(b, l - 1)) % 2
    BY <1>1, <1>3
  <2> QED BY <2>1 DEF IsNumber
<1>6. Is(low)
  <2>1. \E g : IsNumber(X, K, g)
    BY <1>1, NumbersExist
  <2>2. \E g : Is(g)
    BY <1>5, <2>1
  <2> HIDE DEF Is
  <2> QED BY <2>2
<1>7. IsNumber(X, K, low)
  <2> HIDE DEF low, Is
  <2> QED BY <1>5, <1>6
<1> HIDE DEF low, Is
<1>8. low[K] \in 0 .. 2^K - 1 /\ \A i \in 0 .. K - 1 : Bit(low[K], i) = X[i]
  BY <1>1, <1>4, <1>7, NumberHasBits
<1>9. \A i \in 0 .. K - 1 : i \in Nat
  BY <1>1
<1> QED BY <1>2, <1>3, <1>8, <1>9 DEF Leaves, NodesAt

(* Leaves are numbers below 2^K, told apart by their K bits. *)
LEMMA LeavesByBits ==
  ASSUME NEW a \in Leaves, NEW b \in Leaves, \A i \in 0 .. K - 1 : Bit(a, i) = Bit(b, i)
  PROVE  a = b
<1>1. K \in Nat /\ 2^K \in Nat
  BY ParamsAssumption, PowersDouble
<1>2. a \in 0 .. 2^K - 1 /\ b \in 0 .. 2^K - 1 /\ a \in Nat /\ b \in Nat
  BY <1>1 DEF Leaves, NodesAt
<1>3. a \div 2^K = 0 /\ b \div 2^K = 0
  BY <1>1, <1>2, SmallHasNoBit
<1> QED BY <1>1, <1>2, <1>3, BitsDetermine

(* Leaf 0 is without bits. *)
LEMMA ZeroLeaf ==
  0 \in Leaves /\ \A i \in 0 .. K - 1 : Bit(0, i) = 0
<1>1. K \in Nat /\ 2^K \in Nat \ {0}
  BY ParamsAssumption, PowersDouble
<1>2. 0 \in Leaves
  BY <1>1 DEF Leaves, NodesAt
<1>3. ASSUME NEW i \in 0 .. K - 1
      PROVE  Bit(0, i) = 0
  <2>1. i \in Nat /\ 2^i \in Nat \ {0}
    BY <1>1, PowersDouble
  <2>2. 0 \in 0 .. 2^i - 1
    BY <2>1
  <2> QED BY <2>1, <2>2, SmallHasNoBit
<1> QED BY <1>2, <1>3

(* Visiting the leaves in the order e ^ d visits each of them once, and d
   first. *)
LEMMA XorIndexFacts ==
  ASSUME NEW d \in Leaves
  PROVE  /\ \A e \in Leaves : XorIndex(e, d) \in Leaves
         /\ \A e \in Leaves : XorIndex(XorIndex(e, d), d) = e
         /\ \A e \in Leaves : XorIndex(e, d) = d <=> e = 0
         /\ \A e \in Leaves, i \in 0 .. K - 1 :
              /\ Bit(e, i) \in {0, 1} /\ Bit(d, i) \in {0, 1}
              /\ Bit(XorIndex(e, d), i) = (Bit(e, i) + Bit(d, i)) % 2
<1>1. K \in Nat /\ \A e \in Leaves : e \in Nat
  BY ParamsAssumption DEF Leaves, NodesAt
<1>2. ASSUME NEW e \in Leaves
      PROVE  /\ XorIndex(e, d) \in Leaves
             /\ \A i \in 0 .. K - 1 : Bit(XorIndex(e, d), i) = (Bit(e, i) + Bit(d, i)) % 2
  BY <1>1, XorIndexBits
<1>3. \A e \in Leaves, i \in 0 .. K - 1 : Bit(e, i) \in {0, 1}
  <2>1. \A i \in 0 .. K - 1 : i \in Nat
    BY <1>1
  <2> QED BY <1>1, <2>1, BitStep
<1>4. ASSUME NEW e \in Leaves
      PROVE  XorIndex(XorIndex(e, d), d) = e
  <2> DEFINE x == XorIndex(e, d)
             y == XorIndex(x, d)
  <2>1. /\ x \in Leaves /\ y \in Leaves
        /\ \A i \in 0 .. K - 1 : Bit(x, i) = (Bit(e, i) + Bit(d, i)) % 2
        /\ \A i \in 0 .. K - 1 : Bit(y, i) = (Bit(x, i) + Bit(d, i)) % 2
    <3>1. x \in Leaves /\ \A i \in 0 .. K - 1 : Bit(x, i) = (Bit(e, i) + Bit(d, i)) % 2
      BY <1>2
    <3> HIDE DEF x
    <3>2. y \in Leaves /\ \A i \in 0 .. K - 1 : Bit(y, i) = (Bit(x, i) + Bit(d, i)) % 2
      BY <1>2, <3>1
    <3> QED BY <3>1, <3>2
  <2> HIDE DEF x, y
  <2>2. \A u, v \in {0, 1} : ((((u + v) % 2) + v) % 2) = u
    OBVIOUS
  <2>3. \A i \in 0 .. K - 1 : Bit(y, i) = Bit(e, i)
    <3> SUFFICES ASSUME NEW i \in 0 .. K - 1
                 PROVE  Bit(y, i) = Bit(e, i)
      OBVIOUS
    <3>1. Bit(e, i) \in {0, 1} /\ Bit(d, i) \in {0, 1}
      BY <1>3
    <3>2. Bit(y, i) = ((((Bit(e, i) + Bit(d, i)) % 2) + Bit(d, i)) % 2)
      BY <2>1
    <3> QED BY ONLY <2>2, <3>1, <3>2
  <2>4. y = e
    BY <2>1, <2>3, LeavesByBits
  <2> QED BY <2>4 DEF x, y
<1>5. 0 \in Leaves /\ XorIndex(0, d) = d
  <2>1. 0 \in Leaves /\ \A i \in 0 .. K - 1 : Bit(0, i) = 0
    BY ZeroLeaf
  <2>2. \A u \in {0, 1} : ((0 + u) % 2) = u
    OBVIOUS
  <2> DEFINE x == XorIndex(0, d)
  <2>3. x \in Leaves /\ \A i \in 0 .. K - 1 : Bit(x, i) = (Bit(0, i) + Bit(d, i)) % 2
    BY <1>2, <2>1
  <2> HIDE DEF x
  <2>4. \A i \in 0 .. K - 1 : Bit(x, i) = Bit(d, i)
    <3> SUFFICES ASSUME NEW i \in 0 .. K - 1
                 PROVE  Bit(x, i) = Bit(d, i)
      OBVIOUS
    <3>1. Bit(d, i) \in {0, 1} /\ Bit(x, i) = ((0 + Bit(d, i)) % 2)
      BY <1>3, <2>1, <2>3
    <3> QED BY ONLY <2>2, <3>1
  <2>5. x = d
    BY <2>3, <2>4, LeavesByBits
  <2> QED BY <2>1, <2>5 DEF x
<1>6. ASSUME NEW e \in Leaves
      PROVE  XorIndex(e, d) = d <=> e = 0
  <2>1. ASSUME XorIndex(e, d) = d
        PROVE  e = 0
    <3>1. e = XorIndex(d, d)
      BY <1>4, <2>1
    <3>2. XorIndex(XorIndex(0, d), d) = 0
      BY <1>4, <1>5
    <3> QED BY <1>5, <3>1, <3>2
  <2> QED BY <1>5, <2>1
<1> QED BY <1>2, <1>3, <1>4, <1>6

(* A key plane: the tag plane, with the sum of all leaves where the index of
   the hidden leaf has a bit. *)
LEMMA KeyPlane ==
  ASSUME NEW R, NEW d \in Leaves, NEW g,
         \A e \in Leaves : e # 0 => g[e] = R[XorIndex(e, d)],
         NEW b \in 0 .. K - 1
  PROVE  LET plane == XorSum({i \in Leaves : Bit(i, b) = 1}, R)
         IN  XorSum({e \in Leaves : Bit(e, b) = 1}, g) =
               IF Bit(d, b) = 1 THEN SymDiff(plane, XorSum(Leaves, R)) ELSE plane
<1> DEFINE S == {e \in Leaves : Bit(e, b) = 1}
           Z == {i \in Leaves : Bit(i, b) = 0}
           T == {i \in Leaves : Bit(i, b) # Bit(d, b)}
           p == [e \in S |-> XorIndex(e, d)]
<1>1. /\ \A e \in Leaves : XorIndex(e, d) \in Leaves
      /\ \A e \in Leaves : XorIndex(XorIndex(e, d), d) = e
      /\ Bit(d, b) \in {0, 1}
      /\ \A e \in Leaves : /\ Bit(e, b) \in {0, 1}
                           /\ Bit(XorIndex(e, d), b) = (Bit(e, b) + Bit(d, b)) % 2
  BY XorIndexFacts
<1>2. \A u, v \in {0, 1} : /\ u # v <=> ((u + v) % 2) = 1
                           /\ u = 1 => ((u + v) % 2) # v
  OBVIOUS
<1>3. p \in Bijection(S, T)
  <2>1. ASSUME NEW e \in S
        PROVE  p[e] \in T /\ p[e] = XorIndex(e, d)
    <3>1. e \in Leaves /\ Bit(e, b) = 1 /\ p[e] = XorIndex(e, d)
      OBVIOUS
    <3>2. Bit(XorIndex(e, d), b) # Bit(d, b)
      BY ONLY <1>1, <1>2, <3>1
    <3> QED BY <1>1, <3>1, <3>2
  <2>2. p \in [S -> T]
    <3> HIDE DEF S, T
    <3> QED BY <2>1
  <2>3. \A e, k \in S : p[e] = p[k] => e = k
    BY <1>1, <2>1
  <2>4. \A i \in T : \E e \in S : p[e] = i
    <3> SUFFICES ASSUME NEW i \in T
                 PROVE  \E e \in S : p[e] = i
      OBVIOUS
    <3>1. i \in Leaves /\ Bit(i, b) # Bit(d, b)
      OBVIOUS
    <3> DEFINE e == XorIndex(i, d)
    <3>2. e \in Leaves /\ Bit(e, b) = ((Bit(i, b) + Bit(d, b)) % 2) /\ XorIndex(e, d) = i
      BY <1>1, <3>1
    <3>3. ((Bit(i, b) + Bit(d, b)) % 2) = 1
      BY ONLY <1>1, <1>2, <3>1
    <3> HIDE DEF e
    <3>4. e \in S
      BY <3>2, <3>3
    <3>5. p[e] = i
      BY <2>1, <3>2, <3>4
    <3> QED BY <3>4, <3>5
  <2> HIDE DEF S, T, p
  <2> QED BY <2>2, <2>3, <2>4 DEF Bijection, Injection, Surjection, IsInjective
<1>4. \A e \in S : g[e] = R[p[e]]
  <2> SUFFICES ASSUME NEW e \in S
               PROVE  g[e] = R[p[e]]
    OBVIOUS
  <2>1. e # 0
    BY ZeroLeaf
  <2> QED BY <2>1
<1>5. IsFiniteSet(Leaves) /\ IsFiniteSet(S) /\ IsFiniteSet(Z)
  <2>1. 2^K \in Nat /\ 0 \in Int
    BY ParamsAssumption, PowersDouble
  <2>2. IsFiniteSet(Leaves)
    <3>1. 2^K - 1 \in Int
      BY <2>1
    <3> QED BY <2>1, <3>1, FS_Interval DEF Leaves, NodesAt
  <2>3. S \in SUBSET Leaves /\ Z \in SUBSET Leaves
    OBVIOUS
  <2> HIDE DEF S, Z
  <2> QED BY <2>2, <2>3, FS_Subset
<1>6. S \cap Z = {} /\ S \cup Z = Leaves
  BY <1>1
<1>7. Bit(d, b) = 0 => T = S
  BY <1>1
<1>8. Bit(d, b) = 1 => T = Z
  BY <1>1
<1> HIDE DEF S, T, Z, p
<1>9. XorSum(S, g) = XorSum(T, R)
  BY <1>3, <1>4, <1>5, XorSumReindexed
<1>10. XorSum(Leaves, R) = SymDiff(XorSum(S, R), XorSum(Z, R))
  BY <1>5, <1>6, XorSumSplit
<1>11. \A u, v : v = SymDiff(u, SymDiff(u, v))
  BY DEF SymDiff
<1>12. XorSum(S, g) =
         IF Bit(d, b) = 1 THEN SymDiff(XorSum(S, R), XorSum(Leaves, R)) ELSE XorSum(S, R)
  <2>1. CASE Bit(d, b) = 1
    <3>1. XorSum(S, g) = XorSum(Z, R)
      BY <1>8, <1>9, <2>1
    <3> QED BY <1>10, <1>11, <2>1, <3>1
  <2>2. CASE Bit(d, b) = 0
    BY <1>7, <1>9, <2>2
  <2> QED BY <1>1, <2>1, <2>2
<1> QED BY <1>12 DEF S

Challenges == 0 .. 2^Lambda - 1

(* The number of positions and of challenges. *)
LEMMA Sizes ==
  /\ Tau \in Nat \ {0} /\ K \in Nat \ {0} /\ Lambda \in Nat /\ 2^Lambda \in Nat \ {0}
  /\ 2^K \in Nat \ {0} /\ Challenges \subseteq Nat /\ 0 \in Challenges /\ 0 \in Trees
  /\ \A j \in Trees : j \in Nat /\ j * K \in Nat
<1>1. Tau \in Nat \ {0} /\ K \in Nat \ {0} /\ Lambda \in Nat
  BY ParamsAssumption DEF Lambda
<1>2. 2^Lambda \in Nat \ {0} /\ 2^K \in Nat \ {0}
  BY <1>1, PowersDouble
<1>3. \A j \in Trees : j \in Nat /\ j * K \in Nat
  BY <1>1 DEF Trees
<1> QED BY <1>1, <1>2, <1>3 DEF Challenges, Trees

(* A position is a bit of a tree. *)
LEMMA PositionFacts ==
  ASSUME NEW pos \in 0 .. Lambda - 1
  PROVE  /\ pos \in Nat /\ pos \div K \in Trees /\ (pos % K) \in 0 .. K - 1
         /\ (pos \div K) * K + (pos % K) = pos
<1> DEFINE j == pos \div K
           b == pos % K
<1>1. pos \in Nat /\ pos < Tau * K /\ K \in Nat \ {0} /\ Tau \in Nat
  BY Sizes DEF Lambda
<1>2. j \in Nat /\ b \in 0 .. K - 1 /\ pos = K * j + b
  BY <1>1, Division
<1> HIDE DEF j, b
<1>3. j < Tau
  <2>1. CASE j >= Tau
    <3>1. PICK x \in Nat : j = Tau + x
      <4>1. j - Tau \in Nat /\ j = Tau + (j - Tau)
        BY <1>1, <1>2, <2>1
      <4> QED BY <4>1
    <3>2. K * j = Tau * K + K * x /\ K * x \in Nat /\ Tau * K \in Nat
      BY <1>1, <3>1
    <3> QED BY <1>1, <1>2, <3>2
  <2> QED BY <1>1, <1>2, <2>1
<1>4. j * K + b = pos /\ j \in Trees
  <2>1. j * K = K * j
    BY <1>1, <1>2
  <2> QED BY <1>1, <1>2, <1>3, <2>1 DEF Trees
<1> QED BY <1>1, <1>2, <1>4 DEF j, b

(* Shifting right moves the bits. *)
LEMMA ShiftedBits ==
  ASSUME NEW c \in Nat, NEW m \in Nat, NEW b \in Nat
  PROVE  c \div 2^m \in Nat /\ Bit(c \div 2^m, b) = Bit(c, m + b)
<1>1. 2^m \in Nat \ {0} /\ 2^b \in Nat \ {0} /\ 2^(m + b) = 2^m * 2^b
  BY PowersDouble, PowersAdd
<1>3. (c \div 2^m) \div 2^b = c \div 2^(m + b)
  <2> DEFINE p == 2^m
             q == 2^b
  <2>1. p \in Nat \ {0} /\ q \in Nat \ {0} /\ 2^(m + b) = p * q
    BY <1>1
  <2> HIDE DEF p, q
  <2>2. (c \div p) \div q = c \div (p * q)
    BY <2>1, DivisionTwice
  <2> QED BY <2>1, <2>2 DEF p, q
<1>4. c \div 2^m \in Nat
  BY <1>1, Division
<1> QED BY <1>3, <1>4 DEF Bit

(* A chunk of a challenge indexes a leaf, and holds the bits of its tree. *)
LEMMA ChunkFacts ==
  ASSUME NEW c \in Challenges, NEW j \in Trees
  PROVE  /\ Chunk(c, j) \in Leaves
         /\ \A b \in 0 .. K - 1 : Bit(Chunk(c, j), b) = Bit(c, j * K + b)
<1> DEFINE y == c \div 2^(j * K)
           q == y \div 2^K
           r == y % 2^K
           p == 2^K
<1>1. c \in Nat /\ j * K \in Nat /\ K \in Nat /\ p \in Nat \ {0}
  BY Sizes
<1>2. y \in Nat /\ \A b \in Nat : Bit(y, b) = Bit(c, j * K + b)
  BY <1>1, ShiftedBits
<1> HIDE DEF y
<1>3. q \in Nat /\ r \in 0 .. p - 1 /\ y = p * q + r
  BY <1>1, <1>2, Division
<1> HIDE DEF q, r
<1>4. r \in Nat /\ r \in Leaves
  BY <1>1, <1>3 DEF Leaves, NodesAt
<1>5. ASSUME NEW b \in 0 .. K - 1
      PROVE  Bit(r, b) = Bit(c, j * K + b)
  <2>1. b \in Nat
    BY <1>1
  <2>2. Bit(2^K * q + r, b) = Bit(r, b)
    BY <1>1, <1>3, <1>4, LowBits
  <2> QED BY <1>2, <1>3, <2>1, <2>2
<1>6. Chunk(c, j) = r
  BY DEF Chunk, r, y
<1> QED BY <1>4, <1>5, <1>6

(* A bit of a challenge is the bit of the chunk of its tree. *)
LEMMA ChallengeBit ==
  ASSUME NEW c \in Challenges, NEW pos \in 0 .. Lambda - 1
  PROVE  Bit(c, pos) = Bit(Chunk(c, pos \div K), pos % K)
<1> DEFINE j == pos \div K
           b == pos % K
<1>1. j \in Trees /\ b \in 0 .. K - 1 /\ j * K + b = pos
  BY PositionFacts
<1> HIDE DEF j, b
<1>2. Bit(Chunk(c, j), b) = Bit(c, j * K + b)
  BY <1>1, ChunkFacts
<1> QED BY <1>1, <1>2 DEF j, b

(* Challenges with the same chunks are the same. *)
LEMMA ChunksDetermine ==
  ASSUME NEW c \in Challenges, NEW d \in Challenges,
         \A j \in Trees : Chunk(c, j) = Chunk(d, j)
  PROVE  c = d
<1>1. c \in Nat /\ d \in Nat /\ Lambda \in Nat
  BY Sizes
<1>2. ASSUME NEW pos \in 0 .. Lambda - 1
      PROVE  Bit(c, pos) = Bit(d, pos)
  <2>1. pos \div K \in Trees
    BY PositionFacts
  <2>2. Chunk(c, pos \div K) = Chunk(d, pos \div K)
    BY <2>1
  <2> QED BY <2>2, ChallengeBit
<1>3. c \div 2^Lambda = 0 /\ d \div 2^Lambda = 0
  BY <1>1, SmallHasNoBit DEF Challenges
<1> QED BY <1>1, <1>2, <1>3, BitsDetermine
-----------------------------------------------------------------------------
(***************************************************************************)
(* The inductive invariant.                                                *)
(***************************************************************************)

(* The vectors the prover sums over, those the verifier does when tree j hides
   leaf d, and their sums. *)
ProverVectors(j) == [i \in Leaves |-> LeafVector(j, i)]

VerifierVectors(j, d) ==
  [e \in Leaves |-> IF e = 0 THEN {} ELSE LeafVector(j, XorIndex(e, d))]

Plane(j, b) == XorSum({i \in Leaves : Bit(i, b) = 1}, ProverVectors(j))
Total(j) == XorSum(Leaves, ProverVectors(j))

(* What the prover committed to are the sums over its trees. *)
CommittedSums ==
  /\ committed.u = Total(0)
  /\ \A pos \in 0 .. Lambda - 1 : committed.tags[pos] = Plane(pos \div K, pos % K)
  /\ \A j \in Trees \ {0} : committed.corrections[j] = SymDiff(Total(0), Total(j))

(* The openings are the prover's; each accumulator of the verifier is exact,
   and only those of trees opened at the verifier's own leaf have begun. *)
Reconstructing ==
  \A j \in Trees :
    /\ openings[j] = OpeningFor(RootSeed, TreeSalt(j), Chunk(opened, j))
    /\ Exact(acc[j], VerifierVectors(j, Chunk(delta, j)))
    /\ acc[j].count # 0 => Chunk(delta, j) = Chunk(opened, j)

IInv ==
  /\ phase \in {"commit", "committed", "reconstruct", "done", "rejected"}
  /\ opened \in Challenges /\ delta \in Challenges
  /\ acc = [j \in Trees |-> acc[j]]
  /\ phase = "commit" => \A j \in Trees : Exact(acc[j], ProverVectors(j))
  /\ phase = "committed" => \A j \in Trees : acc[j] = Fresh
  /\ phase \in {"committed", "reconstruct", "done"} => CommittedSums
  /\ phase \in {"reconstruct", "done"} => Reconstructing
  /\ phase = "done" => \A j \in Trees : Full(acc[j])
  /\ phase = "rejected" => \E j \in Trees : Chunk(delta, j) # Chunk(opened, j)

(* The seeds of the prover's trees. *)
LEMMA ProverSeeds ==
  ASSUME NEW j \in Trees
  PROVE  /\ ProverTrees[j] = Commit(RootSeed, TreeSalt(j), K)
         /\ ProverTrees[j].levels = SeedLevels(RootSeed, TreeSalt(j), K)
BY DEF ProverTrees, Commit

(* A tree verifies iff it was opened at the verifier's leaf. *)
LEMMA TreeVerifiesIff ==
  ASSUME NEW j \in Trees, opened \in Challenges, delta \in Challenges,
         openings[j] = OpeningFor(RootSeed, TreeSalt(j), Chunk(opened, j))
  PROVE  TreeVerifies(j) <=> Chunk(delta, j) = Chunk(opened, j)
<1>1. Chunk(delta, j) \in Leaves /\ Chunk(opened, j) \in Leaves
  BY ChunkFacts
<1>2. ProverTrees[j].com = Commit(RootSeed, TreeSalt(j), K).com
  BY ProverSeeds
<1> QED BY <1>1, <1>2, OpeningVerifies DEF TreeVerifies

(* The leaf the verifier visits is expanded as the prover expanded it. *)
LEMMA VisitedLeaf ==
  ASSUME NEW j \in Trees, delta \in Challenges, NEW e \in Leaves,
         openings[j] = OpeningFor(RootSeed, TreeSalt(j), Chunk(delta, j))
  PROVE  LET d == Chunk(delta, j)
             i == XorIndex(e, d)
             leaves == RecomputedLeaves(TreeSalt(j), K, d, openings[j])
         IN  (IF e = 0 THEN {} ELSE ExpandLeaf(j, i, leaves[i])) = VerifierVectors(j, d)[e]
<1> DEFINE d == Chunk(delta, j)
           i == XorIndex(e, d)
           leaves == RecomputedLeaves(TreeSalt(j), K, d, openings[j])
<1>1. d \in Leaves
  BY ChunkFacts
<1>2. VerifierVectors(j, d)[e] = IF e = 0 THEN {} ELSE LeafVector(j, i)
  BY DEF VerifierVectors
<1>3. ASSUME e # 0
      PROVE  leaves[i] = ProverTrees[j].levels[K][i]
  <2>1. i \in Leaves /\ i # d
    <3> HIDE DEF d
    <3> QED BY <1>1, <1>3, XorIndexFacts
  <2> HIDE DEF i, d
  <2>2. leaves[i] = SeedLevels(RootSeed, TreeSalt(j), K)[K][i]
    <3>1. openings[j] = OpeningFor(RootSeed, TreeSalt(j), d)
      BY DEF d
    <3> QED BY <1>1, <2>1, <3>1, LeavesRecomputed
  <2> QED BY <2>2, ProverSeeds
<1>4. (IF e = 0 THEN {} ELSE ExpandLeaf(j, i, leaves[i])) = VerifierVectors(j, d)[e]
  <2> HIDE DEF i, d, leaves
  <2> QED BY <1>2, <1>3 DEF LeafVector
<1> QED BY <1>4

(* Initially nothing has been added. *)
LEMMA InitInvariant ==
  Init => IInv
<1> SUFFICES ASSUME Init
             PROVE  IInv
  OBVIOUS
<1>1. acc = [j \in Trees |-> acc[j]] /\ \A j \in Trees : acc[j] = Fresh
  BY DEF Init
<1>2. \A j \in Trees : Exact(acc[j], ProverVectors(j))
  BY <1>1, FreshExact
<1>3. 0 \in Challenges
  BY Sizes
<1> QED BY <1>1, <1>2, <1>3 DEF Init, IInv

(* An exact accumulator that is not full has a next leaf. *)
LEMMA NextLeaf ==
  ASSUME NEW a, NEW f, Exact(a, f), ~ Full(a)
  PROVE  /\ a.count < 2^K /\ a.count \in Leaves
         /\ a.count + 1 # 0
<1>1. a.count \in 0 .. 2^K /\ a.count # 2^K /\ 2^K \in Nat
  BY Sizes DEF Exact, Full
<1> QED BY <1>1 DEF Leaves, NodesAt

(* The prover adds a leaf to the sums of a tree. *)
LEMMA ProverPushKeeps ==
  ASSUME IInv, NEW j \in Trees, ProverPush(j)
  PROVE  IInv'
<1>1. phase = "commit" /\ phase' = "commit" /\ ~ Full(acc[j])
      /\ acc' = [acc EXCEPT ![j] = Push(acc[j], LeafVector(j, acc[j].count))]
      /\ opened' = opened /\ delta' = delta
  BY DEF ProverPush
<1>2. acc = [k \in Trees |-> acc[k]] /\ \A k \in Trees : Exact(acc[k], ProverVectors(k))
  BY <1>1 DEF IInv
<1>3. /\ acc' = [k \in Trees |-> acc'[k]]
      /\ acc'[j] = Push(acc[j], LeafVector(j, acc[j].count))
      /\ \A k \in Trees : k # j => acc'[k] = acc[k]
  BY <1>1, <1>2
<1>4. acc[j].count < 2^K /\ acc[j].count \in Leaves
  BY <1>1, <1>2, NextLeaf
<1>5. LeafVector(j, acc[j].count) = ProverVectors(j)[acc[j].count]
  BY <1>4 DEF ProverVectors
<1>6. Exact(Push(acc[j], ProverVectors(j)[acc[j].count]), ProverVectors(j))
  BY <1>2, <1>4, PushExact
<1>7. \A k \in Trees : Exact(acc'[k], ProverVectors(k))
  BY <1>2, <1>3, <1>5, <1>6
<1>8. opened' \in Challenges /\ delta' \in Challenges
  BY <1>1 DEF IInv
<1>9. \A k \in Trees : Exact(acc[k], ProverVectors(k))'
  BY <1>7 DEF Exact, ProverVectors
<1> QED BY <1>1, <1>3, <1>8, <1>9 DEF IInv

(* Full accumulators are assembled into the sums over all leaves. *)
LEMMA ProverAssembleKeeps ==
  ASSUME IInv, ProverAssemble
  PROVE  IInv'
<1>1. /\ phase = "commit" /\ phase' = "committed" /\ opened' = opened /\ delta' = delta
      /\ \A j \in Trees : Full(acc[j])
      /\ committed'.u = acc[0].pending[K]
      /\ committed'.tags = Assemble([j \in Trees |-> acc[j].planes])
      /\ committed'.corrections =
           [j \in Trees \ {0} |-> SymDiff(acc[0].pending[K], acc[j].pending[K])]
      /\ acc' = [j \in Trees |-> Fresh]
  BY DEF ProverAssemble
<1>2. ASSUME NEW j \in Trees
      PROVE  /\ acc[j].pending[K] = Total(j)
             /\ \A b \in 0 .. K - 1 : acc[j].planes[b] = Plane(j, b)
  <2>1. Exact(acc[j], ProverVectors(j)) /\ acc[j].count = 2^K
    BY <1>1 DEF IInv, Full
  <2> QED BY <2>1, FullExact DEF Total, Plane
<1>3. committed'.u = Total(0)
  BY <1>1, <1>2, Sizes
<1>4. ASSUME NEW pos \in 0 .. Lambda - 1
      PROVE  committed'.tags[pos] = Plane(pos \div K, pos % K)
  <2>1. pos \div K \in Trees /\ (pos % K) \in 0 .. K - 1
    BY PositionFacts
  <2>2. committed'.tags[pos] = acc[pos \div K].planes[pos % K]
    BY <1>1, <2>1 DEF Assemble
  <2> QED BY <1>2, <2>1, <2>2
<1>5. \A j \in Trees \ {0} : committed'.corrections[j] = SymDiff(Total(0), Total(j))
  BY <1>1, <1>2, Sizes
<1>6. CommittedSums'
  BY <1>3, <1>4, <1>5 DEF CommittedSums, Total, Plane, ProverVectors
<1>7. opened' \in Challenges /\ delta' \in Challenges
  BY <1>1 DEF IInv
<1>8. acc' = [j \in Trees |-> acc'[j]] /\ \A j \in Trees : acc'[j] = Fresh
  BY <1>1
<1>9. phase' = "committed"
  BY <1>1
<1> QED BY <1>6, <1>7, <1>8, <1>9 DEF IInv

(* An opening is made for a challenge. *)
LEMMA OpenKeeps ==
  ASSUME IInv, NEW challenge \in Challenges, NEW derived \in Challenges,
         Open(challenge, derived)
  PROVE  IInv'
<1>1. /\ phase = "committed" /\ phase' = "reconstruct" /\ opened' = challenge
      /\ delta' = derived /\ acc' = acc /\ committed' = committed
      /\ openings' = [j \in Trees |-> OpenAllButOne(ProverTrees[j], K, Chunk(challenge, j))]
  BY DEF Open
<1>2. /\ CommittedSums /\ acc = [j \in Trees |-> acc[j]]
      /\ \A j \in Trees : acc[j] = Fresh
  BY <1>1 DEF IInv
<1>3. ASSUME NEW j \in Trees
      PROVE  /\ openings'[j] = OpeningFor(RootSeed, TreeSalt(j), Chunk(opened', j))
             /\ Exact(acc'[j], VerifierVectors(j, Chunk(delta', j)))
             /\ acc'[j].count = 0
  <2>1. openings'[j] = OpeningFor(RootSeed, TreeSalt(j), Chunk(opened', j))
    BY <1>1, ProverSeeds DEF OpeningFor
  <2>2. acc'[j] = Fresh
    BY <1>1, <1>2
  <2> QED BY <2>1, <2>2, FreshExact
<1>4. Reconstructing'
  BY <1>3 DEF Reconstructing
<1>5. CommittedSums'
  BY <1>1, <1>2 DEF CommittedSums
<1>6. acc' = [j \in Trees |-> acc'[j]] /\ opened' \in Challenges /\ delta' \in Challenges
  BY <1>1, <1>2
<1> QED BY <1>1, <1>4, <1>5, <1>6 DEF IInv

(* A verifier rejects when a tree was opened at another leaf than its own. *)
LEMMA RejectKeeps ==
  ASSUME IInv, NEW j \in Trees, Reject(j)
  PROVE  IInv'
<1>1. /\ phase = "reconstruct" /\ phase' = "rejected" /\ opened' = opened /\ delta' = delta
      /\ acc' = acc /\ ~ TreeVerifies(j)
  BY DEF Reject
<1>2. /\ opened \in Challenges /\ delta \in Challenges /\ acc = [k \in Trees |-> acc[k]]
      /\ openings[j] = OpeningFor(RootSeed, TreeSalt(j), Chunk(opened, j))
  BY <1>1 DEF IInv, Reconstructing
<1>3. Chunk(delta, j) # Chunk(opened, j)
  BY <1>1, <1>2, TreeVerifiesIff
<1>4. \E k \in Trees : Chunk(delta', k) # Chunk(opened', k)
  BY <1>1, <1>3
<1>5. (\E k \in Trees : Chunk(delta, k) # Chunk(opened, k))'
  BY <1>4 DEF Chunk
<1>6. phase' = "rejected" /\ opened' \in Challenges /\ delta' \in Challenges
      /\ acc' = [k \in Trees |-> acc'[k]]
  BY <1>1, <1>2
<1> QED BY <1>5, <1>6 DEF IInv

(* The verifier adds a leaf to the sums of a tree. *)
LEMMA VerifierPushKeeps ==
  ASSUME IInv, NEW j \in Trees, VerifierPush(j)
  PROVE  IInv'
<1> DEFINE d == Chunk(delta, j)
           e == acc[j].count
           i == XorIndex(e, d)
           leaves == RecomputedLeaves(TreeSalt(j), K, d, openings[j])
           added == IF e = 0 THEN {} ELSE ExpandLeaf(j, i, leaves[i])
           f == VerifierVectors(j, d)
<1>1. /\ phase = "reconstruct" /\ phase' = "reconstruct" /\ ~ Full(acc[j])
      /\ e = 0 => TreeVerifies(j)
      /\ acc' = [acc EXCEPT ![j] = Push(acc[j], added)]
      /\ opened' = opened /\ delta' = delta /\ openings' = openings /\ committed' = committed
  BY DEF VerifierPush
<1>2. /\ CommittedSums /\ Reconstructing /\ acc = [k \in Trees |-> acc[k]]
      /\ opened \in Challenges /\ delta \in Challenges
  BY <1>1 DEF IInv
<1>3. /\ openings[j] = OpeningFor(RootSeed, TreeSalt(j), Chunk(opened, j))
      /\ Exact(acc[j], f) /\ (e # 0 => d = Chunk(opened, j))
  BY <1>2 DEF Reconstructing
<1>4. d = Chunk(opened, j)
  <2>1. TreeVerifies(j) <=> d = Chunk(opened, j)
    BY <1>2, <1>3, TreeVerifiesIff
  <2> HIDE DEF d, e
  <2> QED BY <1>1, <1>3, <2>1
<1>5. e < 2^K /\ e \in Leaves /\ e + 1 # 0
  BY <1>1, <1>3, NextLeaf
<1>6. added = f[e]
  <2>1. openings[j] = OpeningFor(RootSeed, TreeSalt(j), d)
    BY <1>3, <1>4
  <2> HIDE DEF e
  <2> QED BY <1>2, <1>5, <2>1, VisitedLeaf
<1> HIDE DEF added, f
<1>7. Exact(Push(acc[j], added), f) /\ Push(acc[j], added).count = e + 1
  BY <1>3, <1>5, <1>6, PushExact
<1>8. /\ acc' = [k \in Trees |-> acc'[k]]
      /\ acc'[j] = Push(acc[j], added)
      /\ \A k \in Trees : k # j => acc'[k] = acc[k]
  BY <1>1, <1>2
<1>9. ASSUME NEW k \in Trees
      PROVE  /\ openings'[k] = OpeningFor(RootSeed, TreeSalt(k), Chunk(opened', k))
             /\ Exact(acc'[k], VerifierVectors(k, Chunk(delta', k)))
             /\ acc'[k].count # 0 => Chunk(delta', k) = Chunk(opened', k)
  <2>1. /\ openings[k] = OpeningFor(RootSeed, TreeSalt(k), Chunk(opened, k))
        /\ Exact(acc[k], VerifierVectors(k, Chunk(delta, k)))
        /\ acc[k].count # 0 => Chunk(delta, k) = Chunk(opened, k)
    BY <1>2 DEF Reconstructing
  <2>2. CASE k # j
    BY <1>1, <1>8, <2>1, <2>2
  <2>3. CASE k = j
    <3>1. Exact(acc'[j], VerifierVectors(j, Chunk(delta', j)))
      BY <1>1, <1>7, <1>8 DEF f
    <3>2. Chunk(delta', j) = Chunk(opened', j)
      BY <1>1, <1>4
    <3> QED BY <1>1, <2>1, <2>3, <3>1, <3>2
  <2> QED BY <2>2, <2>3
<1>10. Reconstructing'
  BY <1>9 DEF Reconstructing
<1>11. CommittedSums'
  BY <1>1, <1>2 DEF CommittedSums
<1>12. phase' = "reconstruct" /\ opened' \in Challenges /\ delta' \in Challenges
  BY <1>1, <1>2
<1> QED BY <1>8, <1>10, <1>11, <1>12 DEF IInv

(* The verifier has keys when all trees are full. *)
LEMMA VerifierFinishKeeps ==
  ASSUME IInv, VerifierFinish
  PROVE  IInv'
<1>1. /\ phase = "reconstruct" /\ phase' = "done" /\ \A j \in Trees : Full(acc[j])
      /\ acc' = acc /\ opened' = opened /\ delta' = delta /\ openings' = openings
      /\ committed' = committed
  BY DEF VerifierFinish
<1>2. /\ CommittedSums /\ Reconstructing /\ acc = [k \in Trees |-> acc[k]]
      /\ opened \in Challenges /\ delta \in Challenges
  BY <1>1 DEF IInv
<1>3. CommittedSums' /\ Reconstructing' /\ (\A j \in Trees : Full(acc[j]))'
  BY <1>1, <1>2 DEF CommittedSums, Reconstructing, Full
<1>4. phase' = "done" /\ acc' = [k \in Trees |-> acc'[k]]
      /\ opened' \in Challenges /\ delta' \in Challenges
  BY <1>1, <1>2
<1> QED BY <1>3, <1>4 DEF IInv

(* Every step keeps the invariant. *)
LEMMA NextInvariant ==
  IInv /\ [Next]_vars => IInv'
<1> SUFFICES ASSUME IInv, [Next]_vars
             PROVE  IInv'
  OBVIOUS
<1>1. ASSUME NEW j \in Trees, ProverPush(j) \/ Reject(j) \/ VerifierPush(j)
      PROVE  IInv'
  BY <1>1, ProverPushKeeps, RejectKeeps, VerifierPushKeeps
<1>2. CASE ProverAssemble
  BY <1>2, ProverAssembleKeeps
<1>3. ASSUME NEW challenge \in 0 .. 2^Lambda - 1, NEW derived \in 0 .. 2^Lambda - 1,
             Open(challenge, derived)
      PROVE  IInv'
  BY <1>3, OpenKeeps DEF Challenges
<1>4. CASE VerifierFinish
  BY <1>4, VerifierFinishKeeps
<1>5. CASE UNCHANGED vars
  <2>1. /\ phase' = phase /\ acc' = acc /\ opened' = opened /\ delta' = delta
        /\ openings' = openings /\ committed' = committed
    BY <1>5 DEF vars
  <2>2. CommittedSums' <=> CommittedSums
    BY <2>1 DEF CommittedSums
  <2>3. Reconstructing' <=> Reconstructing
    BY <2>1 DEF Reconstructing
  <2>4. (\A j \in Trees : Full(acc[j]))' <=> \A j \in Trees : Full(acc[j])
    BY <2>1
  <2> QED BY <2>1, <2>2, <2>3, <2>4 DEF IInv
<1> QED BY <1>1, <1>2, <1>3, <1>4, <1>5 DEF Next

(* The invariant holds in every run: half-way sums are the documented ones,
   and only trees opened at the verifier's own leaves are reconstructed. *)
THEOREM Invariant == Spec => []IInv
BY InitInvariant, NextInvariant, PTL DEF Spec
-----------------------------------------------------------------------------
(***************************************************************************)
(* What the invariant says about the protocol.                             *)
(***************************************************************************)

(* A finished verifier worked with the challenge the prover opened for. *)
LEMMA DoneMeansAgreed ==
  ASSUME IInv, phase = "done"
  PROVE  /\ \A j \in Trees : Chunk(delta, j) = Chunk(opened, j)
         /\ delta = opened
<1>1. Reconstructing /\ \A j \in Trees : Full(acc[j])
  BY DEF IInv
<1>2. \A j \in Trees : Chunk(delta, j) = Chunk(opened, j)
  <2> SUFFICES ASSUME NEW j \in Trees
               PROVE  Chunk(delta, j) = Chunk(opened, j)
    OBVIOUS
  <2>1. acc[j].count # 0
    BY <1>1, Sizes DEF Full
  <2> QED BY <1>1, <2>1 DEF Reconstructing
<1>3. opened \in Challenges /\ delta \in Challenges
  BY DEF IInv
<1>4. delta = opened
  BY <1>2, <1>3, ChunksDetermine
<1> QED BY <1>2, <1>4

(* The plane of a key, once it refers to the first tree's sum. *)
LEMMA CorrectedKeyPlane ==
  ASSUME IInv, phase = "done", NEW j \in Trees, NEW b \in 0 .. K - 1
  PROVE  CorrectedPlane(j, b) =
           IF Bit(Chunk(delta, j), b) = 1 THEN SymDiff(Plane(j, b), Total(0)) ELSE Plane(j, b)
<1> DEFINE d == Chunk(delta, j)
           f == VerifierVectors(j, d)
<1>1. /\ Exact(acc[j], f) /\ acc[j].count = 2^K /\ delta \in Challenges /\ CommittedSums
  BY DEF IInv, Reconstructing, Full
<1>2. d \in Leaves
  BY <1>1, ChunkFacts
<1> HIDE DEF d
<1>3. acc[j].planes[b] = XorSum({e \in Leaves : Bit(e, b) = 1}, f)
  BY <1>1, FullExact
<1>4. ASSUME NEW e \in Leaves, e # 0
      PROVE  f[e] = ProverVectors(j)[XorIndex(e, d)]
  <2>1. XorIndex(e, d) \in Leaves
    BY <1>2, XorIndexFacts
  <2> QED BY <1>4, <2>1 DEF VerifierVectors, ProverVectors
<1> HIDE DEF f
<1>5. XorSum({e \in Leaves : Bit(e, b) = 1}, f) =
        IF Bit(d, b) = 1 THEN SymDiff(Plane(j, b), Total(j)) ELSE Plane(j, b)
  BY <1>2, <1>4, KeyPlane DEF Plane, Total
<1>6. CASE Bit(d, b) = 1 /\ j > 0
  <2>1. committed.corrections[j] = SymDiff(Total(0), Total(j))
    BY <1>1, <1>6 DEF CommittedSums
  <2>2. CorrectedPlane(j, b) =
          SymDiff(SymDiff(Plane(j, b), Total(j)), SymDiff(Total(0), Total(j)))
    BY <1>3, <1>5, <1>6, <2>1 DEF CorrectedPlane, d
  <2>3. \A u, v, w : SymDiff(SymDiff(u, v), SymDiff(w, v)) = SymDiff(u, w)
    BY DEF SymDiff
  <2> QED BY <1>6, <2>2, <2>3 DEF d
<1>7. CASE Bit(d, b) = 1 /\ ~ (j > 0)
  <2>1. j = 0
    BY <1>7, Sizes
  <2> QED BY <1>3, <1>5, <1>7, <2>1 DEF CorrectedPlane, d
<1>8. CASE Bit(d, b) # 1
  BY <1>3, <1>5, <1>8 DEF CorrectedPlane, d
<1> QED BY <1>6, <1>7, <1>8

(* Half-way through a tree the sums are the documented ones. *)
LEMMA InvariantExact ==
  IInv => AccumulatorExact
<1> SUFFICES ASSUME IInv, phase = "commit", NEW j \in Trees
             PROVE  LET n == acc[j].count
                        R == [i \in Leaves |-> LeafVector(j, i)]
                        Whole(l) == 2^l * (n \div 2^l)
                    IN /\ DOMAIN acc[j].pending = {l \in 0 .. K : Bit(n, l) = 1}
                       /\ \A l \in DOMAIN acc[j].pending :
                            acc[j].pending[l] =
                              XorSum(Whole(l + 1) .. Whole(l + 1) + 2^l - 1, R)
                       /\ \A b \in 0 .. K - 1 :
                            acc[j].planes[b] =
                              XorSum({i \in 0 .. Whole(b + 1) - 1 : Bit(i, b) = 1}, R)
  BY DEF AccumulatorExact
<1>1. Exact(acc[j], ProverVectors(j))
  BY DEF IInv
<1> QED BY <1>1 DEF Exact, ProverVectors, Left, OddLeaves

(* For trees of any depth, any number of them, any challenge and any order of
   the tasks: every position of the keys is the tag there, plus u where the
   challenge has a bit, and on the way there the accumulators hold the
   documented partial sums (vole.rs, ProverVole::commit, reconstruct_keys). *)
THEOREM Correlated == Spec => []Correlation
<1>1. IInv => Correlation
  <2> SUFFICES ASSUME IInv, phase = "done", NEW pos \in 0 .. Lambda - 1
               PROVE  Keys[pos] = IF Bit(delta, pos) = 1
                                  THEN SymDiff(committed.tags[pos], committed.u)
                                  ELSE committed.tags[pos]
    BY InvariantExact DEF Correlation
  <2> DEFINE j == pos \div K
             b == pos % K
  <2>1. j \in Trees /\ b \in 0 .. K - 1
    BY PositionFacts
  <2>2. Keys[pos] = CorrectedPlane(j, b)
    BY <2>1 DEF Keys, Assemble
  <2>3. delta \in Challenges /\ CommittedSums
    BY DEF IInv
  <2>4. Bit(delta, pos) = Bit(Chunk(delta, j), b)
    BY <2>3, ChallengeBit
  <2>5. committed.tags[pos] = Plane(j, b) /\ committed.u = Total(0)
    BY <2>3 DEF CommittedSums
  <2> HIDE DEF j, b
  <2> QED BY <2>1, <2>2, <2>4, <2>5, CorrectedKeyPlane
<1> QED BY <1>1, Invariant, PTL

(* Openings are accepted under the challenge they were made for and under no
   other, whichever trees are looked at first (reconstruct_keys, verify). *)
THEOREM ChallengeBound == Spec => []ChallengeIsBound
<1>1. IInv => ChallengeIsBound
  <2>1. ASSUME IInv, phase = "rejected"
        PROVE  delta # opened
    BY <2>1 DEF IInv
  <2> QED BY <2>1, DoneMeansAgreed DEF ChallengeIsBound
<1> QED BY <1>1, Invariant, PTL

(* An opening reveals no seed from which the hidden leaf descends, and every
   other leaf can be recomputed from it (open_all_but_one, verify). *)
THEOREM OneLeafHidden == Spec => []HiddenLeafOnly
<1>1. IInv => HiddenLeafOnly
  <2> SUFFICES ASSUME IInv, phase = "reconstruct", NEW j \in Trees
               PROVE  LET hide == Chunk(opened, j)
                          leaves == RecomputedLeaves(TreeSalt(j), K, hide, openings[j])
                          revealed == {openings[j].siblings[level] : level \in 1 .. K}
                      IN /\ \A level \in 0 .. K :
                              ProverTrees[j].levels[level][PathIndex(hide, K, level)]
                                \notin revealed
                         /\ \A i \in Leaves :
                              leaves[i] = IF i = hide THEN NoSeed
                                          ELSE ProverTrees[j].levels[K][i]
    BY DEF HiddenLeafOnly
  <2> DEFINE hide == Chunk(opened, j)
             seeds == SeedLevels(RootSeed, TreeSalt(j), K)
  <2>1. hide \in Leaves /\ openings[j] = OpeningFor(RootSeed, TreeSalt(j), hide)
    BY ChunkFacts DEF IInv, Reconstructing
  <2>2. ProverTrees[j].levels = seeds
    BY ProverSeeds
  <2> HIDE DEF hide, seeds
  <2>3. \A level \in 0 .. K, shown \in 1 .. K :
          seeds[level][PathIndex(hide, K, level)] # openings[j].siblings[shown]
    BY <2>1, PathNotRevealed DEF seeds
  <2>4. \A i \in Leaves :
          RecomputedLeaves(TreeSalt(j), K, hide, openings[j])[i] =
            IF i = hide THEN NoSeed ELSE seeds[K][i]
    BY <2>1, LeavesRecomputed DEF seeds
  <2> QED BY <2>2, <2>3, <2>4 DEF hide
<1> QED BY <1>1, Invariant, PTL
=============================================================================
