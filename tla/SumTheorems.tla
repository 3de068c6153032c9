---------------------------- MODULE SumTheorems ----------------------------
(***************************************************************************)
(* Facts about data that the proofs of the components need: induction over *)
(* the natural numbers as a statement about sets, and sums over finite     *)
(* sets (SumFunctionOnSet of the community modules).                       *)
(***************************************************************************)
EXTENDS Integers, FiniteSets, Functions, FiniteSetTheorems, TLAPS

-----------------------------------------------------------------------------
(***************************************************************************)
(* Induction.                                                              *)
(***************************************************************************)

(* A set of natural numbers that is not empty has a least element. *)
LEMMA LeastNumber ==
  ASSUME NEW T, T \subseteq Nat, T # {}
  PROVE  \E n \in T : \A m \in T : n <= m
<1> DEFINE R == {pair \in Nat \X Nat : pair[1] < pair[2]}
<1>1. IsWellFoundedOn(R, Nat)
  BY NatLessThanWellFounded DEF OpToRel
<1>2. \A m, n \in Nat : m < n => <<m, n>> \in R
  OBVIOUS
<1> HIDE DEF R
<1>3. PICK n \in T : \A m \in T : <<m, n>> \notin R
  BY <1>1, WFMin
<1>4. ASSUME NEW m \in T
      PROVE  n <= m
  <2>1. m \in Nat /\ n \in Nat /\ <<m, n>> \notin R
    BY <1>3
  <2>2. ~ (m < n)
    BY <1>2, <2>1
  <2> QED
    BY <2>1, <2>2
<1> QED
  BY <1>4

(* A set that has 0, and with each number the next one, has all numbers. *)
LEMMA NumbersInductive ==
  ASSUME NEW T, 0 \in T, \A n \in Nat : n \in T => n + 1 \in T
  PROVE  \A n \in Nat : n \in T
<1> DEFINE Missing == {n \in Nat : n \notin T}
<1> SUFFICES ASSUME Missing # {} PROVE FALSE
  OBVIOUS
<1>1. PICK n \in Missing : \A m \in Missing : n <= m
  <2>1. Missing \subseteq Nat
    OBVIOUS
  <2> HIDE DEF Missing
  <2> QED
    BY <2>1, LeastNumber
<1>2. n \in Nat /\ n # 0
  OBVIOUS
<1>3. n - 1 \in Nat /\ n - 1 \notin Missing
  BY <1>1, <1>2
<1>4. n \in T
  BY <1>2, <1>3
<1> QED
  BY <1>4

-----------------------------------------------------------------------------
(***************************************************************************)
(* Sums.                                                                   *)
(***************************************************************************)

(* One step of a sum, given the sums of smaller sets. *)
SumStep(f, sums, s) ==
  IF s = {} THEN 0
  ELSE LET x == CHOOSE x \in s : TRUE IN f[x] + sums[s \ {x}]

(* sums gives the sum of f over every subset of S. *)
SumsOver(f, S, sums) == sums = [s \in SUBSET S |-> SumStep(f, sums, s)]

(* SumFunctionOnSet is the value at S of some such function. *)
LEMMA SumUnfolded ==
  ASSUME NEW f, NEW S
  PROVE  SumFunctionOnSet(f, S) = (CHOOSE sums : SumsOver(f, S, sums))[S]
BY DEF SumFunctionOnSet, FoldFunctionOnSet, MapThenFoldSet, SumsOver, SumStep

(* The sums over sets up to some size can be had from those of smaller ones. *)
SumsUpTo(f, S, n, sums) ==
  sums = [s \in {s \in SUBSET S : Cardinality(s) <= n} |-> SumStep(f, sums, s)]

(* The element a sum splits off belongs to the set, which gets smaller. *)
LEMMA Smaller ==
  ASSUME NEW S, IsFiniteSet(S), NEW s \in SUBSET S, s # {}
  PROVE  LET x == CHOOSE x \in s : TRUE
         IN  /\ x \in s
             /\ s \ {x} \in SUBSET S
             /\ Cardinality(s) \in Nat /\ Cardinality(s \ {x}) \in Nat
             /\ Cardinality(s \ {x}) = Cardinality(s) - 1
<1> DEFINE x == CHOOSE x \in s : TRUE
<1>1. x \in s
  OBVIOUS
<1> HIDE DEF x
<1>2. IsFiniteSet(s)
  BY FS_Subset
<1>3. IsFiniteSet(s \ {x}) /\ Cardinality(s \ {x}) = Cardinality(s) - 1
  BY <1>1, <1>2, FS_RemoveElement
<1> QED
  BY <1>1, <1>2, <1>3, FS_CardinalityType DEF x

(* They exist for sets of every size, one level built on the one below. *)
LEMMA SumsUpToExist ==
  ASSUME NEW f, NEW S, IsFiniteSet(S)
  PROVE  \A n \in Nat : \E sums : SumsUpTo(f, S, n, sums)
<1> DEFINE T == {n \in Nat : \E sums : SumsUpTo(f, S, n, sums)}
           Level(n) == {s \in SUBSET S : Cardinality(s) <= n}
<1>1. 0 \in T
  <2> DEFINE sums == [s \in Level(0) |-> 0]
  <2>1. ASSUME NEW s \in Level(0)
        PROVE  s = {}
    <3>1. IsFiniteSet(s) /\ Cardinality(s) <= 0
      BY FS_Subset
    <3>2. Cardinality(s) \in Nat
      BY <3>1, FS_CardinalityType
    <3>3. Cardinality(s) = 0
      BY <3>1, <3>2
    <3> QED
      BY <3>1, <3>3, FS_EmptySet
  <2>2. \A s \in Level(0) : SumStep(f, sums, s) = 0
    BY <2>1 DEF SumStep
  <2>3. sums = [s \in Level(0) |-> SumStep(f, sums, s)]
    BY <2>2
  <2> HIDE DEF sums
  <2>4. SumsUpTo(f, S, 0, sums)
    BY <2>3 DEF SumsUpTo
  <2> QED
    BY <2>4
<1>2. ASSUME NEW n \in Nat, n \in T
      PROVE  n + 1 \in T
  <2>1. PICK sums : SumsUpTo(f, S, n, sums)
    BY <1>2
  <2>2. sums = [s \in Level(n) |-> SumStep(f, sums, s)]
    BY <2>1 DEF SumsUpTo
  <2> DEFINE more == [s \in Level(n + 1) |-> SumStep(f, sums, s)]
  <2>3. \A s \in Level(n) : s \in Level(n + 1)
    <3> TAKE s \in Level(n)
    <3>1. IsFiniteSet(s)
      BY FS_Subset
    <3>2. Cardinality(s) \in Nat /\ Cardinality(s) <= n
      BY <3>1, FS_CardinalityType
    <3>3. Cardinality(s) <= n + 1
      BY <3>2
    <3> QED
      BY <3>3
  <2>4. \A s \in Level(n) : more[s] = sums[s]
    <3> TAKE s \in Level(n)
    <3>1. sums[s] = SumStep(f, sums, s)
      BY <2>2
    <3> QED
      BY <2>3, <3>1
  <2>5. ASSUME NEW s \in Level(n + 1)
        PROVE  SumStep(f, more, s) = SumStep(f, sums, s)
    <3>1. CASE s = {}
      BY <3>1 DEF SumStep
    <3>2. CASE s # {}
      <4> DEFINE x == CHOOSE x \in s : TRUE
      <4>1. /\ s \ {x} \in SUBSET S /\ Cardinality(s) \in Nat
            /\ Cardinality(s \ {x}) \in Nat
            /\ Cardinality(s \ {x}) = Cardinality(s) - 1
        BY <3>2, Smaller
      <4>2. Cardinality(s \ {x}) <= n
        BY <4>1
      <4>3. s \ {x} \in Level(n)
        BY <4>1, <4>2
      <4>4. more[s \ {x}] = sums[s \ {x}]
        BY <2>4, <4>3
      <4> HIDE DEF more
      <4> QED
        BY <3>2, <4>4 DEF SumStep
    <3> QED
      BY <3>1, <3>2
  <2>6. more = [s \in Level(n + 1) |-> SumStep(f, more, s)]
    BY <2>5
  <2> HIDE DEF more
  <2>7. SumsUpTo(f, S, n + 1, more)
    BY <2>6 DEF SumsUpTo
  <2> QED
    BY <2>7
<1> HIDE DEF T
<1>3. \A n \in Nat : n \in T
  BY <1>1, <1>2, NumbersInductive
<1> QED
  BY <1>3 DEF T

(* So the sums over all subsets of a finite set exist. *)
LEMMA SumsExist ==
  ASSUME NEW f, NEW S, IsFiniteSet(S)
  PROVE  SumsOver(f, S, CHOOSE sums : SumsOver(f, S, sums))
<1>1. Cardinality(S) \in Nat
  BY FS_CardinalityType
<1>2. PICK sums : SumsUpTo(f, S, Cardinality(S), sums)
  BY <1>1, SumsUpToExist
<1>3. {s \in SUBSET S : Cardinality(s) <= Cardinality(S)} = SUBSET S
  BY FS_Subset
<1>4. SumsOver(f, S, sums)
  BY <1>2, <1>3 DEF SumsUpTo, SumsOver
<1> QED
  BY <1>4

(* What the next lemmas do by induction over the size of a set. *)
LEMMA SizeInductive ==
  ASSUME NEW S, IsFiniteSet(S), NEW Good, {} \in Good,
         \A s \in SUBSET S :
           s # {} /\ (\A x \in s : s \ {x} \in Good) => s \in Good
  PROVE  \A s \in SUBSET S : s \in Good
<1> DEFINE T == {n \in Nat : \A s \in SUBSET S : Cardinality(s) = n => s \in Good}
<1>1. \A s \in SUBSET S : IsFiniteSet(s) /\ Cardinality(s) \in Nat
  BY FS_Subset, FS_CardinalityType
<1>2. 0 \in T
  BY <1>1, FS_EmptySet
<1>3. ASSUME NEW n \in Nat, n \in T
      PROVE  n + 1 \in T
  <2>1. ASSUME NEW s \in SUBSET S, Cardinality(s) = n + 1
        PROVE  s \in Good
    <3>1. s # {}
      <4>1. Cardinality({}) = 0 /\ n + 1 # 0
        BY FS_EmptySet
      <4> QED
        BY <2>1, <4>1
    <3>2. ASSUME NEW x \in s
          PROVE  s \ {x} \in Good
      <4>1. Cardinality(s \ {x}) = Cardinality(s) - 1
        BY <1>1, FS_RemoveElement
      <4>2. Cardinality(s \ {x}) = n
        BY <2>1, <4>1
      <4>3. s \ {x} \in SUBSET S
        OBVIOUS
      <4> QED
        BY <1>3, <4>2, <4>3
    <3> QED
      BY <3>1, <3>2
  <2> QED
    BY <2>1
<1> HIDE DEF T
<1>4. \A n \in Nat : n \in T
  BY <1>2, <1>3, NumbersInductive
<1> QED
  BY <1>1, <1>4 DEF T

(* Sums of integers are integers. *)
LEMMA SumsAreIntegers ==
  ASSUME NEW f, NEW S, IsFiniteSet(S), \A x \in S : f[x] \in Int,
         NEW sums, SumsOver(f, S, sums)
  PROVE  \A s \in SUBSET S : sums[s] \in Int
<1> DEFINE Good == {s \in SUBSET S : sums[s] \in Int}
<1>1. \A s \in SUBSET S : sums[s] = SumStep(f, sums, s)
  BY DEF SumsOver
<1>2. {} \in Good
  <2>1. sums[{}] = 0
    BY <1>1 DEF SumStep
  <2> QED
    BY <2>1
<1>3. ASSUME NEW s \in SUBSET S, s # {}, \A x \in s : s \ {x} \in Good
      PROVE  s \in Good
  <2> DEFINE c == CHOOSE x \in s : TRUE
  <2>1. c \in s /\ sums[s] = f[c] + sums[s \ {c}]
    BY <1>1, <1>3 DEF SumStep
  <2> HIDE DEF c
  <2>2. f[c] \in Int /\ sums[s \ {c}] \in Int
    BY <1>3, <2>1
  <2> QED
    BY <2>1, <2>2
<1> HIDE DEF Good
<1>4. \A s \in SUBSET S : s \in Good
  BY <1>2, <1>3, SizeInductive
<1> QED
  BY <1>4 DEF Good

(* Any element can be split off a sum first. *)
LEMMA SumsCommute ==
  ASSUME NEW f, NEW S, IsFiniteSet(S), \A x \in S : f[x] \in Int,
         NEW sums, SumsOver(f, S, sums)
  PROVE  \A s \in SUBSET S : \A x \in s : sums[s] = f[x] + sums[s \ {x}]
<1> DEFINE Good == {s \in SUBSET S : \A x \in s : sums[s] = f[x] + sums[s \ {x}]}
<1>1. \A s \in SUBSET S : sums[s] = SumStep(f, sums, s) /\ sums[s] \in Int
  BY SumsAreIntegers DEF SumsOver
<1>2. {} \in Good
  OBVIOUS
<1>3. ASSUME NEW s \in SUBSET S, s # {}, \A x \in s : s \ {x} \in Good
      PROVE  s \in Good
  <2> DEFINE c == CHOOSE x \in s : TRUE
  <2>1. c \in s /\ sums[s] = f[c] + sums[s \ {c}]
    BY <1>1, <1>3 DEF SumStep
  <2> HIDE DEF c
  <2>2. ASSUME NEW x \in s
        PROVE  sums[s] = f[x] + sums[s \ {x}]
    <3>1. CASE x = c
      BY <2>1, <3>1
    <3>2. CASE x # c
      <4> DEFINE t == (s \ {c}) \ {x}
      <4>1. s \ {c} \in Good /\ s \ {x} \in Good /\ x \in s \ {c} /\ c \in s \ {x}
        BY <1>3, <2>1, <3>2
      <4>2. sums[s \ {c}] = f[x] + sums[t]
        BY <4>1
      <4>3. t = (s \ {x}) \ {c}
        OBVIOUS
      <4>4. sums[s \ {x}] = f[c] + sums[t]
        BY <4>1, <4>3
      <4>5. sums[t] \in Int /\ f[c] \in Int /\ f[x] \in Int
        BY <1>1, <2>1
      <4> HIDE DEF t
      <4> QED
        BY <2>1, <4>2, <4>4, <4>5
    <3> QED
      BY <3>1, <3>2
  <2> QED
    BY <2>2
<1> HIDE DEF Good
<1>4. \A s \in SUBSET S : s \in Good
  BY <1>2, <1>3, SizeInductive
<1> QED
  BY <1>4 DEF Good

(* Sums depend only on the values at the elements summed. *)
LEMMA SumsAgree ==
  ASSUME NEW f, NEW S, IsFiniteSet(S), NEW sums, SumsOver(f, S, sums),
         NEW g, NEW R, NEW others, SumsOver(g, R, others),
         NEW U, U \subseteq S, U \subseteq R, \A x \in U : f[x] = g[x]
  PROVE  sums[U] = others[U]
<1> DEFINE Good == {s \in SUBSET U : sums[s] = others[s]}
<1>1. /\ \A s \in SUBSET S : sums[s] = SumStep(f, sums, s)
      /\ \A s \in SUBSET R : others[s] = SumStep(g, others, s)
  BY DEF SumsOver
<1>2. {} \in Good
  BY <1>1 DEF SumStep
<1>3. ASSUME NEW s \in SUBSET U, s # {}, \A x \in s : s \ {x} \in Good
      PROVE  s \in Good
  <2> DEFINE c == CHOOSE x \in s : TRUE
  <2>1. s \in SUBSET S /\ s \in SUBSET R
    OBVIOUS
  <2>2. /\ c \in s /\ sums[s] = f[c] + sums[s \ {c}]
        /\ others[s] = g[c] + others[s \ {c}]
    BY <1>1, <1>3, <2>1 DEF SumStep
  <2> HIDE DEF c
  <2>3. f[c] = g[c] /\ sums[s \ {c}] = others[s \ {c}]
    BY <1>3, <2>2
  <2> QED
    BY <2>2, <2>3
<1> HIDE DEF Good
<1>4. IsFiniteSet(U)
  BY FS_Subset
<1>5. \A s \in SUBSET U : s \in Good
  BY <1>2, <1>3, <1>4, SizeInductive
<1> QED
  BY <1>5 DEF Good

(* Nothing sums up to 0. *)
LEMMA SumEmpty ==
  ASSUME NEW f
  PROVE  SumFunctionOnSet(f, {}) = 0
<1> DEFINE sums == CHOOSE sums : SumsOver(f, {}, sums)
<1>1. SumsOver(f, {}, sums)
  BY SumsExist, FS_EmptySet
<1>2. SumFunctionOnSet(f, {}) = sums[{}]
  BY SumUnfolded
<1> HIDE DEF sums
<1> QED
  BY <1>1, <1>2 DEF SumsOver, SumStep

(* Functions with the same values on a set have the same sum over it. *)
LEMMA SumAgrees ==
  ASSUME NEW f, NEW g, NEW S, IsFiniteSet(S), \A x \in S : f[x] = g[x]
  PROVE  SumFunctionOnSet(f, S) = SumFunctionOnSet(g, S)
<1> DEFINE sums == CHOOSE sums : SumsOver(f, S, sums)
           others == CHOOSE s : SumsOver(g, S, s)
<1>1. SumsOver(f, S, sums) /\ SumsOver(g, S, others)
  BY SumsExist
<1>2. SumFunctionOnSet(f, S) = sums[S] /\ SumFunctionOnSet(g, S) = others[S]
  BY SumUnfolded
<1> HIDE DEF sums, others
<1> QED
  BY <1>1, <1>2, SumsAgree

(* The value at any one element can be split off the sum. *)
LEMMA SumSplit ==
  ASSUME NEW f, NEW S, IsFiniteSet(S), \A y \in S : f[y] \in Int, NEW x \in S
  PROVE  /\ SumFunctionOnSet(f, S) = f[x] + SumFunctionOnSet(f, S \ {x})
         /\ SumFunctionOnSet(f, S) \in Int
         /\ SumFunctionOnSet(f, S \ {x}) \in Int
<1> DEFINE R == S \ {x}
           sums == CHOOSE sums : SumsOver(f, S, sums)
           others == CHOOSE s : SumsOver(f, R, s)
<1>1. IsFiniteSet(R) /\ R \in SUBSET S
  BY FS_Subset
<1>2. SumsOver(f, S, sums) /\ SumsOver(f, R, others)
  BY <1>1, SumsExist
<1>3. SumFunctionOnSet(f, S) = sums[S] /\ SumFunctionOnSet(f, R) = others[R]
  BY SumUnfolded
<1> HIDE DEF sums, others
<1>4. sums[S] = f[x] + sums[R]
  BY <1>2, SumsCommute
<1>5. sums[R] = others[R]
  BY <1>1, <1>2, SumsAgree
<1>6. sums[S] \in Int /\ sums[R] \in Int
  BY <1>1, <1>2, SumsAreIntegers
<1> QED
  BY <1>3, <1>4, <1>5, <1>6

(* One more element adds its value. *)
LEMMA SumAdd ==
  ASSUME NEW f, NEW S, IsFiniteSet(S), NEW x, x \notin S,
         \A y \in S \cup {x} : f[y] \in Int
  PROVE  /\ SumFunctionOnSet(f, S \cup {x}) = f[x] + SumFunctionOnSet(f, S)
         /\ SumFunctionOnSet(f, S) \in Int
<1>1. IsFiniteSet(S \cup {x})
  BY FS_AddElement
<1>2. (S \cup {x}) \ {x} = S
  OBVIOUS
<1> QED
  BY <1>1, <1>2, SumSplit

(* The sum of integers is an integer. *)
LEMMA SumIsInteger ==
  ASSUME NEW f, IsFiniteSet(DOMAIN f), \A x \in DOMAIN f : f[x] \in Int
  PROVE  SumFunction(f) \in Int
<1> DEFINE S == DOMAIN f
           sums == CHOOSE sums : SumsOver(f, S, sums)
<1>1. SumsOver(f, S, sums)
  BY SumsExist
<1>2. SumFunction(f) = sums[S]
  BY SumUnfolded DEF SumFunction
<1> HIDE DEF sums
<1> QED
  BY <1>1, <1>2, SumsAreIntegers

(* A function with one more argument has its value there added to its sum. *)
LEMMA SumExtends ==
  ASSUME NEW f, NEW g, NEW x, IsFiniteSet(DOMAIN f), x \notin DOMAIN f,
         DOMAIN g = DOMAIN f \cup {x},
         \A y \in DOMAIN f : g[y] = f[y],
         \A y \in DOMAIN g : g[y] \in Int
  PROVE  /\ SumFunction(g) = g[x] + SumFunction(f)
         /\ SumFunction(f) \in Int
<1>1. SumFunctionOnSet(g, DOMAIN f) = SumFunctionOnSet(f, DOMAIN f)
  BY SumAgrees
<1>2. /\ SumFunctionOnSet(g, DOMAIN g) = g[x] + SumFunctionOnSet(g, DOMAIN f)
      /\ SumFunctionOnSet(g, DOMAIN f) \in Int
  BY SumAdd
<1> QED
  BY <1>1, <1>2 DEF SumFunction

-----------------------------------------------------------------------------
(***************************************************************************)
(* Powers of two.                                                          *)
(***************************************************************************)

(* With another element there are twice as many subsets. *)
LEMMA SubsetsDouble ==
  ASSUME NEW N, IsFiniteSet(N), NEW m, m \notin N
  PROVE  Cardinality(SUBSET (N \cup {m})) = Cardinality(SUBSET N) + Cardinality(SUBSET N)
<1> DEFINE A == SUBSET N
           B == {s \cup {m} : s \in A}
           f == [s \in A |-> s \cup {m}]
<1>1. SUBSET (N \cup {m}) \subseteq A \cup B
  <2> SUFFICES ASSUME NEW s \in SUBSET (N \cup {m}), s \notin A
               PROVE  s \in B
    OBVIOUS
  <2>1. m \in s
    OBVIOUS
  <2>2. s \ {m} \in A
    OBVIOUS
  <2>3. s = (s \ {m}) \cup {m}
    BY <2>1
  <2> QED BY <2>2, <2>3
<1>2. A \cup B \subseteq SUBSET (N \cup {m})
  OBVIOUS
<1>3. A \cap B = {}
  OBVIOUS
<1>4. f \in Bijection(A, B)
  <2>1. f \in [A -> B]
    OBVIOUS
  <2>2. ASSUME NEW s \in A, NEW t \in A, f[s] = f[t]
        PROVE  s = t
    <3>1. m \notin s /\ m \notin t /\ s \cup {m} = t \cup {m}
      BY <2>2
    <3>2. s = (s \cup {m}) \ {m} /\ t = (t \cup {m}) \ {m}
      BY <3>1
    <3> QED BY <3>1, <3>2
  <2>3. \A u \in B : \E s \in A : f[s] = u
    OBVIOUS
  <2> HIDE DEF A, B, f
  <2> QED BY <2>1, <2>2, <2>3 DEF Bijection, Injection, Surjection, IsInjective
<1>5. IsFiniteSet(A) /\ Cardinality(A) \in Nat
  BY FS_SUBSET, FS_CardinalityType
<1> HIDE DEF A, B, f
<1>6. IsFiniteSet(B) /\ Cardinality(B) = Cardinality(A)
  <2>1. ExistsBijection(A, B)
    BY <1>4 DEF ExistsBijection
  <2> QED BY <1>5, <2>1, FS_Bijection
<1>7. Cardinality(A \cup B) = Cardinality(A) + Cardinality(B) - Cardinality(A \cap B)
  BY <1>5, <1>6, FS_Union
<1>8. Cardinality(A \cap B) = 0
  BY <1>3, FS_EmptySet
<1>9. SUBSET (N \cup {m}) = A \cup B
  BY <1>1, <1>2
<1>10. Cardinality(A \cup B) = Cardinality(A) + Cardinality(A)
  BY <1>5, <1>6, <1>7, <1>8
<1> QED BY <1>9, <1>10 DEF A

(* The powers of two double.  Powers are known to the provers only from the
   size of a power set. *)
LEMMA PowersDouble ==
  /\ 2^0 = 1
  /\ \A n \in Nat : 2^n \in Nat \ {0} /\ 2^(n + 1) = 2 * 2^n
<1>1. ASSUME NEW n \in Nat
      PROVE  Cardinality(SUBSET (1 .. n)) = 2^n /\ 2^n \in Nat
  <2>1. IsFiniteSet(1 .. n) /\ Cardinality(1 .. n) = n
    BY FS_Interval
  <2> QED BY <2>1, FS_SUBSET, FS_CardinalityType
<1>2. 2^0 = 1
  <2>1. 0 \in Nat /\ SUBSET (1 .. 0) = {{}}
    OBVIOUS
  <2>2. Cardinality({{}}) = 1
    BY FS_Singleton
  <2> QED BY <1>1, <2>1, <2>2
<1>3. ASSUME NEW n \in Nat
      PROVE  2^(n + 1) = 2 * 2^n
  <2> DEFINE m == n + 1
             N == 1 .. n
  <2>1. m \in Nat /\ 1 .. m = N \cup {m} /\ m \notin N
    OBVIOUS
  <2>2. IsFiniteSet(N)
    BY FS_Interval
  <2>3. Cardinality(SUBSET N) = 2^n /\ 2^n \in Nat /\ Cardinality(SUBSET (1 .. m)) = 2^m
    BY <1>1, <2>1
  <2> HIDE DEF m, N
  <2>4. 2^m = 2^n + 2^n
    BY <2>1, <2>2, <2>3, SubsetsDouble
  <2>5. 2^m = 2 * 2^n
    BY <2>3, <2>4
  <2> QED BY <2>5 DEF m
<1>4. \A n \in Nat : 2^n # 0
  <2> DEFINE T == {n \in Nat : 2^n # 0}
  <2>1. 0 \in T
    BY <1>2
  <2>2. ASSUME NEW n \in Nat, n \in T
        PROVE  n + 1 \in T
    <3>1. 2^n \in Nat /\ 2^n # 0 /\ 2^(n + 1) = 2 * 2^n
      BY <1>1, <1>3, <2>2
    <3> QED BY <3>1
  <2>3. \A n \in Nat : n \in T
    <3> HIDE DEF T
    <3> QED BY <2>1, <2>2, NumbersInductive
  <2> QED BY <2>3
<1> QED BY <1>1, <1>2, <1>3, <1>4

-----------------------------------------------------------------------------
(***************************************************************************)
(* Recursive functions on 0 .. n.                                          *)
(***************************************************************************)

(* g follows step from base up to n, as long as it stays in S. *)
Follows(g, n, S, base, step) ==
  /\ g[0] = base
  /\ \A k \in 1 .. n : g[k - 1] \in S => g[k] = step[<<k, g[k - 1]>>]

(* There is such a function. *)
LEMMA RecursionExists ==
  ASSUME NEW S, NEW n \in Nat, NEW base \in S, NEW step \in [(1 .. n) \X S -> S]
  PROVE  \E g \in [0 .. n -> S] : Follows(g, n, S, base, step)
<1> DEFINE T == {m \in Nat : m <= n => \E g \in [0 .. m -> S] : Follows(g, m, S, base, step)}
<1>1. 0 \in T
  <2> DEFINE g == [k \in 0 .. 0 |-> base]
  <2>1. g \in [0 .. 0 -> S] /\ Follows(g, 0, S, base, step)
    BY DEF Follows
  <2> QED BY <2>1
<1>2. ASSUME NEW m \in Nat, m \in T
      PROVE  m + 1 \in T
  <2> SUFFICES ASSUME m + 1 <= n
               PROVE  \E g \in [0 .. m + 1 -> S] : Follows(g, m + 1, S, base, step)
    OBVIOUS
  <2>1. PICK h \in [0 .. m -> S] : Follows(h, m, S, base, step)
    BY <1>2
  <2>2. m \in 0 .. m /\ h[m] \in S /\ m + 1 \in 1 .. n
    OBVIOUS
  <2>3. step[<<m + 1, h[m]>>] \in S
    BY <2>2
  <2> DEFINE g == [k \in 0 .. m + 1 |-> IF k = m + 1 THEN step[<<m + 1, h[m]>>] ELSE h[k]]
  <2>4. g \in [0 .. m + 1 -> S]
    BY <2>3
  <2>5. g[0] = base
    BY <2>1 DEF Follows
  <2>6. ASSUME NEW k \in 1 .. m + 1, g[k - 1] \in S
        PROVE  g[k] = step[<<k, g[k - 1]>>]
    <3>1. g[k - 1] = h[k - 1] /\ k - 1 \in 0 .. m
      OBVIOUS
    <3>2. CASE k = m + 1
      <4>1. g[k] = step[<<m + 1, h[m]>>] /\ g[k - 1] = h[m]
        BY <3>1, <3>2
      <4> HIDE DEF g
      <4> QED BY <3>2, <4>1
    <3>3. CASE k # m + 1
      <4>1. k \in 1 .. m /\ g[k] = h[k] /\ h[k - 1] \in S
        BY <3>1, <3>3
      <4>2. h[k] = step[<<k, h[k - 1]>>]
        BY <2>1, <4>1 DEF Follows
      <4>3. step[<<k, h[k - 1]>>] = step[<<k, g[k - 1]>>]
        BY <3>1
      <4> HIDE DEF g
      <4> QED BY <4>1, <4>2, <4>3
    <3> QED BY <3>2, <3>3
  <2> HIDE DEF g
  <2> QED BY <2>4, <2>5, <2>6 DEF Follows
<1> HIDE DEF T
<1>3. n \in T
  BY <1>1, <1>2, NumbersInductive
<1> QED BY <1>3 DEF T

(* It is the only one, and a function that follows the step only part of
   the way agrees with it so far. *)
LEMMA RecursionUnique ==
  ASSUME NEW S, NEW n, NEW base, NEW step, NEW g, Follows(g, n, S, base, step),
         NEW m, NEW h, Follows(h, m, S, base, step),
         n \in Nat, g \in [0 .. n -> S], m \in 0 .. n
  PROVE  \A k \in 0 .. m : h[k] = g[k]
<1> DEFINE T == {k \in Nat : k <= m => h[k] = g[k]}
<1>1. 0 \in T
  BY DEF Follows
<1>2. ASSUME NEW k \in Nat, k \in T
      PROVE  k + 1 \in T
  <2> SUFFICES ASSUME k + 1 <= m
               PROVE  h[k + 1] = g[k + 1]
    OBVIOUS
  <2>1. k + 1 \in 1 .. m /\ k + 1 \in 1 .. n /\ (k + 1) - 1 = k /\ k \in 0 .. n
    OBVIOUS
  <2>2. h[k] = g[k] /\ g[k] \in S
    BY <1>2, <2>1
  <2>3. h[k + 1] = step[<<k + 1, h[k]>>]
    BY <2>1, <2>2 DEF Follows
  <2>4. g[k + 1] = step[<<k + 1, g[k]>>]
    BY <2>1, <2>2 DEF Follows
  <2> QED BY <2>2, <2>3, <2>4
<1> HIDE DEF T
<1>3. \A k \in Nat : k \in T
  BY <1>1, <1>2, NumbersInductive
<1> QED BY <1>3 DEF T
=============================================================================
