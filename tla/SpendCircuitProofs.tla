------------------------- MODULE SpendCircuitProofs --------------------------
(***************************************************************************)
(* What satisfied constraints of the issue and spend circuits say, for     *)
(* every key, every width of a balance and whatever a prover puts on the   *)
(* wires: the statements in terms of the native messages and hashes, and   *)
(* the two additions over the integers.                                    *)
(***************************************************************************)
EXTENDS SpendCircuit, SumTheorems, SequenceTheorems

-----------------------------------------------------------------------------
(***************************************************************************)
(* Elements of GF(16) and their bits.                                      *)
(***************************************************************************)

(* The powers of two that occur in a byte. *)
LEMMA SmallPowers ==
  /\ 2^0 = 1 /\ 2^1 = 2 /\ 2^2 = 4 /\ 2^3 = 8
  /\ 2^4 = 16 /\ 2^5 = 32 /\ 2^6 = 64 /\ 2^7 = 128
<1>1. \A n \in Nat : 2^(n + 1) = 2 * 2^n
  BY PowersDouble
<1>2. 2^0 = 1
  BY PowersDouble
<1>3. 2^(0 + 1) = 2 * 2^0 /\ 2^(1 + 1) = 2 * 2^1 /\ 2^(2 + 1) = 2 * 2^2 /\ 2^(3 + 1) = 2 * 2^3
  BY ONLY <1>1
<1>4. 2^(4 + 1) = 2 * 2^4 /\ 2^(5 + 1) = 2 * 2^5 /\ 2^(6 + 1) = 2 * 2^6
  BY ONLY <1>1
<1>5. /\ 0 + 1 = 1 /\ 1 + 1 = 2 /\ 2 + 1 = 3 /\ 3 + 1 = 4
      /\ 4 + 1 = 5 /\ 5 + 1 = 6 /\ 6 + 1 = 7
  OBVIOUS
<1>6. 2^1 = 2 /\ 2^2 = 4 /\ 2^3 = 8
  BY <1>2, <1>3, <1>5
<1>7. 2^4 = 16 /\ 2^5 = 32
  BY <1>3, <1>4, <1>5, <1>6
<1>8. 2^6 = 64 /\ 2^7 = 128
  BY <1>4, <1>5, <1>7
<1> QED
  BY <1>2, <1>6, <1>7, <1>8

(* The bits of an element. *)
LEMMA ElementBits ==
  ASSUME NEW x \in GF
  PROVE  /\ BitsOf(x) \subseteq 0 .. 3
         /\ 0 \in BitsOf(x) <=> x % 2 = 1
         /\ 1 \in BitsOf(x) <=> (x \div 2) % 2 = 1
         /\ 2 \in BitsOf(x) <=> (x \div 4) % 2 = 1
         /\ 3 \in BitsOf(x) <=> (x \div 8) % 2 = 1
<1>1. x \in 0 .. 15
  BY DEF GF
<1>2. /\ x \div 1 = x /\ (x \div 16) % 2 = 0 /\ (x \div 32) % 2 = 0
      /\ (x \div 64) % 2 = 0 /\ (x \div 128) % 2 = 0
  BY <1>1
<1>3. \A e \in 0 .. 7 : e \in BitsOf(x) <=> (x \div 2^e) % 2 = 1
  BY DEF BitsOf
<1>4. /\ 0 \in BitsOf(x) <=> (x \div 1) % 2 = 1
      /\ 1 \in BitsOf(x) <=> (x \div 2) % 2 = 1
      /\ 2 \in BitsOf(x) <=> (x \div 4) % 2 = 1
      /\ 3 \in BitsOf(x) <=> (x \div 8) % 2 = 1
      /\ 4 \in BitsOf(x) <=> (x \div 16) % 2 = 1
      /\ 5 \in BitsOf(x) <=> (x \div 32) % 2 = 1
      /\ 6 \in BitsOf(x) <=> (x \div 64) % 2 = 1
      /\ 7 \in BitsOf(x) <=> (x \div 128) % 2 = 1
  <2>1. /\ 0 \in BitsOf(x) <=> (x \div 2^0) % 2 = 1
        /\ 1 \in BitsOf(x) <=> (x \div 2^1) % 2 = 1
        /\ 2 \in BitsOf(x) <=> (x \div 2^2) % 2 = 1
        /\ 3 \in BitsOf(x) <=> (x \div 2^3) % 2 = 1
        /\ 4 \in BitsOf(x) <=> (x \div 2^4) % 2 = 1
        /\ 5 \in BitsOf(x) <=> (x \div 2^5) % 2 = 1
        /\ 6 \in BitsOf(x) <=> (x \div 2^6) % 2 = 1
        /\ 7 \in BitsOf(x) <=> (x \div 2^7) % 2 = 1
    BY <1>3
  <2> QED
    BY ONLY <2>1, SmallPowers
<1>5. BitsOf(x) \subseteq 0 .. 7
  BY DEF BitsOf
<1>6. \A e \in BitsOf(x) : e \notin {4, 5, 6, 7}
  BY ONLY <1>2, <1>4
<1>7. BitsOf(x) \subseteq 0 .. 3
  BY ONLY <1>5, <1>6
<1> QED
  BY <1>2, <1>4, <1>7

(* A sum of a set is a sum of the identity. *)
LEMMA SumSetIsSum ==
  ASSUME NEW S
  PROVE  SumSet(S) = SumFunctionOnSet([x \in S |-> x], S)
  BY DEF SumSet, FoldSet, MapThenFoldSet, SumFunctionOnSet, FoldFunctionOnSet

(* A number can be split off the sum of a finite set of numbers. *)
LEMMA SumSetSplit ==
  ASSUME NEW S, IsFiniteSet(S), S \subseteq Int, NEW x \in Int
  PROVE  /\ SumSet(S) = (IF x \in S THEN x ELSE 0) + SumSet(S \ {x})
         /\ SumSet(S) \in Int /\ SumSet(S \ {x}) \in Int
<1> DEFINE R == S \ {x}
           f == [y \in S |-> y]
           g == [y \in R |-> y]
<1>1. IsFiniteSet(R)
  BY FS_Subset
<1>2. SumSet(S) = SumFunctionOnSet(f, S) /\ SumSet(R) = SumFunctionOnSet(g, R)
  BY SumSetIsSum
<1>3. \A y \in S : f[y] = y /\ f[y] \in Int
  OBVIOUS
<1>4. \A y \in R : f[y] = g[y]
  OBVIOUS
<1>5. DOMAIN f = S /\ R \subseteq S /\ (x \in S => f[x] = x) /\ (x \notin S => R = S)
  OBVIOUS
<1> HIDE DEF R, f, g
<1>6. SumFunctionOnSet(f, R) = SumFunctionOnSet(g, R)
  BY <1>1, <1>4, SumAgrees
<1>7. CASE x \in S
  <2>1. /\ SumFunctionOnSet(f, S) = f[x] + SumFunctionOnSet(f, S \ {x})
        /\ SumFunctionOnSet(f, S) \in Int
        /\ SumFunctionOnSet(f, S \ {x}) \in Int
    BY <1>3, <1>7, SumSplit
  <2>2. SumSet(S) = x + SumSet(R) /\ SumSet(S) \in Int /\ SumSet(R) \in Int
    BY <1>2, <1>5, <1>6, <1>7, <2>1 DEF R
  <2> QED
    BY <1>7, <2>2 DEF R
<1>8. CASE x \notin S
  <2>1. SumFunction(f) \in Int
    BY <1>3, <1>5, SumIsInteger
  <2>2. SumFunctionOnSet(f, S) \in Int
    BY <1>5, <2>1 DEF SumFunction
  <2>3. S \ {x} = S
    BY <1>8
  <2>4. SumSet(S) \in Int
    BY <1>2, <2>2
  <2>5. SumSet(S \ {x}) = SumSet(S)
    BY ONLY <2>3
  <2>6. (IF x \in S THEN x ELSE 0) = 0
    BY <1>8
  <2> QED
    BY ONLY <2>4, <2>5, <2>6
<1> QED
  BY <1>7, <1>8

(* The same for a set whose rest has a name. *)
LEMMA SumSetWithout ==
  \A S, R, x :
    IsFiniteSet(S) /\ S \subseteq Int /\ x \in Int /\ R = S \ {x} =>
      /\ x \in S => SumSet(S) = x + SumSet(R)
      /\ x \notin S => SumSet(S) = SumSet(R)
      /\ SumSet(R) \in Int
<1> SUFFICES ASSUME NEW S, NEW R, NEW x,
                    IsFiniteSet(S), S \subseteq Int, x \in Int, R = S \ {x}
             PROVE  /\ x \in S => SumSet(S) = x + SumSet(R)
                    /\ x \notin S => SumSet(S) = SumSet(R)
                    /\ SumSet(R) \in Int
  OBVIOUS
<1>1. /\ SumSet(S) = (IF x \in S THEN x ELSE 0) + SumSet(S \ {x})
      /\ SumSet(S \ {x}) \in Int
  BY SumSetSplit
<1>2. SumSet(R) = SumSet(S \ {x})
  OBVIOUS
<1> QED
  BY <1>1, <1>2

(* The sum of up to four powers of two, with or without 0. *)
LEMMA SumOfPowers ==
  ASSUME NEW S, S \subseteq {0, 1, 2, 4, 8}
  PROVE  SumSet(S) = (IF 1 \in S THEN 1 ELSE 0) + (IF 2 \in S THEN 2 ELSE 0)
                       + (IF 4 \in S THEN 4 ELSE 0) + (IF 8 \in S THEN 8 ELSE 0)
<1> DEFINE S1 == S \ {1}
           S2 == S1 \ {2}
           S4 == S2 \ {4}
           S8 == S4 \ {8}
           S0 == S8 \ {0}
<1>1. /\ IsFiniteSet(S) /\ IsFiniteSet(S1) /\ IsFiniteSet(S2) /\ IsFiniteSet(S4)
      /\ IsFiniteSet(S8) /\ IsFiniteSet(S0)
  <2>1. IsFiniteSet({0, 1, 2, 4, 8})
    <3>1. 0 \in Int /\ 8 \in Int /\ {0, 1, 2, 4, 8} \subseteq 0 .. 8
      OBVIOUS
    <3>2. IsFiniteSet(0 .. 8)
      BY ONLY <3>1, FS_Interval
    <3> QED
      BY ONLY <3>1, <3>2, FS_Subset
  <2>2. S1 \subseteq S /\ S2 \subseteq S /\ S4 \subseteq S /\ S8 \subseteq S /\ S0 \subseteq S
    OBVIOUS
  <2> HIDE DEF S1, S2, S4, S8, S0
  <2>3. IsFiniteSet(S)
    BY <2>1, FS_Subset
  <2> QED
    BY <2>2, <2>3, FS_Subset
<1>2. /\ S \subseteq Int /\ S1 \subseteq Int /\ S2 \subseteq Int /\ S4 \subseteq Int
      /\ S8 \subseteq Int
  OBVIOUS
<1>3. /\ 2 \in S1 <=> 2 \in S
      /\ 4 \in S2 <=> 4 \in S
      /\ 8 \in S4 <=> 8 \in S
      /\ S0 = {}
  OBVIOUS
<1>4. 0 \in Int /\ 1 \in Int /\ 2 \in Int /\ 4 \in Int /\ 8 \in Int
  OBVIOUS
<1>11. S1 = S \ {1} /\ S2 = S1 \ {2} /\ S4 = S2 \ {4} /\ S8 = S4 \ {8} /\ S0 = S8 \ {0}
  OBVIOUS
<1> HIDE DEF S1, S2, S4, S8, S0
<1>5. SumSet(S) = (IF 1 \in S THEN 1 ELSE 0) + SumSet(S1) /\ SumSet(S1) \in Int
  <2>1. IsFiniteSet(S) /\ S \subseteq Int /\ 1 \in Int /\ S1 = S \ {1}
    BY ONLY <1>1, <1>2, <1>4, <1>11
  <2>2. /\ 1 \in S => SumSet(S) = 1 + SumSet(S1)
        /\ 1 \notin S => SumSet(S) = SumSet(S1)
        /\ SumSet(S1) \in Int
    BY ONLY <2>1, SumSetWithout
  <2> QED
    BY ONLY <2>2
<1>6. SumSet(S1) = (IF 2 \in S1 THEN 2 ELSE 0) + SumSet(S2) /\ SumSet(S2) \in Int
  <2>1. IsFiniteSet(S1) /\ S1 \subseteq Int /\ 2 \in Int /\ S2 = S1 \ {2}
    BY ONLY <1>1, <1>2, <1>4, <1>11
  <2>2. /\ 2 \in S1 => SumSet(S1) = 2 + SumSet(S2)
        /\ 2 \notin S1 => SumSet(S1) = SumSet(S2)
        /\ SumSet(S2) \in Int
    BY ONLY <2>1, SumSetWithout
  <2> QED
    BY ONLY <2>2
<1>7. SumSet(S2) = (IF 4 \in S2 THEN 4 ELSE 0) + SumSet(S4) /\ SumSet(S4) \in Int
  <2>1. IsFiniteSet(S2) /\ S2 \subseteq Int /\ 4 \in Int /\ S4 = S2 \ {4}
    BY ONLY <1>1, <1>2, <1>4, <1>11
  <2>2. /\ 4 \in S2 => SumSet(S2) = 4 + SumSet(S4)
        /\ 4 \notin S2 => SumSet(S2) = SumSet(S4)
        /\ SumSet(S4) \in Int
    BY ONLY <2>1, SumSetWithout
  <2> QED
    BY ONLY <2>2
<1>8. SumSet(S4) = (IF 8 \in S4 THEN 8 ELSE 0) + SumSet(S8) /\ SumSet(S8) \in Int
  <2>1. IsFiniteSet(S4) /\ S4 \subseteq Int /\ 8 \in Int /\ S8 = S4 \ {8}
    BY ONLY <1>1, <1>2, <1>4, <1>11
  <2>2. /\ 8 \in S4 => SumSet(S4) = 8 + SumSet(S8)
        /\ 8 \notin S4 => SumSet(S4) = SumSet(S8)
        /\ SumSet(S8) \in Int
    BY ONLY <2>1, SumSetWithout
  <2> QED
    BY ONLY <2>2
<1>9. SumSet(S8) = (IF 0 \in S8 THEN 0 ELSE 0) + SumSet(S0) /\ SumSet(S0) \in Int
  <2>1. IsFiniteSet(S8) /\ S8 \subseteq Int /\ 0 \in Int /\ S0 = S8 \ {0}
    BY ONLY <1>1, <1>2, <1>4, <1>11
  <2>2. /\ 0 \in S8 => SumSet(S8) = 0 + SumSet(S0)
        /\ 0 \notin S8 => SumSet(S8) = SumSet(S0)
        /\ SumSet(S0) \in Int
    BY ONLY <2>1, SumSetWithout
  <2> QED
    BY ONLY <2>2
<1>10. SumSet({}) = 0
  BY SumSetIsSum, SumEmpty
<1> QED
  BY ONLY <1>3, <1>5, <1>6, <1>7, <1>8, <1>9, <1>10

(* The element with given bits. *)
LEMMA ElementOfBits ==
  ASSUME NEW S, S \subseteq 0 .. 3
  PROVE  /\ Value(S) = (IF 0 \in S THEN 1 ELSE 0) + (IF 1 \in S THEN 2 ELSE 0)
                         + (IF 2 \in S THEN 4 ELSE 0) + (IF 3 \in S THEN 8 ELSE 0)
         /\ Value(S) \in GF
         /\ BitsOf(Value(S)) = S
<1> DEFINE T == {2^e : e \in S}
<1>1. \A e \in S : \/ e = 0 /\ 2^e = 1
                   \/ e = 1 /\ 2^e = 2
                   \/ e = 2 /\ 2^e = 4
                   \/ e = 3 /\ 2^e = 8
  <2> SUFFICES ASSUME NEW e \in S
               PROVE  \/ e = 0 /\ 2^e = 1
                      \/ e = 1 /\ 2^e = 2
                      \/ e = 2 /\ 2^e = 4
                      \/ e = 3 /\ 2^e = 8
    OBVIOUS
  <2>1. e = 0 \/ e = 1 \/ e = 2 \/ e = 3
    OBVIOUS
  <2> QED
    BY ONLY <2>1, SmallPowers
<1>2. T \subseteq {0, 1, 2, 4, 8}
  BY <1>1
<1>3. /\ (1 \in T <=> 0 \in S) /\ (2 \in T <=> 1 \in S)
      /\ (4 \in T <=> 2 \in S) /\ (8 \in T <=> 3 \in S)
  <2>1. \A p : p \in T <=> \E e \in S : p = 2^e
    OBVIOUS
  <2> HIDE DEF T
  <2> QED
    BY ONLY <1>1, <2>1
<1>4. Value(S) = SumSet(T)
  BY DEF Value
<1> HIDE DEF T
<1>5. Value(S) = (IF 0 \in S THEN 1 ELSE 0) + (IF 1 \in S THEN 2 ELSE 0)
                   + (IF 2 \in S THEN 4 ELSE 0) + (IF 3 \in S THEN 8 ELSE 0)
  <2>1. SumSet(T) = (IF 1 \in T THEN 1 ELSE 0) + (IF 2 \in T THEN 2 ELSE 0)
                      + (IF 4 \in T THEN 4 ELSE 0) + (IF 8 \in T THEN 8 ELSE 0)
    BY ONLY <1>2, SumOfPowers
  <2> QED
    BY ONLY <1>3, <1>4, <2>1
<1>6. Value(S) \in GF
  BY <1>5 DEF GF
<1> DEFINE x == Value(S)
<1>7. /\ x % 2 = 1 <=> 0 \in S
      /\ (x \div 2) % 2 = 1 <=> 1 \in S
      /\ (x \div 4) % 2 = 1 <=> 2 \in S
      /\ (x \div 8) % 2 = 1 <=> 3 \in S
  BY ONLY <1>5
<1> HIDE DEF x
<1>8. \A e \in 0 .. 3 : e \in BitsOf(x) <=> e \in S
  BY <1>6, <1>7, ElementBits DEF x
<1>9. BitsOf(x) \subseteq 0 .. 3
  BY <1>6, ElementBits DEF x
<1> QED
  BY <1>5, <1>6, <1>8, <1>9 DEF x

(* An element is that of its bits. *)
LEMMA BitsDetermine ==
  ASSUME NEW x \in GF
  PROVE  Value(BitsOf(x)) = x
<1> DEFINE S == BitsOf(x)
<1>1. /\ S \subseteq 0 .. 3
      /\ 0 \in S <=> x % 2 = 1
      /\ 1 \in S <=> (x \div 2) % 2 = 1
      /\ 2 \in S <=> (x \div 4) % 2 = 1
      /\ 3 \in S <=> (x \div 8) % 2 = 1
  BY ElementBits
<1> HIDE DEF S
<1>2. Value(S) = (IF 0 \in S THEN 1 ELSE 0) + (IF 1 \in S THEN 2 ELSE 0)
                   + (IF 2 \in S THEN 4 ELSE 0) + (IF 3 \in S THEN 8 ELSE 0)
  BY <1>1, ElementOfBits
<1>3. x \in 0 .. 15
  BY DEF GF
<1>4. Value(S) = x
  BY ONLY <1>1, <1>2, <1>3
<1> QED
  BY <1>4 DEF S

-----------------------------------------------------------------------------
(***************************************************************************)
(* Addition and multiplication, as far as sums of terms need them.         *)
(***************************************************************************)

(* Addition is the exclusive or of the bits. *)
LEMMA AdditionOfBits ==
  ASSUME NEW x \in GF, NEW y \in GF
  PROVE  /\ x ++ y = Value(SymDiff(BitsOf(x), BitsOf(y)))
         /\ x ++ y \in GF
         /\ BitsOf(x ++ y) = SymDiff(BitsOf(x), BitsOf(y))
<1>1. x ++ y = Value(SymDiff(BitsOf(x), BitsOf(y)))
  BY DEF ++, AddTable
<1>2. BitsOf(x) \subseteq 0 .. 3 /\ BitsOf(y) \subseteq 0 .. 3
  BY ElementBits
<1>3. SymDiff(BitsOf(x), BitsOf(y)) \subseteq 0 .. 3
  BY <1>2 DEF SymDiff
<1> QED
  BY <1>1, <1>3, ElementOfBits

(* Zero has no bits and is neutral. *)
LEMMA AdditionOfZero ==
  /\ 0 \in GF /\ BitsOf(0) = {}
  /\ \A x \in GF : x ++ 0 = x /\ 0 ++ x = x
<1>1. 0 \in GF
  BY DEF GF
<1>2. BitsOf(0) = {}
  <2>1. 0 \notin BitsOf(0) /\ 1 \notin BitsOf(0) /\ 2 \notin BitsOf(0) /\ 3 \notin BitsOf(0)
    BY <1>1, ElementBits
  <2>2. BitsOf(0) \subseteq 0 .. 3
    BY <1>1, ElementBits
  <2> QED
    BY <2>1, <2>2
<1>3. ASSUME NEW x \in GF
      PROVE  x ++ 0 = x /\ 0 ++ x = x
  <2>1. SymDiff(BitsOf(x), {}) = BitsOf(x) /\ SymDiff({}, BitsOf(x)) = BitsOf(x)
    BY DEF SymDiff
  <2> QED
    BY <1>1, <1>2, <2>1, AdditionOfBits, BitsDetermine
<1> QED
  BY <1>1, <1>2, <1>3

(* Addition is associative. *)
LEMMA AdditionAssociates ==
  ASSUME NEW x \in GF, NEW y \in GF, NEW z \in GF
  PROVE  (x ++ y) ++ z = x ++ (y ++ z)
<1>1. x ++ y \in GF /\ y ++ z \in GF
  BY AdditionOfBits
<1>2. (x ++ y) ++ z = Value(SymDiff(SymDiff(BitsOf(x), BitsOf(y)), BitsOf(z)))
  BY <1>1, AdditionOfBits
<1>3. x ++ (y ++ z) = Value(SymDiff(BitsOf(x), SymDiff(BitsOf(y), BitsOf(z))))
  BY <1>1, AdditionOfBits
<1>4. SymDiff(SymDiff(BitsOf(x), BitsOf(y)), BitsOf(z))
        = SymDiff(BitsOf(x), SymDiff(BitsOf(y), BitsOf(z)))
  BY DEF SymDiff
<1> QED
  BY <1>2, <1>3, <1>4

(* A fold of nothing. *)
EmptyFold(b, fold) ==
  fold = [s \in SUBSET b |->
            IF s = {} THEN {}
            ELSE SymDiff(fold[s \ {CHOOSE x \in s : TRUE}], Shift({}, CHOOSE x \in s : TRUE))]

(* It folds nothing to nothing. *)
LEMMA EmptyFoldIsEmpty ==
  ASSUME NEW b, IsFiniteSet(b)
  PROVE  XorFold(b, LAMBDA i : Shift({}, i)) = {}
<1> DEFINE g == [s \in SUBSET b |-> {}]
           f == CHOOSE fold : EmptyFold(b, fold)
<1>1. \A i : Shift({}, i) = {}
  BY DEF Shift
<1>2. EmptyFold(b, g)
  BY <1>1 DEF EmptyFold, SymDiff
<1>3. EmptyFold(b, f)
  BY <1>2
<1>4. XorFold(b, LAMBDA i : Shift({}, i)) = f[b]
  BY DEF XorFold, FoldSet, MapThenFoldSet, EmptyFold
<1> HIDE DEF f
<1> DEFINE Good == {s \in SUBSET b : f[s] = {}}
<1>5. {} \in Good
  BY <1>3 DEF EmptyFold
<1>6. ASSUME NEW s \in SUBSET b, s # {}, \A x \in s : s \ {x} \in Good
      PROVE  s \in Good
  <2> DEFINE x == CHOOSE x \in s : TRUE
  <2>1. x \in s
    BY <1>6
  <2>2. f[s \ {x}] = {}
    BY <1>6, <2>1
  <2>3. f[s] = SymDiff(f[s \ {x}], Shift({}, x))
    BY <1>3, <1>6 DEF EmptyFold
  <2> QED
    BY <1>1, <2>2, <2>3 DEF SymDiff
<1> HIDE DEF Good
<1>7. b \in Good
  BY <1>5, <1>6, SizeInductive
<1> QED
  BY <1>4, <1>7 DEF Good

(* Products are elements, and a product with zero is zero. *)
LEMMA Products ==
  /\ \A x, y \in GF : x ** y \in GF
  /\ \A y \in GF : 0 ** y = 0
<1>1. \A x, y \in GF : x ** y = Value(MulInternal(BitsOf(x), BitsOf(y)))
  BY DEF **, MulTable
<1>2. ASSUME NEW x \in GF, NEW y \in GF
      PROVE  x ** y \in GF
  <2>1. MulInternal(BitsOf(x), BitsOf(y)) \subseteq 0 .. 3
    BY DEF MulInternal
  <2> QED
    BY <1>1, <2>1, ElementOfBits
<1>3. ASSUME NEW y \in GF
      PROVE  0 ** y = 0
  <2> DEFINE b == BitsOf(y)
  <2>1. IsFiniteSet(b)
    <3>1. b \subseteq 0 .. 3
      BY ElementBits
    <3>2. 0 \in Int /\ 3 \in Int
      OBVIOUS
    <3>3. IsFiniteSet(0 .. 3)
      BY ONLY <3>2, FS_Interval
    <3> HIDE DEF b
    <3> QED
      BY ONLY <3>1, <3>3, FS_Subset
  <2>2. XorFold(b, LAMBDA i : Shift({}, i)) = {}
    <3> HIDE DEF b
    <3> QED
      BY <2>1, EmptyFoldIsEmpty
  <2>3. MulInternal({}, b) = Reduce(Reduce(Reduce({}, 6), 5), 4) \cap 0 .. 3
    BY <2>2 DEF MulInternal
  <2>4. \A j : Reduce({}, j) = {}
    BY DEF Reduce
  <2>5. MulInternal({}, b) = {}
    BY <2>3, <2>4
  <2>6. Value({}) = 0
    BY AdditionOfZero, BitsDetermine
  <2>7. 0 ** y = Value(MulInternal(BitsOf(0), b))
    BY <1>1, AdditionOfZero
  <2> QED
    BY <2>5, <2>6, <2>7, AdditionOfZero
<1> QED
  BY <1>2, <1>3

-----------------------------------------------------------------------------
(***************************************************************************)
(* Sums of elements.                                                       *)
(***************************************************************************)

(* f[0] + ... + f[n - 1]. *)
GFTotal(f, n) == GFSum(n, LAMBDA k : f[k])

(* The first n values of f are elements. *)
Elements(f, n) == \A k \in 0 .. n - 1 : f[k] \in GF

(* The equation of the function in GFSum. *)
TotalsOf(f, n, u) == u = [k \in 0 .. n |-> IF k = 0 THEN 0 ELSE u[k - 1] ++ f[k - 1]]

(* One function holds all totals up to n. *)
LEMMA TotalsExist ==
  ASSUME NEW n \in Nat, NEW f, Elements(f, n)
  PROVE  \E g \in [0 .. n -> GF] :
           /\ g[0] = 0
           /\ \A k \in 1 .. n : g[k] = g[k - 1] ++ f[k - 1]
           /\ \A m \in 0 .. n : GFTotal(f, m) = g[m]
<1> DEFINE step == [p \in (1 .. n) \X GF |-> p[2] ++ f[p[1] - 1]]
<1>1. 0 \in GF
  BY AdditionOfZero
<1>2. step \in [(1 .. n) \X GF -> GF]
  <2> SUFFICES ASSUME NEW p \in (1 .. n) \X GF
               PROVE  p[2] ++ f[p[1] - 1] \in GF
    OBVIOUS
  <2>1. p[2] \in GF /\ p[1] - 1 \in 0 .. n - 1
    OBVIOUS
  <2>2. f[p[1] - 1] \in GF
    BY <2>1 DEF Elements
  <2> QED
    BY <2>1, <2>2, AdditionOfBits
<1>3. \A k \in 1 .. n, x \in GF : step[<<k, x>>] = x ++ f[k - 1]
  OBVIOUS
<1> HIDE DEF step
<1>4. PICK g \in [0 .. n -> GF] : Follows(g, n, GF, 0, step)
  BY <1>1, <1>2, RecursionExists
<1>5. g[0] = 0 /\ \A k \in 1 .. n : g[k] = g[k - 1] ++ f[k - 1]
  <2>1. \A k \in 1 .. n : k - 1 \in 0 .. n
    OBVIOUS
  <2> QED
    BY <1>3, <1>4, <2>1 DEF Follows
<1>6. ASSUME NEW m \in 0 .. n
      PROVE  GFTotal(f, m) = g[m]
  <2> DEFINE u == CHOOSE u : TotalsOf(f, m, u)
             h == [k \in 0 .. m |-> g[k]]
  <2>1. TotalsOf(f, m, h)
    <3>1. ASSUME NEW k \in 0 .. m
          PROVE  h[k] = IF k = 0 THEN 0 ELSE h[k - 1] ++ f[k - 1]
      <4>1. k # 0 => k \in 1 .. n /\ k - 1 \in 0 .. m
        OBVIOUS
      <4> QED
        BY <1>5, <4>1
    <3>2. h = [k \in 0 .. m |-> IF k = 0 THEN 0 ELSE h[k - 1] ++ f[k - 1]]
      BY <3>1
    <3> HIDE DEF h
    <3> QED
      BY <3>2 DEF TotalsOf
  <2>2. TotalsOf(f, m, u)
    BY <2>1
  <2>3. GFTotal(f, m) = u[m]
    BY DEF GFTotal, GFSum, TotalsOf
  <2> HIDE DEF u
  <2>4. Follows(u, m, GF, 0, step)
    <3>1. u = [k \in 0 .. m |-> IF k = 0 THEN 0 ELSE u[k - 1] ++ f[k - 1]]
      BY <2>2 DEF TotalsOf
    <3>2. u[0] = 0 /\ \A k \in 1 .. m : u[k] = u[k - 1] ++ f[k - 1]
      BY <3>1
    <3>3. \A k \in 1 .. m : k \in 1 .. n
      OBVIOUS
    <3> QED
      BY <1>3, <3>2, <3>3 DEF Follows
  <2>5. \A k \in 0 .. m : u[k] = g[k]
    BY <1>4, <2>4, RecursionUnique
  <2> QED
    BY <2>3, <2>5
<1> QED
  BY <1>5, <1>6

(* A total is 0 or the total before and one more element. *)
LEMMA TotalSteps ==
  ASSUME NEW n \in Nat, NEW f, Elements(f, n)
  PROVE  /\ GFTotal(f, 0) = 0
         /\ \A m \in 0 .. n : GFTotal(f, m) \in GF
         /\ \A m \in 0 .. n - 1 : GFTotal(f, m + 1) = GFTotal(f, m) ++ f[m]
<1>1. PICK g \in [0 .. n -> GF] :
           /\ g[0] = 0
           /\ \A k \in 1 .. n : g[k] = g[k - 1] ++ f[k - 1]
           /\ \A m \in 0 .. n : GFTotal(f, m) = g[m]
  BY TotalsExist
<1>2. 0 \in 0 .. n
  OBVIOUS
<1>3. ASSUME NEW m \in 0 .. n - 1
      PROVE  GFTotal(f, m + 1) = GFTotal(f, m) ++ f[m]
  <2>1. m + 1 \in 1 .. n /\ m + 1 \in 0 .. n /\ m \in 0 .. n /\ (m + 1) - 1 = m
    OBVIOUS
  <2>2. GFTotal(f, m + 1) = g[m + 1] /\ GFTotal(f, m) = g[m]
    BY <1>1, <2>1
  <2>3. g[m + 1] = g[(m + 1) - 1] ++ f[(m + 1) - 1]
    BY <1>1, <2>1
  <2> QED
    BY <2>1, <2>2, <2>3
<1> QED
  BY <1>1, <1>2, <1>3

(* Sums of the same elements. *)
LEMMA TotalsAgree ==
  ASSUME NEW n \in Nat, NEW f, NEW g, \A k \in 0 .. n - 1 : f[k] = g[k] /\ f[k] \in GF
  PROVE  GFTotal(f, n) = GFTotal(g, n)
<1> DEFINE T == {m \in Nat : m <= n => GFTotal(f, m) = GFTotal(g, m)}
<1>1. /\ GFTotal(f, 0) = 0 /\ GFTotal(g, 0) = 0
      /\ \A m \in 0 .. n - 1 : GFTotal(f, m + 1) = GFTotal(f, m) ++ f[m]
      /\ \A m \in 0 .. n - 1 : GFTotal(g, m + 1) = GFTotal(g, m) ++ g[m]
  BY TotalSteps DEF Elements
<1>2. 0 \in T
  BY <1>1
<1>3. ASSUME NEW m \in Nat, m \in T
      PROVE  m + 1 \in T
  <2> SUFFICES ASSUME m + 1 <= n
               PROVE  GFTotal(f, m + 1) = GFTotal(g, m + 1)
    OBVIOUS
  <2>1. m \in 0 .. n - 1 /\ GFTotal(f, m) = GFTotal(g, m)
    BY <1>3
  <2> QED
    BY <1>1, <2>1
<1> HIDE DEF T
<1>4. n \in T
  BY <1>2, <1>3, NumbersInductive
<1> QED
  BY <1>4 DEF T

(* Zeros add up to zero. *)
LEMMA TotalOfZeros ==
  ASSUME NEW n \in Nat, NEW f, \A k \in 0 .. n - 1 : f[k] = 0
  PROVE  GFTotal(f, n) = 0
<1> DEFINE T == {m \in Nat : m <= n => GFTotal(f, m) = 0}
<1>1. 0 \in GF /\ 0 ++ 0 = 0
  BY AdditionOfZero
<1>2. /\ GFTotal(f, 0) = 0
      /\ \A m \in 0 .. n - 1 : GFTotal(f, m + 1) = GFTotal(f, m) ++ f[m]
  BY <1>1, TotalSteps DEF Elements
<1>3. 0 \in T
  BY <1>2
<1>4. ASSUME NEW m \in Nat, m \in T
      PROVE  m + 1 \in T
  <2> SUFFICES ASSUME m + 1 <= n
               PROVE  GFTotal(f, m + 1) = 0
    OBVIOUS
  <2>1. m \in 0 .. n - 1 /\ GFTotal(f, m) = 0
    BY <1>4
  <2> QED
    BY <1>1, <1>2, <2>1
<1> HIDE DEF T
<1>5. n \in T
  BY <1>3, <1>4, NumbersInductive
<1> QED
  BY <1>5 DEF T

(* A sum is the sum of its first part and of the rest. *)
LEMMA TotalSplit ==
  ASSUME NEW a \in Nat, NEW n \in Nat, NEW f, NEW g,
         Elements(f, a + n),
         \A k \in 0 .. n - 1 : g[k] = f[a + k]
  PROVE  GFTotal(f, a + n) = GFTotal(f, a) ++ GFTotal(g, n)
<1> DEFINE T == {m \in Nat : m <= n => GFTotal(f, a + m) = GFTotal(f, a) ++ GFTotal(g, m)}
<1>1. a + n \in Nat /\ \A k \in 0 .. n - 1 : a + k \in 0 .. a + n - 1
  OBVIOUS
<1>2. /\ \A m \in 0 .. a + n : GFTotal(f, m) \in GF
      /\ \A m \in 0 .. a + n - 1 : GFTotal(f, m + 1) = GFTotal(f, m) ++ f[m]
  BY <1>1, TotalSteps
<1>3. Elements(g, n)
  BY <1>1 DEF Elements
<1>4. /\ GFTotal(g, 0) = 0
      /\ \A m \in 0 .. n : GFTotal(g, m) \in GF
      /\ \A m \in 0 .. n - 1 : GFTotal(g, m + 1) = GFTotal(g, m) ++ g[m]
  BY <1>3, TotalSteps
<1>5. GFTotal(f, a) \in GF
  <2>1. a \in 0 .. a + n
    OBVIOUS
  <2> QED
    BY <1>2, <2>1
<1>6. 0 \in T
  <2>1. GFTotal(f, a) ++ 0 = GFTotal(f, a) /\ a + 0 = a
    BY <1>5, AdditionOfZero
  <2> QED
    BY <1>4, <2>1
<1>7. ASSUME NEW m \in Nat, m \in T
      PROVE  m + 1 \in T
  <2> SUFFICES ASSUME m + 1 <= n
               PROVE  GFTotal(f, a + (m + 1)) = GFTotal(f, a) ++ GFTotal(g, m + 1)
    OBVIOUS
  <2>1. /\ m \in 0 .. n - 1 /\ m \in 0 .. n /\ a + m \in 0 .. a + n - 1
        /\ a + (m + 1) = (a + m) + 1
        /\ GFTotal(f, a + m) = GFTotal(f, a) ++ GFTotal(g, m)
    BY <1>7
  <2>2. GFTotal(f, (a + m) + 1) = (GFTotal(f, a) ++ GFTotal(g, m)) ++ g[m]
    BY <1>2, <2>1
  <2>3. GFTotal(g, m + 1) = GFTotal(g, m) ++ g[m] /\ GFTotal(g, m) \in GF /\ g[m] \in GF
    BY <1>3, <1>4, <2>1 DEF Elements
  <2>4. (GFTotal(f, a) ++ GFTotal(g, m)) ++ g[m] = GFTotal(f, a) ++ (GFTotal(g, m) ++ g[m])
    BY <1>5, <2>3, AdditionAssociates
  <2> QED
    BY <2>1, <2>2, <2>3, <2>4
<1> HIDE DEF T
<1>8. n \in T
  BY <1>6, <1>7, NumbersInductive
<1> QED
  BY <1>8 DEF T

-----------------------------------------------------------------------------
(***************************************************************************)
(* Sequences: joining them, numbers as bits, nibbles and bytes.            *)
(***************************************************************************)

(* A function on 1 .. n is a sequence of n elements. *)
LEMMA FunctionIsSequence ==
  ASSUME NEW A, NEW n \in Nat, NEW s \in [1 .. n -> A]
  PROVE  s \in Seq(A) /\ Len(s) = n
<1>1. s \in Seq(A)
  BY SeqDef
<1>2. Len(s) \in Nat /\ DOMAIN s = 1 .. Len(s)
  BY <1>1, LenProperties
<1>3. 1 .. Len(s) = 1 .. n
  BY <1>2
<1>4. Len(s) = n
  BY ONLY <1>2, <1>3, n \in Nat
<1> QED
  BY <1>1, <1>4

(* n sequences over A. *)
Chain(seqs, n, A) == seqs \in [1 .. n -> Seq(A)] /\ Len(seqs) = n

(* g[k] joins the first k of them. *)
Joins(g, seqs, n, A) ==
  /\ g \in [1 .. n -> Seq(A)]
  /\ g[1] = seqs[1]
  /\ \A k \in 2 .. n : g[k] = g[k - 1] \o seqs[k]

(* The equation of the function in FlattenSeq. *)
Flattens(u, seqs, n) ==
  u = [i \in 1 .. n |-> IF i = 1 THEN seqs[i] ELSE u[i - 1] \o seqs[i]]

(* FlattenSeq joins them all, one after the other. *)
LEMMA FlattenJoins ==
  ASSUME NEW A, NEW n \in Nat \ {0}, NEW seqs, Chain(seqs, n, A)
  PROVE  \E g : Joins(g, seqs, n, A) /\ FlattenSeq(seqs) = g[n]
<1> DEFINE S == Seq(A)
           m == n - 1
           step == [p \in (1 .. m) \X S |-> p[2] \o seqs[p[1] + 1]]
           u == CHOOSE u : Flattens(u, seqs, n)
<1>1. seqs \in [1 .. n -> S] /\ Len(seqs) = n /\ m \in Nat /\ n = m + 1 /\ 1 \in 1 .. n
  BY DEF Chain
<1>2. seqs[1] \in S
  BY <1>1
<1>3. step \in [(1 .. m) \X S -> S]
  <2> SUFFICES ASSUME NEW p \in (1 .. m) \X S
               PROVE  p[2] \o seqs[p[1] + 1] \in S
    OBVIOUS
  <2>1. p[2] \in S /\ p[1] + 1 \in 1 .. n
    BY <1>1
  <2>2. seqs[p[1] + 1] \in S
    BY <1>1, <2>1
  <2> QED
    BY <2>1, <2>2, ConcatProperties
<1>4. \A k \in 1 .. m, x \in S : step[<<k, x>>] = x \o seqs[k + 1]
  OBVIOUS
<1> HIDE DEF step
<1>5. PICK h \in [0 .. m -> S] : Follows(h, m, S, seqs[1], step)
  BY <1>1, <1>2, <1>3, RecursionExists
<1>6. h[0] = seqs[1] /\ \A k \in 1 .. m : h[k] = h[k - 1] \o seqs[k + 1]
  <2>1. \A k \in 1 .. m : k - 1 \in 0 .. m
    BY <1>1
  <2> QED
    BY <1>4, <1>5, <2>1 DEF Follows
<1> DEFINE g == [k \in 1 .. n |-> h[k - 1]]
<1>7. \A k \in 1 .. n : g[k] = h[k - 1] /\ k - 1 \in 0 .. m
  BY <1>1
<1>8. g \in [1 .. n -> S]
  BY <1>7
<1>9. g[1] = seqs[1]
  BY <1>1, <1>6, <1>7
<1>10. ASSUME NEW k \in 2 .. n
       PROVE  g[k] = g[k - 1] \o seqs[k]
  <2>1. k - 1 \in 1 .. m /\ k \in 1 .. n /\ k - 1 \in 1 .. n /\ (k - 1) + 1 = k
    BY <1>1
  <2>2. g[k] = h[k - 1] /\ g[k - 1] = h[(k - 1) - 1]
    BY <1>7, <2>1
  <2>3. h[k - 1] = h[(k - 1) - 1] \o seqs[(k - 1) + 1]
    BY <1>6, <2>1
  <2> QED
    BY <2>1, <2>2, <2>3
<1> DEFINE Same(k) == IF k = 1 THEN seqs[k] ELSE g[k - 1] \o seqs[k]
<1>11. Flattens(g, seqs, n)
  <2>1. ASSUME NEW k \in 1 .. n
        PROVE  g[k] = IF k = 1 THEN seqs[k] ELSE g[k - 1] \o seqs[k]
    <3>1. k # 1 => k \in 2 .. n
      BY <1>1
    <3> HIDE DEF g
    <3> QED
      BY <1>9, <1>10, <3>1
  <2>2. g = [k \in 1 .. n |-> IF k = 1 THEN seqs[k] ELSE g[k - 1] \o seqs[k]]
    <3>1. g = [k \in 1 .. n |-> g[k]]
      OBVIOUS
    <3> HIDE DEF g
    <3> QED
      BY <2>1, <3>1
  <2> HIDE DEF g
  <2> QED
    BY <2>2 DEF Flattens
<1> HIDE DEF g
<1>12. Joins(g, seqs, n, A)
  BY <1>8, <1>9, <1>10 DEF Joins
<1>13. Flattens(u, seqs, n)
  BY <1>11
<1>14. FlattenSeq(seqs) = u[n]
  BY <1>1 DEF FlattenSeq, Flattens
<1> HIDE DEF u
<1>15. ASSUME NEW k \in 1 .. n
       PROVE  u[k] = g[k]
  <2> DEFINE T == {j \in Nat : j + 1 <= n => u[j + 1] = g[j + 1]}
  <2>1. \A j \in 1 .. n : u[j] = IF j = 1 THEN seqs[j] ELSE u[j - 1] \o seqs[j]
    BY <1>13 DEF Flattens
  <2>2. 0 \in T
    BY <1>1, <1>9, <2>1
  <2>3. ASSUME NEW j \in Nat, j \in T
        PROVE  j + 1 \in T
    <3> SUFFICES ASSUME (j + 1) + 1 <= n
                 PROVE  u[(j + 1) + 1] = g[(j + 1) + 1]
      OBVIOUS
    <3>1. /\ (j + 1) + 1 \in 2 .. n /\ (j + 1) + 1 \in 1 .. n /\ (j + 1) + 1 # 1
          /\ ((j + 1) + 1) - 1 = j + 1 /\ j + 1 <= n
      BY <1>1
    <3>2. u[j + 1] = g[j + 1]
      BY <2>3, <3>1
    <3>3. u[(j + 1) + 1] = u[((j + 1) + 1) - 1] \o seqs[(j + 1) + 1]
      BY <2>1, <3>1
    <3>4. g[(j + 1) + 1] = g[((j + 1) + 1) - 1] \o seqs[(j + 1) + 1]
      BY <1>10, <3>1
    <3> QED
      BY <3>1, <3>2, <3>3, <3>4
  <2> HIDE DEF T
  <2>4. \A j \in Nat : j \in T
    BY <2>2, <2>3, NumbersInductive
  <2>5. k - 1 \in Nat /\ (k - 1) + 1 = k /\ k <= n
    BY <1>1
  <2> QED
    BY <2>4, <2>5 DEF T
<1>16. n \in 1 .. n
  OBVIOUS
<1> QED
  BY <1>12, <1>14, <1>15, <1>16

(* Words of 4 or 8 bits. *)
LEMMA WordPlaces ==
  ASSUME NEW w \in {4, 8}, NEW k \in Nat
  PROVE  /\ w * k \in Nat /\ w * (k + 1) = w * k + w
         /\ \A b \in 1 .. k, e \in 1 .. w : w * (b - 1) + e \in 1 .. w * k
         /\ \A e \in 1 .. w : w * ((k + 1) - 1) + e = w * k + e
<1>1. CASE w = 4
  BY <1>1
<1>2. CASE w = 8
  BY <1>2
<1> QED
  BY <1>1, <1>2

(* n words. *)
Words(seqs, n, w, A) == seqs \in [1 .. n -> [1 .. w -> A]]

(* Joined words lie one after the other. *)
LEMMA FlattenWords ==
  ASSUME NEW A, NEW n \in Nat \ {0}, NEW w \in {4, 8}, NEW seqs, Words(seqs, n, w, A)
  PROVE  /\ FlattenSeq(seqs) \in Seq(A)
         /\ Len(FlattenSeq(seqs)) = w * n
         /\ \A b \in 1 .. n, e \in 1 .. w : FlattenSeq(seqs)[w * (b - 1) + e] = seqs[b][e]
<1>1. w \in Nat /\ n \in Nat /\ seqs \in [1 .. n -> [1 .. w -> A]]
  BY DEF Words
<1>2. \A b \in 1 .. n : seqs[b] \in Seq(A) /\ Len(seqs[b]) = w
  <2> SUFFICES ASSUME NEW b \in 1 .. n
               PROVE  seqs[b] \in Seq(A) /\ Len(seqs[b]) = w
    OBVIOUS
  <2>1. seqs[b] \in [1 .. w -> A]
    BY <1>1
  <2> QED
    BY ONLY <1>1, <2>1, FunctionIsSequence
<1>3. Chain(seqs, n, A)
  <2>1. Len(seqs) = n
    BY <1>1, FunctionIsSequence
  <2> QED
    BY <1>1, <1>2, <2>1 DEF Chain
<1>4. PICK g : Joins(g, seqs, n, A) /\ FlattenSeq(seqs) = g[n]
  BY <1>3, FlattenJoins
<1> DEFINE Placed(k) == /\ Len(g[k]) = w * k
                        /\ \A b \in 1 .. k, e \in 1 .. w : g[k][w * (b - 1) + e] = seqs[b][e]
           T == {j \in Nat : j + 1 <= n => Placed(j + 1)}
<1>5. /\ \A k \in 1 .. n : g[k] \in Seq(A)
      /\ g[1] = seqs[1]
      /\ \A k \in 2 .. n : g[k] = g[k - 1] \o seqs[k]
  BY <1>4 DEF Joins
<1>6. 0 \in T
  <2>1. 1 \in 1 .. n /\ 0 + 1 = 1 /\ w * 1 = w /\ \A e \in 1 .. w : w * (1 - 1) + e = e
    BY <1>1
  <2>2. Len(g[1]) = w * 1
    BY <1>2, <1>5, <2>1
  <2>3. ASSUME NEW b \in 1 .. 1, NEW e \in 1 .. w
        PROVE  g[1][w * (b - 1) + e] = seqs[b][e]
    <3>1. b = 1
      OBVIOUS
    <3> QED
      BY <1>5, <2>1, <3>1
  <2>4. Placed(1)
    BY <2>2, <2>3
  <2> HIDE DEF Placed
  <2> QED
    BY <2>1, <2>4
<1>7. ASSUME NEW j \in Nat, j \in T
      PROVE  j + 1 \in T
  <2> DEFINE k == j + 1
             m == k + 1
  <2> SUFFICES ASSUME m <= n
               PROVE  Placed(m)
    OBVIOUS
  <2>1. k \in Nat /\ k \in 1 .. n /\ m \in 1 .. n /\ m \in 2 .. n /\ m - 1 = k /\ k <= n
    BY <1>1
  <2>2. Placed(k)
    <3> HIDE DEF Placed
    <3> QED
      BY <1>7, <2>1
  <2>3. g[m] = g[k] \o seqs[m] /\ g[k] \in Seq(A) /\ seqs[m] \in Seq(A) /\ Len(seqs[m]) = w
    BY <1>2, <1>5, <2>1
  <2>4. /\ Len(g[m]) = Len(g[k]) + w
        /\ \A i \in 1 .. Len(g[k]) + w :
             g[m][i] = IF i <= Len(g[k]) THEN g[k][i] ELSE seqs[m][i - Len(g[k])]
    <3> DEFINE s == g[k]
               t == seqs[m]
    <3>1. s \in Seq(A) /\ t \in Seq(A) /\ Len(t) = w /\ g[m] = s \o t
      BY <2>3
    <3> HIDE DEF s, t
    <3>2. /\ Len(s \o t) = Len(s) + Len(t)
          /\ \A i \in 1 .. Len(s) + Len(t) :
               (s \o t)[i] = IF i <= Len(s) THEN s[i] ELSE t[i - Len(s)]
      BY ONLY <3>1, ConcatProperties
    <3>3. /\ Len(g[m]) = Len(s) + w
          /\ \A i \in 1 .. Len(s) + w :
               g[m][i] = IF i <= Len(s) THEN s[i] ELSE t[i - Len(s)]
      BY ONLY <3>1, <3>2
    <3> QED
      BY <3>3 DEF s, t
  <2>5. /\ w * k \in Nat /\ w * m = w * k + w
        /\ \A b \in 1 .. k, e \in 1 .. w : w * (b - 1) + e \in 1 .. w * k
        /\ \A e \in 1 .. w : w * (m - 1) + e = w * k + e
    <3> HIDE DEF k
    <3> QED
      BY <2>1, WordPlaces
  <2> HIDE DEF k, m
  <2>6. Len(g[k]) = w * k
    BY <2>2
  <2>7. Len(g[m]) = w * m
    BY <2>4, <2>5, <2>6
  <2>8. ASSUME NEW b \in 1 .. m, NEW e \in 1 .. w
        PROVE  g[m][w * (b - 1) + e] = seqs[b][e]
    <3>1. CASE b \in 1 .. k
      <4>1. w * (b - 1) + e \in 1 .. w * k
        BY <2>5, <3>1
      <4> DEFINE i == w * (b - 1) + e
      <4>2. g[k][i] = seqs[b][e]
        BY <2>2, <3>1
      <4>3. i \in 1 .. w * k
        BY <4>1
      <4> HIDE DEF i
      <4>4. i \in 1 .. Len(g[k]) + w /\ i <= Len(g[k])
        BY ONLY <1>1, <2>5, <2>6, <4>3
      <4>5. g[m][i] = g[k][i]
        BY ONLY <2>4, <4>4
      <4> QED
        BY <4>2, <4>5 DEF i
    <3>2. CASE b \notin 1 .. k
      <4>1. b = m
        BY <2>1, <3>2
      <4> DEFINE i == w * k + e
      <4>2. w * (b - 1) + e = i
        BY <2>5, <4>1
      <4>3. i \in 1 .. Len(g[k]) + w /\ ~ (i <= Len(g[k])) /\ i - Len(g[k]) = e
        BY <1>1, <2>5, <2>6
      <4> HIDE DEF i
      <4>4. g[m][i] = seqs[m][i - Len(g[k])]
        BY ONLY <2>4, <4>3
      <4> QED
        BY <4>1, <4>2, <4>3, <4>4
    <3> QED
      BY <3>1, <3>2
  <2> QED
    BY <2>7, <2>8
<1> HIDE DEF T
<1>8. n - 1 \in T
  BY <1>1, <1>6, <1>7, NumbersInductive
<1>9. Placed(n)
  <2>1. n - 1 \in Nat /\ (n - 1) + 1 = n /\ n <= n
    BY <1>1
  <2> HIDE DEF Placed
  <2> QED
    BY <1>8, <2>1 DEF T
<1>10. n \in 1 .. n
  BY <1>1
<1> QED
  BY <1>4, <1>5, <1>9, <1>10

(* The four bits of an element as wires. *)
LEMMA NibbleBits ==
  ASSUME NEW x \in GF
  PROVE  /\ BitsOfNumber(x, 4) \in [1 .. 4 -> Bit]
         /\ BitsOfNumber(x, 4)[1] = x % 2
         /\ BitsOfNumber(x, 4)[2] = (x \div 2) % 2
         /\ BitsOfNumber(x, 4)[3] = (x \div 4) % 2
         /\ BitsOfNumber(x, 4)[4] = (x \div 8) % 2
<1> DEFINE b == BitsOfNumber(x, 4)
<1>1. b = [i \in 1 .. 4 |-> (x \div 2 ^ (i - 1)) % 2]
  BY DEF BitsOfNumber
<1>2. /\ 2 ^ (1 - 1) = 1 /\ 2 ^ (2 - 1) = 2 /\ 2 ^ (3 - 1) = 4 /\ 2 ^ (4 - 1) = 8
  <2>1. 1 - 1 = 0 /\ 2 - 1 = 1 /\ 3 - 1 = 2 /\ 4 - 1 = 3
    OBVIOUS
  <2> QED
    BY ONLY <2>1, SmallPowers
<1>3. /\ b[1] = (x \div 2 ^ (1 - 1)) % 2 /\ b[2] = (x \div 2 ^ (2 - 1)) % 2
      /\ b[3] = (x \div 2 ^ (3 - 1)) % 2 /\ b[4] = (x \div 2 ^ (4 - 1)) % 2
  BY ONLY <1>1
<1>4. x \in 0 .. 15
  BY DEF GF
<1>5. x \div 1 = x
  BY ONLY <1>4
<1>6. /\ b[1] = x % 2 /\ b[2] = (x \div 2) % 2
      /\ b[3] = (x \div 4) % 2 /\ b[4] = (x \div 8) % 2
  BY ONLY <1>2, <1>3, <1>5
<1>7. /\ x % 2 \in {0, 1} /\ (x \div 2) % 2 \in {0, 1}
      /\ (x \div 4) % 2 \in {0, 1} /\ (x \div 8) % 2 \in {0, 1}
  BY ONLY <1>4
<1>8. \A i \in 1 .. 4 : i = 1 \/ i = 2 \/ i = 3 \/ i = 4
  OBVIOUS
<1>9. \A i \in 1 .. 4 : b[i] \in Bit
  BY ONLY <1>6, <1>7, <1>8 DEF Bit
<1>10. b = [i \in 1 .. 4 |-> b[i]]
  BY <1>1
<1> HIDE DEF b
<1>11. b \in [1 .. 4 -> Bit]
  BY ONLY <1>9, <1>10
<1> QED
  BY <1>6, <1>11 DEF b

(* Elements with the same bits are the same. *)
LEMMA SameBits ==
  ASSUME NEW x \in GF, NEW y \in GF,
         \A e \in 1 .. 4 : BitsOfNumber(x, 4)[e] = BitsOfNumber(y, 4)[e]
  PROVE  x = y
<1>1. /\ BitsOfNumber(x, 4)[1] = BitsOfNumber(y, 4)[1]
      /\ BitsOfNumber(x, 4)[2] = BitsOfNumber(y, 4)[2]
      /\ BitsOfNumber(x, 4)[3] = BitsOfNumber(y, 4)[3]
      /\ BitsOfNumber(x, 4)[4] = BitsOfNumber(y, 4)[4]
  OBVIOUS
<1>2. /\ x % 2 = y % 2 /\ (x \div 2) % 2 = (y \div 2) % 2
      /\ (x \div 4) % 2 = (y \div 4) % 2 /\ (x \div 8) % 2 = (y \div 8) % 2
  BY <1>1, NibbleBits
<1>3. x \in 0 .. 15 /\ y \in 0 .. 15
  BY DEF GF
<1> QED
  BY ONLY <1>2, <1>3

(* An element from its four wires. *)
LEMMA ElementFromBits ==
  ASSUME NEW b \in [0 .. 3 -> Bit], NEW x, x = SumSet({2 ^ e * b[e] : e \in 0 .. 3})
  PROVE  /\ x \in GF
         /\ \A e \in 1 .. 4 : BitsOfNumber(x, 4)[e] = b[e - 1]
<1> DEFINE S == {2 ^ e * b[e] : e \in 0 .. 3}
<1>1. \A e \in 0 .. 3 : e = 0 \/ e = 1 \/ e = 2 \/ e = 3
  OBVIOUS
<1>2. /\ b[0] \in {0, 1} /\ b[1] \in {0, 1} /\ b[2] \in {0, 1} /\ b[3] \in {0, 1}
  BY DEF Bit
<1>3. \A p : p \in S <=> p = 1 * b[0] \/ p = 2 * b[1] \/ p = 4 * b[2] \/ p = 8 * b[3]
  <2>1. \A p : p \in S <=> \E e \in 0 .. 3 : p = 2 ^ e * b[e]
    OBVIOUS
  <2>2. 0 \in 0 .. 3 /\ 1 \in 0 .. 3 /\ 2 \in 0 .. 3 /\ 3 \in 0 .. 3
    OBVIOUS
  <2> HIDE DEF S
  <2>3. \A p : p \in S <=> \/ p = 2 ^ 0 * b[0]
                           \/ p = 2 ^ 1 * b[1]
                           \/ p = 2 ^ 2 * b[2]
                           \/ p = 2 ^ 3 * b[3]
    BY ONLY <1>1, <2>1, <2>2
  <2> QED
    BY ONLY <2>3, SmallPowers
<1> HIDE DEF S
<1>4. S \subseteq {0, 1, 2, 4, 8}
  <2>1. \A p \in S : p \in {0, 1, 2, 4, 8}
    BY ONLY <1>2, <1>3
  <2> QED
    BY ONLY <2>1
<1>5. /\ (1 \in S <=> b[0] = 1) /\ (2 \in S <=> b[1] = 1)
      /\ (4 \in S <=> b[2] = 1) /\ (8 \in S <=> b[3] = 1)
  BY ONLY <1>2, <1>3
<1>6. x = SumSet(S)
  BY DEF S
<1>7. x = (IF 1 \in S THEN 1 ELSE 0) + (IF 2 \in S THEN 2 ELSE 0)
            + (IF 4 \in S THEN 4 ELSE 0) + (IF 8 \in S THEN 8 ELSE 0)
  BY ONLY <1>4, <1>6, SumOfPowers
<1>8. x = b[0] + 2 * b[1] + 4 * b[2] + 8 * b[3]
  BY ONLY <1>2, <1>5, <1>7
<1>9. x \in 0 .. 15
  BY ONLY <1>2, <1>8
<1>10. x \in GF
  BY <1>9 DEF GF
<1>11. x % 2 = b[0] /\ (x \div 2) % 2 = b[1] /\ (x \div 4) % 2 = b[2] /\ (x \div 8) % 2 = b[3]
  <2>1. \A b0, b1, b2, b3 \in {0, 1} :
          LET y == b0 + 2 * b1 + 4 * b2 + 8 * b3
          IN  y % 2 = b0 /\ (y \div 2) % 2 = b1 /\ (y \div 4) % 2 = b2 /\ (y \div 8) % 2 = b3
    OBVIOUS
  <2> DEFINE y == b[0] + 2 * b[1] + 4 * b[2] + 8 * b[3]
  <2>2. y % 2 = b[0] /\ (y \div 2) % 2 = b[1] /\ (y \div 4) % 2 = b[2] /\ (y \div 8) % 2 = b[3]
    BY ONLY <1>2, <2>1
  <2> QED
    BY ONLY <1>8, <2>2
<1>12. /\ BitsOfNumber(x, 4)[1] = b[0] /\ BitsOfNumber(x, 4)[2] = b[1]
       /\ BitsOfNumber(x, 4)[3] = b[2] /\ BitsOfNumber(x, 4)[4] = b[3]
  BY <1>10, <1>11, NibbleBits
<1>13. \A e \in 1 .. 4 : \/ e = 1 /\ e - 1 = 0
                         \/ e = 2 /\ e - 1 = 1
                         \/ e = 3 /\ e - 1 = 2
                         \/ e = 4 /\ e - 1 = 3
  OBVIOUS
<1>14. \A e \in 1 .. 4 : BitsOfNumber(x, 4)[e] = b[e - 1]
  BY ONLY <1>12, <1>13
<1> QED
  BY <1>10, <1>14

(* Any number of elements from their bits. *)
LEMMA LiftedElements ==
  ASSUME NEW n \in Nat, NEW bits \in [1 .. 4 * n -> Bit]
  PROVE  /\ Lifted(bits, n) \in [1 .. n -> GF]
         /\ \A i \in 1 .. n, e \in 1 .. 4 :
              BitsOfNumber(Lifted(bits, n)[i], 4)[e] = bits[4 * (i - 1) + e]
<1>1. n \in Nat
  OBVIOUS
<1> DEFINE Element(i) == SumSet({2 ^ b * bits[4 * (i - 1) + b + 1] : b \in 0 .. 3})
<1>2. Lifted(bits, n) = [i \in 1 .. n |-> Element(i)]
  BY DEF Lifted
<1>3. ASSUME NEW i \in 1 .. n
      PROVE  /\ Element(i) \in GF
             /\ \A e \in 1 .. 4 : BitsOfNumber(Element(i), 4)[e] = bits[4 * (i - 1) + e]
  <2> DEFINE b == [e \in 0 .. 3 |-> bits[4 * (i - 1) + e + 1]]
  <2>1. \A e \in 0 .. 3 : 4 * (i - 1) + e + 1 \in 1 .. 4 * n
    BY <1>1
  <2>2. b \in [0 .. 3 -> Bit]
    BY <2>1
  <2>3. Element(i) = SumSet({2 ^ e * b[e] : e \in 0 .. 3})
    <3>1. {2 ^ e * bits[4 * (i - 1) + e + 1] : e \in 0 .. 3} = {2 ^ e * b[e] : e \in 0 .. 3}
      OBVIOUS
    <3> QED
      BY <3>1
  <2>4. \A e \in 1 .. 4 : e - 1 \in 0 .. 3 /\ 4 * (i - 1) + (e - 1) + 1 = 4 * (i - 1) + e
    BY <1>1
  <2>5. \A e \in 1 .. 4 : b[e - 1] = bits[4 * (i - 1) + e]
    BY <2>4
  <2> HIDE DEF b, Element
  <2>6. Element(i) \in GF /\ \A e \in 1 .. 4 : BitsOfNumber(Element(i), 4)[e] = b[e - 1]
    BY <2>2, <2>3, ElementFromBits
  <2> QED
    BY <2>5, <2>6
<1> HIDE DEF Element
<1> QED
  BY <1>2, <1>3

(* Elements of a target from its bits. *)
LEMMA UnnibbledElements ==
  ASSUME NEW bits \in [1 .. 4 * M -> Bit]
  PROVE  /\ Unnibbled(bits) \in [1 .. M -> GF]
         /\ \A i \in 1 .. M, e \in 1 .. 4 :
              BitsOfNumber(Unnibbled(bits)[i], 4)[e] = bits[4 * (i - 1) + e]
<1>1. M \in Nat
  BY KeyAssumption
<1> QED
  BY <1>1, LiftedElements DEF Unnibbled

(* The wires of any number of elements. *)
LEMMA NibblesOfVector ==
  ASSUME NEW n \in Nat \ {0}, NEW v \in [1 .. n -> GF]
  PROVE  /\ Nibbles(v) \in [1 .. 4 * n -> Bit] /\ Len(Nibbles(v)) = 4 * n
         /\ \A i \in 1 .. n, e \in 1 .. 4 : Nibbles(v)[4 * (i - 1) + e] = BitsOfNumber(v[i], 4)[e]
<1> DEFINE seqs == [i \in 1 .. n |-> BitsOfNumber(v[i], 4)]
<1>1. n \in Nat \ {0} /\ 4 \in {4, 8}
  OBVIOUS
<1>2. Len(v) = n
  BY <1>1, FunctionIsSequence
<1>3. Nibbles(v) = FlattenSeq(seqs)
  BY <1>2 DEF Nibbles
<1>4. \A i \in 1 .. n : seqs[i] = BitsOfNumber(v[i], 4) /\ BitsOfNumber(v[i], 4) \in [1 .. 4 -> Bit]
  BY NibbleBits
<1>5. Words(seqs, n, 4, Bit)
  BY <1>4 DEF Words
<1> HIDE DEF seqs
<1>6. /\ FlattenSeq(seqs) \in Seq(Bit)
      /\ Len(FlattenSeq(seqs)) = 4 * n
      /\ \A b \in 1 .. n, e \in 1 .. 4 : FlattenSeq(seqs)[4 * (b - 1) + e] = seqs[b][e]
  BY ONLY <1>1, <1>5, FlattenWords
<1>7. Nibbles(v) \in [1 .. 4 * n -> Bit]
  BY <1>3, <1>6, LenProperties
<1> QED
  BY <1>3, <1>4, <1>6, <1>7

(* The wires of a target. *)
LEMMA NibblesOfElements ==
  ASSUME NEW v \in [1 .. M -> GF]
  PROVE  /\ Nibbles(v) \in [1 .. 4 * M -> Bit] /\ Len(Nibbles(v)) = 4 * M
         /\ \A i \in 1 .. M, e \in 1 .. 4 : Nibbles(v)[4 * (i - 1) + e] = BitsOfNumber(v[i], 4)[e]
  BY KeyAssumption, NibblesOfVector

(* Where a wire of nibbles comes from. *)
LEMMA NibblePlaces ==
  ASSUME NEW j \in 1 .. 4 * M
  PROVE  \E i \in 1 .. M, e \in 1 .. 4 : j = 4 * (i - 1) + e
<1>1. M \in Nat
  BY KeyAssumption
<1> DEFINE i == ((j - 1) \div 4) + 1
           e == ((j - 1) % 4) + 1
<1>2. i \in 1 .. M /\ e \in 1 .. 4 /\ j = 4 * (i - 1) + e
  BY <1>1
<1> HIDE DEF i, e
<1> QED
  BY <1>2

(* Elements come back from their wires. *)
LEMMA LiftedNibbles ==
  ASSUME NEW n \in Nat \ {0}, NEW v \in [1 .. n -> GF]
  PROVE  Lifted(Nibbles(v), n) = v
<1> DEFINE bits == Nibbles(v)
           w == Lifted(bits, n)
<1>1. /\ bits \in [1 .. 4 * n -> Bit]
      /\ \A i \in 1 .. n, e \in 1 .. 4 : bits[4 * (i - 1) + e] = BitsOfNumber(v[i], 4)[e]
  BY NibblesOfVector
<1> HIDE DEF bits
<1>2. /\ w \in [1 .. n -> GF]
      /\ \A i \in 1 .. n, e \in 1 .. 4 : BitsOfNumber(w[i], 4)[e] = bits[4 * (i - 1) + e]
  BY <1>1, LiftedElements
<1> HIDE DEF w
<1>3. ASSUME NEW i \in 1 .. n
      PROVE  w[i] = v[i]
  <2>1. w[i] \in GF /\ v[i] \in GF
    BY <1>2
  <2>2. \A e \in 1 .. 4 : BitsOfNumber(w[i], 4)[e] = BitsOfNumber(v[i], 4)[e]
    BY <1>1, <1>2
  <2> QED
    BY <2>1, <2>2, SameBits
<1>4. w = [i \in 1 .. n |-> w[i]] /\ v = [i \in 1 .. n |-> v[i]]
  BY <1>2
<1>5. w = v
  BY ONLY <1>3, <1>4
<1> QED
  BY <1>5 DEF w, bits

(* Elements and wires determine each other. *)
LEMMA NibblesInvert ==
  /\ \A v \in [1 .. M -> GF] : Unnibbled(Nibbles(v)) = v
  /\ \A bits \in [1 .. 4 * M -> Bit] : Nibbles(Unnibbled(bits)) = bits
<1>1. ASSUME NEW v \in [1 .. M -> GF]
      PROVE  Unnibbled(Nibbles(v)) = v
  <2>1. M \in Nat \ {0}
    BY KeyAssumption
  <2> QED
    BY <2>1, LiftedNibbles DEF Unnibbled
<1>2. ASSUME NEW bits \in [1 .. 4 * M -> Bit]
      PROVE  Nibbles(Unnibbled(bits)) = bits
  <2> DEFINE v == Unnibbled(bits)
             w == Nibbles(v)
  <2>1. /\ v \in [1 .. M -> GF]
        /\ \A i \in 1 .. M, e \in 1 .. 4 : BitsOfNumber(v[i], 4)[e] = bits[4 * (i - 1) + e]
    BY UnnibbledElements
  <2> HIDE DEF v
  <2>2. /\ w \in [1 .. 4 * M -> Bit]
        /\ \A i \in 1 .. M, e \in 1 .. 4 : w[4 * (i - 1) + e] = BitsOfNumber(v[i], 4)[e]
    BY <2>1, NibblesOfElements
  <2> HIDE DEF w
  <2>3. ASSUME NEW j \in 1 .. 4 * M
        PROVE  w[j] = bits[j]
    <3>1. PICK i \in 1 .. M, e \in 1 .. 4 : j = 4 * (i - 1) + e
      BY NibblePlaces
    <3>2. w[4 * (i - 1) + e] = bits[4 * (i - 1) + e]
      BY <2>1, <2>2
    <3> QED
      BY <3>1, <3>2
  <2>4. w \in [1 .. 4 * M -> Bit] /\ bits \in [1 .. 4 * M -> Bit]
    BY <2>2
  <2>5. w = [j \in 1 .. 4 * M |-> w[j]] /\ bits = [j \in 1 .. 4 * M |-> bits[j]]
    BY ONLY <2>4
  <2>6. w = bits
    BY ONLY <2>3, <2>5
  <2> QED
    BY <2>6 DEF w, v
<1> QED
  BY <1>1, <1>2

(* One after the other. *)
LEMMA JoinedBits ==
  ASSUME NEW A, NEW m \in Nat, NEW n \in Nat, NEW s \in [1 .. m -> A], NEW t \in [1 .. n -> A]
  PROVE  /\ s \o t \in Seq(A) /\ Len(s \o t) = m + n
         /\ \A i \in 1 .. m : (s \o t)[i] = s[i]
         /\ \A i \in 1 .. n : (s \o t)[m + i] = t[i]
<1>1. s \in Seq(A) /\ Len(s) = m /\ t \in Seq(A) /\ Len(t) = n
  BY FunctionIsSequence
<1>2. /\ s \o t \in Seq(A)
      /\ Len(s \o t) = Len(s) + Len(t)
      /\ \A i \in 1 .. Len(s) + Len(t) :
           (s \o t)[i] = IF i <= Len(s) THEN s[i] ELSE t[i - Len(s)]
  BY ONLY <1>1, ConcatProperties
<1>3. \A i \in 1 .. m + n : (s \o t)[i] = IF i <= m THEN s[i] ELSE t[i - m]
  BY ONLY <1>1, <1>2
<1>4. ASSUME NEW i \in 1 .. m
      PROVE  (s \o t)[i] = s[i]
  <2>1. i \in 1 .. m + n /\ i <= m
    OBVIOUS
  <2> QED
    BY ONLY <1>3, <2>1
<1>5. ASSUME NEW i \in 1 .. n
      PROVE  (s \o t)[m + i] = t[i]
  <2>1. m + i \in 1 .. m + n /\ ~ (m + i <= m) /\ (m + i) - m = i
    OBVIOUS
  <2>2. (s \o t)[m + i] = t[(m + i) - m]
    BY ONLY <1>3, <2>1
  <2> QED
    BY <2>1, <2>2
<1> QED
  BY <1>1, <1>2, <1>4, <1>5

(* Zeros are bits. *)
LEMMA ZerosAreBits ==
  ASSUME NEW n \in Nat
  PROVE  Zeros(n) \in [1 .. n -> Bit] /\ \A i \in 1 .. n : Zeros(n)[i] = 0
  BY DEF Zeros, Bit

(* The wires that fill up a byte. *)
Padding == (8 - ((4 * M) % 8)) % 8
Bytes == (M + 1) \div 2

(* There are four of them for an odd number of elements, else none. *)
LEMMA PaddingFills ==
  /\ Padding \in Nat /\ Bytes \in Nat \ {0} /\ 8 * Bytes = 4 * M + Padding
  /\ \A b \in 1 .. Bytes : 2 * b - 1 \in 1 .. M /\ (2 * b <= M \/ 2 * b = M + 1)
  /\ \A j \in 1 .. 8 * Bytes : \E b \in 1 .. Bytes, e \in 1 .. 8 : j = 8 * (b - 1) + e
<1>1. M \in Nat \ {0}
  BY KeyAssumption
<1>2. Padding \in Nat /\ Bytes \in Nat \ {0} /\ 8 * Bytes = 4 * M + Padding
  <2>1. CASE M % 2 = 0
    <3>1. PICK h \in Nat : M = 2 * h
      BY <1>1, <2>1
    <3>2. (4 * M) % 8 = 0 /\ (M + 1) \div 2 = h /\ (8 - 0) % 8 = 0 /\ h # 0
      BY <1>1, <3>1
    <3>3. Padding = 0 /\ Bytes = h
      BY ONLY <3>2 DEF Padding, Bytes
    <3> QED
      BY ONLY <3>1, <3>2, <3>3
  <2>2. CASE M % 2 = 1
    <3>1. PICK h \in Nat : M = 2 * h + 1
      BY <1>1, <2>2
    <3>2. (4 * M) % 8 = 4 /\ (M + 1) \div 2 = h + 1 /\ (8 - 4) % 8 = 4
      BY <1>1, <3>1
    <3>3. Padding = 4 /\ Bytes = h + 1
      BY ONLY <3>2 DEF Padding, Bytes
    <3> QED
      BY ONLY <3>1, <3>3
  <2> QED
    BY <1>1, <2>1, <2>2
<1>3. \A b \in 1 .. Bytes : 2 * b - 1 \in 1 .. M /\ (2 * b <= M \/ 2 * b = M + 1)
  BY <1>1 DEF Bytes
<1>4. ASSUME NEW j \in 1 .. 8 * Bytes
      PROVE  \E b \in 1 .. Bytes, e \in 1 .. 8 : j = 8 * (b - 1) + e
  <2> DEFINE n == Bytes
             b == ((j - 1) \div 8) + 1
             e == ((j - 1) % 8) + 1
  <2>1. n \in Nat /\ j \in 1 .. 8 * n
    BY <1>2
  <2> HIDE DEF n
  <2>2. b \in 1 .. n /\ e \in 1 .. 8 /\ j = 8 * (b - 1) + e
    BY <2>1
  <2> HIDE DEF b, e
  <2> QED
    BY <2>2 DEF n
<1> QED
  BY <1>2, <1>3, <1>4

(* Two elements in a byte are eight wires, and a last single one is filled up:
   the natively packed bytes of a target are its wires and the padding. *)
LEMMA PackedElements ==
  ASSUME NEW bits \in [1 .. 4 * M -> Bit]
  PROVE  PackGF16(Unnibbled(bits)) = bits \o Zeros(Padding)
<1> DEFINE v == Unnibbled(bits)
           n == Bytes
           low(b) == BitsOfNumber(v[2 * b - 1], 4)
           high(b) == IF 2 * b <= M THEN BitsOfNumber(v[2 * b], 4) ELSE Zeros(4)
           seqs == [b \in 1 .. n |-> low(b) \o high(b)]
           packed == FlattenSeq(seqs)
           wires == bits \o Zeros(Padding)
<1>1. M \in Nat /\ Padding \in Nat /\ n \in Nat \ {0} /\ 8 * n = 4 * M + Padding /\ 8 \in {4, 8}
  BY KeyAssumption, PaddingFills
<1>2. /\ v \in [1 .. M -> GF] /\ Len(v) = M
      /\ \A i \in 1 .. M, e \in 1 .. 4 : BitsOfNumber(v[i], 4)[e] = bits[4 * (i - 1) + e]
  BY <1>1, UnnibbledElements, FunctionIsSequence
<1>3. PackGF16(v) = packed
  BY <1>2 DEF PackGF16, Bytes
<1> HIDE DEF v
<1>4. ASSUME NEW b \in 1 .. n
      PROVE  /\ seqs[b] \in [1 .. 8 -> Bit]
             /\ \A e \in 1 .. 8 : seqs[b][e] = IF 8 * (b - 1) + e <= 4 * M
                                               THEN bits[8 * (b - 1) + e] ELSE 0
  <2> DEFINE l == low(b)
             h == high(b)
  <2>1. 2 * b - 1 \in 1 .. M /\ (2 * b <= M \/ 2 * b = M + 1)
    BY PaddingFills
  <2>2. l \in [1 .. 4 -> Bit]
    BY <1>2, <2>1, NibbleBits
  <2>3. h \in [1 .. 4 -> Bit]
    <3>1. CASE 2 * b <= M
      <4>1. 2 * b \in 1 .. M
        BY <1>1, <3>1
      <4> QED
        BY <1>2, <3>1, <4>1, NibbleBits
    <3>2. CASE ~ (2 * b <= M)
      BY <3>2, ZerosAreBits
    <3> QED
      BY <3>1, <3>2
  <2>4. \A e \in 1 .. 4 : l[e] = bits[8 * (b - 1) + e] /\ 8 * (b - 1) + e <= 4 * M
    <3> TAKE e \in 1 .. 4
    <3>1. 4 * ((2 * b - 1) - 1) + e = 8 * (b - 1) + e /\ 8 * (b - 1) + e <= 4 * M
      BY <1>1, <2>1
    <3>2. l[e] = bits[4 * ((2 * b - 1) - 1) + e]
      BY <1>2, <2>1
    <3> QED
      BY <3>1, <3>2
  <2>5. \A e \in 1 .. 4 : h[e] = IF 8 * (b - 1) + (4 + e) <= 4 * M
                                 THEN bits[8 * (b - 1) + (4 + e)] ELSE 0
    <3> TAKE e \in 1 .. 4
    <3>1. CASE 2 * b <= M
      <4>1. 2 * b \in 1 .. M /\ 4 * (2 * b - 1) + e = 8 * (b - 1) + (4 + e)
            /\ 8 * (b - 1) + (4 + e) <= 4 * M
        BY <1>1, <3>1
      <4>2. h[e] = bits[4 * (2 * b - 1) + e]
        BY <1>2, <3>1, <4>1
      <4> QED
        BY <4>1, <4>2
    <3>2. CASE ~ (2 * b <= M)
      <4>1. 2 * b = M + 1 /\ ~ (8 * (b - 1) + (4 + e) <= 4 * M)
        BY <1>1, <2>1, <3>2
      <4>2. h[e] = 0
        BY <3>2, ZerosAreBits
      <4> QED
        BY <4>1, <4>2
    <3> QED
      BY <3>1, <3>2
  <2>6. seqs[b] = l \o h
    OBVIOUS
  <2> HIDE DEF l, h, seqs
  <2>7. /\ l \o h \in Seq(Bit) /\ Len(l \o h) = 4 + 4
        /\ \A i \in 1 .. 4 : (l \o h)[i] = l[i]
        /\ \A i \in 1 .. 4 : (l \o h)[4 + i] = h[i]
    <3> DEFINE w == 4
    <3>1. w \in Nat /\ l \in [1 .. w -> Bit] /\ h \in [1 .. w -> Bit]
      BY <2>2, <2>3
    <3> HIDE DEF w
    <3>2. /\ l \o h \in Seq(Bit) /\ Len(l \o h) = w + w
          /\ \A i \in 1 .. w : (l \o h)[i] = l[i]
          /\ \A i \in 1 .. w : (l \o h)[w + i] = h[i]
      BY ONLY <3>1, JoinedBits
    <3> QED
      BY <3>2 DEF w
  <2>8. seqs[b] \in [1 .. 8 -> Bit]
    <3>1. 4 + 4 = 8
      OBVIOUS
    <3> QED
      BY <2>6, <2>7, <3>1, LenProperties
  <2>9. ASSUME NEW e \in 1 .. 8
        PROVE  seqs[b][e] = IF 8 * (b - 1) + e <= 4 * M THEN bits[8 * (b - 1) + e] ELSE 0
    <3>1. CASE e <= 4
      <4>1. e \in 1 .. 4
        BY <3>1
      <4> QED
        BY <2>4, <2>6, <2>7, <4>1
    <3>2. CASE ~ (e <= 4)
      <4> DEFINE i == e - 4
      <4>1. i \in 1 .. 4 /\ e = 4 + i
        BY <3>2
      <4> HIDE DEF i
      <4>2. seqs[b][4 + i] = h[i]
        BY <2>6, <2>7, <4>1
      <4> QED
        BY <2>5, <4>1, <4>2
    <3> QED
      BY <3>1, <3>2
  <2> QED
    BY <2>8, <2>9
<1>5. Words(seqs, n, 8, Bit)
  <2>1. seqs = [b \in 1 .. n |-> seqs[b]]
    OBVIOUS
  <2> HIDE DEF seqs
  <2> QED
    BY <1>4, <2>1 DEF Words
<1> HIDE DEF seqs
<1>6. /\ packed \in Seq(Bit)
      /\ Len(packed) = 8 * n
      /\ \A b \in 1 .. n, e \in 1 .. 8 : packed[8 * (b - 1) + e] = seqs[b][e]
  <2> HIDE DEF n, packed
  <2>1. n \in Nat \ {0} /\ 8 \in {4, 8}
    BY <1>1
  <2>2. /\ FlattenSeq(seqs) \in Seq(Bit)
        /\ Len(FlattenSeq(seqs)) = 8 * n
        /\ \A b \in 1 .. n, e \in 1 .. 8 : FlattenSeq(seqs)[8 * (b - 1) + e] = seqs[b][e]
    BY ONLY <2>1, <1>5, FlattenWords
  <2> QED
    BY ONLY <2>2 DEF packed
<1>7. Zeros(Padding) \in [1 .. Padding -> Bit] /\ \A i \in 1 .. Padding : Zeros(Padding)[i] = 0
  BY <1>1, ZerosAreBits
<1>8. /\ wires \in Seq(Bit) /\ Len(wires) = 4 * M + Padding
      /\ \A i \in 1 .. 4 * M : wires[i] = bits[i]
      /\ \A i \in 1 .. Padding : wires[4 * M + i] = Zeros(Padding)[i]
  <2>1. 4 * M \in Nat
    BY <1>1
  <2> QED
    BY <1>1, <1>7, <2>1, JoinedBits
<1> HIDE DEF packed, wires
<1>9. ASSUME NEW j \in 1 .. 8 * n
      PROVE  packed[j] = wires[j]
  <2>1. PICK b \in 1 .. n, e \in 1 .. 8 : j = 8 * (b - 1) + e
    BY PaddingFills
  <2>2. packed[8 * (b - 1) + e] = seqs[b][e]
    BY <1>6
  <2>3. seqs[b][e] = IF 8 * (b - 1) + e <= 4 * M THEN bits[8 * (b - 1) + e] ELSE 0
    BY <1>4
  <2>4. packed[j] = IF j <= 4 * M THEN bits[j] ELSE 0
    BY <2>1, <2>2, <2>3
  <2>5. CASE j <= 4 * M
    <3>1. j \in 1 .. 4 * M
      BY <1>1, <2>5
    <3> QED
      BY <1>8, <2>4, <2>5, <3>1
  <2>6. CASE ~ (j <= 4 * M)
    <3> DEFINE i == j - 4 * M
    <3>1. i \in 1 .. Padding /\ j = 4 * M + i
      BY <1>1, <2>6
    <3> HIDE DEF i
    <3>2. wires[4 * M + i] = 0
      BY <1>7, <1>8, <3>1
    <3> QED
      BY <2>4, <2>6, <3>1, <3>2
  <2> QED
    BY <2>5, <2>6
<1>10. packed = wires
  <2>1. Len(packed) = Len(wires) /\ \A j \in 1 .. Len(packed) : packed[j] = wires[j]
    BY <1>1, <1>6, <1>8, <1>9
  <2> QED
    BY ONLY <1>6, <1>8, <2>1, SeqEqual
<1> QED
  BY <1>3, <1>10 DEF wires, v

-----------------------------------------------------------------------------
(***************************************************************************)
(* The MAYO equations: the table of terms adds up to the forms.            *)
(***************************************************************************)

(* A function with the equation of GFSum ends in the sum. *)
LEMMA TotalsSolve ==
  ASSUME NEW n \in Nat, NEW f, Elements(f, n)
  PROVE  /\ TotalsOf(f, n, [k \in 0 .. n |-> GFTotal(f, k)])
         /\ \A u : TotalsOf(f, n, u) => u[n] = GFTotal(f, n)
<1>1. /\ GFTotal(f, 0) = 0
      /\ \A m \in 0 .. n - 1 : GFTotal(f, m + 1) = GFTotal(f, m) ++ f[m]
  BY TotalSteps
<1> DEFINE h == [k \in 0 .. n |-> GFTotal(f, k)]
<1>2. TotalsOf(f, n, h)
  <2>1. ASSUME NEW k \in 0 .. n
        PROVE  GFTotal(f, k) = IF k = 0 THEN 0 ELSE h[k - 1] ++ f[k - 1]
    <3>1. CASE k = 0
      BY <1>1, <3>1
    <3>2. CASE k # 0
      <4>1. k - 1 \in 0 .. n - 1 /\ k - 1 \in 0 .. n /\ (k - 1) + 1 = k
        BY <3>2
      <4>2. GFTotal(f, (k - 1) + 1) = GFTotal(f, k - 1) ++ f[k - 1]
        BY <1>1, <4>1
      <4>3. h[k - 1] = GFTotal(f, k - 1)
        BY <4>1
      <4> HIDE DEF h
      <4> QED
        BY <3>2, <4>1, <4>2, <4>3
    <3> QED
      BY <3>1, <3>2
  <2>2. h = [k \in 0 .. n |-> IF k = 0 THEN 0 ELSE h[k - 1] ++ f[k - 1]]
    BY <2>1
  <2> HIDE DEF h
  <2> QED
    BY <2>2 DEF TotalsOf
<1>3. ASSUME NEW u, TotalsOf(f, n, u)
      PROVE  u[n] = GFTotal(f, n)
  <2> DEFINE T == {k \in Nat : k <= n => u[k] = GFTotal(f, k)}
  <2>1. \A k \in 0 .. n : u[k] = IF k = 0 THEN 0 ELSE u[k - 1] ++ f[k - 1]
    BY <1>3 DEF TotalsOf
  <2>2. 0 \in T
    BY <1>1, <2>1
  <2>3. ASSUME NEW k \in Nat, k \in T
        PROVE  k + 1 \in T
    <3> SUFFICES ASSUME k + 1 <= n
                 PROVE  u[k + 1] = GFTotal(f, k + 1)
      OBVIOUS
    <3>1. k + 1 \in 0 .. n /\ k + 1 # 0 /\ (k + 1) - 1 = k /\ k \in 0 .. n - 1 /\ k <= n
      OBVIOUS
    <3>2. u[k + 1] = u[(k + 1) - 1] ++ f[(k + 1) - 1]
      BY <2>1, <3>1
    <3>3. u[k] = GFTotal(f, k)
      BY <2>3, <3>1
    <3> QED
      BY <1>1, <3>1, <3>2, <3>3
  <2> HIDE DEF T
  <2>4. n \in T
    BY <2>2, <2>3, NumbersInductive
  <2> QED
    BY <2>4 DEF T
<1> QED
  BY <1>2, <1>3

(* What a form has in row r and column c, with the variables' values. *)
Product(i, s, r, c) == Forms[i][r][c] ** (s[r + 1] ** s[c + 1])
Row(i, s, r) == [c \in 0 .. KN - 1 |-> Product(i, s, r, c)]
Rows(i, s) == [r \in 0 .. KN - 1 |-> GFTotal(Row(i, s, r), KN)]
RowSum(i, s, r) == GFSum(KN, LAMBDA c : Forms[i][r][c] ** (s[r + 1] ** s[c + 1]))

Variables(s) == s \in [1 .. KN -> GF]

(* Products are elements and vanish below the diagonal. *)
LEMMA ProductElements ==
  ASSUME NEW i \in 1 .. M, NEW s, Variables(s), NEW r \in 0 .. KN - 1, NEW c \in 0 .. KN - 1
  PROVE  /\ Product(i, s, r, c) \in GF
         /\ s[r + 1] ** s[c + 1] \in GF /\ Forms[i][r][c] \in GF
         /\ c < r => Product(i, s, r, c) = 0
<1>1. KN \in Nat /\ Forms[i][r][c] \in GF /\ (c < r => Forms[i][r][c] = 0)
  BY KeyAssumption
<1>2. s[r + 1] \in GF /\ s[c + 1] \in GF
  <2>1. r + 1 \in 1 .. KN /\ c + 1 \in 1 .. KN
    BY <1>1
  <2> QED
    BY <2>1 DEF Variables
<1>3. s[r + 1] ** s[c + 1] \in GF
  BY <1>2, Products
<1> QED
  BY <1>1, <1>3, Products DEF Product

(* The sum over a row. *)
LEMMA RowSumIsTotal ==
  ASSUME NEW i \in 1 .. M, NEW s, Variables(s), NEW r \in 0 .. KN - 1
  PROVE  /\ Elements(Row(i, s, r), KN)
         /\ RowSum(i, s, r) = GFTotal(Row(i, s, r), KN)
         /\ GFTotal(Row(i, s, r), KN) \in GF
<1> DEFINE f == Row(i, s, r)
           Next1(u) == [k \in 0 .. KN |-> IF k = 0 THEN 0
                          ELSE u[k - 1] ++ Forms[i][r][k - 1] ** (s[r + 1] ** s[(k - 1) + 1])]
           v == CHOOSE u : u = Next1(u)
           h == [k \in 0 .. KN |-> GFTotal(f, k)]
<1>1. KN \in Nat
  BY KeyAssumption
<1>2. \A c \in 0 .. KN - 1 : f[c] = Forms[i][r][c] ** (s[r + 1] ** s[c + 1]) /\ f[c] \in GF
  BY ProductElements DEF Row, Product
<1> HIDE DEF f
<1>3. Elements(f, KN)
  BY <1>2 DEF Elements
<1>4. \A k \in 0 .. KN : k # 0 => k - 1 \in 0 .. KN - 1
  BY <1>1
<1>5. \A u : TotalsOf(f, KN, u) <=> u = Next1(u)
  BY <1>2, <1>4 DEF TotalsOf
<1>6. TotalsOf(f, KN, h) /\ \A u : TotalsOf(f, KN, u) => u[KN] = GFTotal(f, KN)
  BY <1>1, <1>3, TotalsSolve
<1>7. RowSum(i, s, r) = v[KN]
  BY DEF RowSum, GFSum
<1> HIDE DEF h
<1>8. h = Next1(h)
  BY <1>5, <1>6
<1>9. v = Next1(v)
  <2> HIDE DEF Next1
  <2> QED
    BY <1>8
<1> HIDE DEF v, Next1
<1>10. v[KN] = GFTotal(f, KN)
  BY <1>5, <1>6, <1>9
<1>11. GFTotal(f, KN) \in GF
  <2>1. KN \in 0 .. KN
    BY <1>1
  <2> QED
    BY <1>1, <1>3, <2>1, TotalSteps
<1> QED
  BY <1>3, <1>7, <1>10, <1>11 DEF f

(* A form is the sum of its rows. *)
LEMMA EvalIsTotal ==
  ASSUME NEW i \in 1 .. M, NEW s, Variables(s)
  PROVE  /\ Elements(Rows(i, s), KN)
         /\ Eval(s, i) = GFTotal(Rows(i, s), KN)
<1> DEFINE f == Rows(i, s)
           Next1(u) == [k \in 0 .. KN |-> IF k = 0 THEN 0 ELSE u[k - 1] ++ RowSum(i, s, k - 1)]
           v == CHOOSE u : u = Next1(u)
           h == [k \in 0 .. KN |-> GFTotal(f, k)]
<1>1. KN \in Nat
  BY KeyAssumption
<1>2. \A r \in 0 .. KN - 1 : f[r] = RowSum(i, s, r) /\ f[r] \in GF
  BY RowSumIsTotal DEF Rows
<1> HIDE DEF f
<1>3. Elements(f, KN)
  BY <1>2 DEF Elements
<1>4. \A k \in 0 .. KN : k # 0 => k - 1 \in 0 .. KN - 1
  BY <1>1
<1>5. \A u : TotalsOf(f, KN, u) <=> u = Next1(u)
  BY <1>2, <1>4 DEF TotalsOf
<1>6. TotalsOf(f, KN, h) /\ \A u : TotalsOf(f, KN, u) => u[KN] = GFTotal(f, KN)
  BY <1>1, <1>3, TotalsSolve
<1>7. Eval(s, i) = v[KN]
  <2>1. Eval(s, i) = GFSum(KN, LAMBDA r : RowSum(i, s, r))
    BY DEF Eval, RowSum
  <2> QED
    BY <2>1 DEF GFSum
<1> HIDE DEF h
<1>8. h = Next1(h)
  BY <1>5, <1>6
<1>9. v = Next1(v)
  <2> HIDE DEF Next1
  <2> QED
    BY <1>8
<1> HIDE DEF v, Next1
<1>10. v[KN] = GFTotal(f, KN)
  BY <1>5, <1>6, <1>9
<1> QED
  BY <1>3, <1>7, <1>10 DEF f

Places == (0 .. KN - 1) \X (0 .. KN - 1)

(* The upper triangle in row k, counted from 1, and what is listed there. *)
PairRow(k) == [c \in 1 .. KN - k + 1 |-> <<k - 1, k + c - 2>>]
PairRows == [k \in 1 .. KN |-> PairRow(k)]
Listed(i, s, pairs) ==
  [j \in 0 .. Len(pairs) - 1 |-> Product(i, s, pairs[j + 1][1], pairs[j + 1][2])]

(* Listed products are elements. *)
LEMMA ListedElements ==
  ASSUME NEW i \in 1 .. M, NEW s, Variables(s), NEW pairs \in Seq(Places)
  PROVE  Elements(Listed(i, s, pairs), Len(pairs))
<1>1. Len(pairs) \in Nat
  BY LenProperties
<1>2. ASSUME NEW j \in 0 .. Len(pairs) - 1
      PROVE  Listed(i, s, pairs)[j] \in GF
  <2>1. j + 1 \in 1 .. Len(pairs)
    BY <1>1
  <2>2. pairs[j + 1] \in Places
    BY <2>1, ElementOfSeq
  <2>3. pairs[j + 1][1] \in 0 .. KN - 1 /\ pairs[j + 1][2] \in 0 .. KN - 1
    BY <2>2 DEF Places
  <2> QED
    BY <2>3, ProductElements DEF Listed
<1> QED
  BY <1>2 DEF Elements

(* A row of the upper triangle adds up to the whole row. *)
LEMMA PairRowTotal ==
  ASSUME NEW i \in 1 .. M, NEW s, Variables(s), NEW k \in 1 .. KN
  PROVE  /\ PairRow(k) \in Seq(Places) /\ Len(PairRow(k)) = KN - k + 1
         /\ GFTotal(Listed(i, s, PairRow(k)), KN - k + 1) = Rows(i, s)[k - 1]
<1> DEFINE a == k - 1
           n == KN - k + 1
           f == Row(i, s, k - 1)
           g == Listed(i, s, PairRow(k))
<1>1. /\ KN \in Nat /\ a \in Nat /\ n \in Nat /\ a + n = KN /\ a \in 0 .. KN - 1
  BY KeyAssumption
<1>2. PairRow(k) \in [1 .. n -> Places]
  <2>1. \A c \in 1 .. n : k - 1 \in 0 .. KN - 1 /\ k + c - 2 \in 0 .. KN - 1
    BY <1>1
  <2> QED
    BY <2>1 DEF PairRow, Places
<1>3. PairRow(k) \in Seq(Places) /\ Len(PairRow(k)) = n
  <2> HIDE DEF n
  <2> QED
    BY <1>1, <1>2, FunctionIsSequence
<1>4. Elements(f, KN) /\ GFTotal(f, KN) = Rows(i, s)[k - 1] /\ GFTotal(f, KN) \in GF
  BY <1>1, RowSumIsTotal DEF Rows
<1>5. \A c \in 0 .. a - 1 : f[c] = 0
  <2> TAKE c \in 0 .. a - 1
  <2>1. c \in 0 .. KN - 1 /\ c < k - 1 /\ k - 1 \in 0 .. KN - 1
    BY <1>1
  <2> QED
    BY <2>1, ProductElements DEF Row
<1>6. \A c \in 0 .. n - 1 : g[c] = f[a + c]
  <2> TAKE c \in 0 .. n - 1
  <2>1. c + 1 \in 1 .. n /\ a + c \in 0 .. KN - 1 /\ k + (c + 1) - 2 = a + c
    BY <1>1
  <2>2. PairRow(k)[c + 1] = <<k - 1, k + (c + 1) - 2>>
    BY <2>1 DEF PairRow
  <2>3. g[c] = Product(i, s, k - 1, a + c)
    BY <1>3, <2>1, <2>2 DEF Listed
  <2> QED
    BY <2>1, <2>3 DEF Row
<1>7. Elements(g, n)
  BY <1>3, ListedElements
<1> HIDE DEF f, g, a, n
<1>8. GFTotal(f, a + n) = GFTotal(f, a) ++ GFTotal(g, n)
  BY ONLY <1>1, <1>4, <1>6, TotalSplit
<1>9. GFTotal(f, a) = 0
  BY ONLY <1>1, <1>5, TotalOfZeros
<1>10. n \in 0 .. n
  BY ONLY <1>1
<1>11. GFTotal(g, n) \in GF
  BY ONLY <1>1, <1>7, <1>10, TotalSteps
<1>12. GFTotal(f, KN) = GFTotal(g, n)
  BY ONLY <1>1, <1>8, <1>9, <1>11, AdditionOfZero
<1> QED
  BY <1>3, <1>4, <1>12 DEF n, g

(* All pairs of the upper triangle add up to the form. *)
LEMMA PairsTotal ==
  ASSUME NEW i \in 1 .. M, NEW s, Variables(s)
  PROVE  /\ Pairs \in Seq(Places)
         /\ GFTotal(Listed(i, s, Pairs), Len(Pairs)) = Eval(s, i)
<1> DEFINE rows == Rows(i, s)
           Total(pairs) == GFTotal(Listed(i, s, pairs), Len(pairs))
<1>1. KN \in Nat \ {0} /\ 1 \in 1 .. KN /\ KN \in 1 .. KN
  BY KeyAssumption
<1>2. \A k \in 1 .. KN : /\ PairRow(k) \in Seq(Places)
                         /\ Len(PairRow(k)) \in Nat
                         /\ Total(PairRow(k)) = rows[k - 1]
  BY <1>1, PairRowTotal, LenProperties
<1>3. Chain(PairRows, KN, Places)
  <2>1. PairRows \in [1 .. KN -> Seq(Places)]
    BY <1>2 DEF PairRows
  <2> QED
    BY <1>1, <2>1, FunctionIsSequence DEF Chain
<1>4. Pairs = FlattenSeq(PairRows)
  BY DEF Pairs, PairRows, PairRow
<1>5. PICK g : Joins(g, PairRows, KN, Places) /\ FlattenSeq(PairRows) = g[KN]
  BY <1>1, <1>3, FlattenJoins
<1>6. /\ \A k \in 1 .. KN : g[k] \in Seq(Places) /\ PairRows[k] = PairRow(k)
      /\ g[1] = PairRows[1]
      /\ \A k \in 2 .. KN : g[k] = g[k - 1] \o PairRows[k]
  BY <1>5 DEF Joins, PairRows
<1>7. Elements(rows, KN) /\ Eval(s, i) = GFTotal(rows, KN)
  BY EvalIsTotal
<1>8. /\ GFTotal(rows, 0) = 0
      /\ \A k \in 0 .. KN : GFTotal(rows, k) \in GF
      /\ \A k \in 0 .. KN - 1 : GFTotal(rows, k + 1) = GFTotal(rows, k) ++ rows[k]
  BY <1>1, <1>7, TotalSteps
<1> HIDE DEF rows
<1> DEFINE T == {j \in Nat : j + 1 <= KN => Total(g[j + 1]) = GFTotal(rows, j + 1)}
<1>9. 0 \in T
  <2>1. Total(g[1]) = rows[0]
    <3>1. g[1] = PairRow(1) /\ 1 - 1 = 0
      BY <1>1, <1>6
    <3> HIDE DEF Total
    <3> QED
      BY <1>1, <1>2, <3>1
  <2>2. GFTotal(rows, 0 + 1) = GFTotal(rows, 0) ++ rows[0] /\ rows[0] \in GF
    <3>1. 0 \in 0 .. KN - 1
      BY <1>1
    <3> QED
      BY <1>7, <1>8, <3>1 DEF Elements
  <2>3. GFTotal(rows, 1) = rows[0] /\ 0 + 1 = 1
    BY <1>8, <2>2, AdditionOfZero
  <2> HIDE DEF Total
  <2> QED
    BY <2>1, <2>3
<1>10. ASSUME NEW j \in Nat, j \in T
       PROVE  j + 1 \in T
  <2> DEFINE k == j + 1
             m == k + 1
  <2> SUFFICES ASSUME m <= KN
               PROVE  Total(g[m]) = GFTotal(rows, m)
    OBVIOUS
  <2>1. k \in 1 .. KN /\ m \in 1 .. KN /\ m \in 2 .. KN /\ m - 1 = k /\ k \in 0 .. KN - 1
    BY <1>1
  <2>2. Total(g[k]) = GFTotal(rows, k)
    <3> HIDE DEF Total
    <3> QED
      BY <1>10, <2>1
  <2> HIDE DEF k, m
  <2> DEFINE p == g[k]
             q == PairRow(m)
             a == Len(p)
             n == Len(q)
             f == Listed(i, s, p \o q)
             fp == Listed(i, s, p)
             fq == Listed(i, s, q)
  <2>3. p \in Seq(Places) /\ q \in Seq(Places) /\ g[m] = p \o q /\ Total(q) = rows[k]
    BY <1>2, <1>6, <2>1
  <2> HIDE DEF p, q
  <2>4. /\ p \o q \in Seq(Places) /\ Len(p \o q) = a + n
        /\ \A x \in 1 .. a + n : (p \o q)[x] = IF x <= a THEN p[x] ELSE q[x - a]
    BY ONLY <2>3, ConcatProperties
  <2>5. a \in Nat /\ n \in Nat
    BY <2>3, LenProperties
  <2>6. Elements(f, a + n) /\ Elements(fp, a) /\ Elements(fq, n)
    BY <2>3, <2>4, ListedElements
  <2>7. \A x \in 0 .. a - 1 : fp[x] = f[x]
    <3> TAKE x \in 0 .. a - 1
    <3>1. x + 1 \in 1 .. a + n /\ x + 1 <= a /\ x \in 0 .. (a + n) - 1
      BY <2>5
    <3>2. (p \o q)[x + 1] = p[x + 1]
      BY ONLY <2>4, <3>1
    <3> HIDE DEF a, n
    <3>3. f[x] = Product(i, s, p[x + 1][1], p[x + 1][2])
      BY <2>4, <3>1, <3>2 DEF Listed
    <3>4. fp[x] = Product(i, s, p[x + 1][1], p[x + 1][2])
      BY DEF Listed, a
    <3> QED
      BY <3>3, <3>4
  <2>8. \A x \in 0 .. n - 1 : fq[x] = f[a + x]
    <3> TAKE x \in 0 .. n - 1
    <3>1. /\ (a + x) + 1 \in 1 .. a + n /\ ~ ((a + x) + 1 <= a) /\ ((a + x) + 1) - a = x + 1
          /\ a + x \in 0 .. (a + n) - 1
      BY <2>5
    <3>2. (p \o q)[(a + x) + 1] = q[x + 1]
      <4>1. (p \o q)[(a + x) + 1] = q[((a + x) + 1) - a]
        BY ONLY <2>4, <3>1
      <4> QED
        BY <3>1, <4>1
    <3> HIDE DEF a, n
    <3>3. f[a + x] = Product(i, s, q[x + 1][1], q[x + 1][2])
      BY <2>4, <3>1, <3>2 DEF Listed
    <3>4. fq[x] = Product(i, s, q[x + 1][1], q[x + 1][2])
      BY DEF Listed, n
    <3> QED
      BY <3>3, <3>4
  <2>9. /\ Total(g[m]) = GFTotal(f, a + n)
        /\ Total(q) = GFTotal(fq, n)
        /\ GFTotal(rows, k) = GFTotal(fp, a)
    BY <2>2, <2>3, <2>4 DEF p
  <2> HIDE DEF f, fp, fq, a, n, Total
  <2>10. GFTotal(f, a + n) = GFTotal(f, a) ++ GFTotal(fq, n)
    BY ONLY <2>5, <2>6, <2>8, TotalSplit
  <2>11. GFTotal(fp, a) = GFTotal(f, a)
    <3>1. \A x \in 0 .. a - 1 : fp[x] = f[x] /\ fp[x] \in GF
      BY <2>6, <2>7 DEF Elements
    <3> QED
      BY ONLY <2>5, <3>1, TotalsAgree
  <2>12. GFTotal(rows, m) = GFTotal(rows, k) ++ rows[k]
    <3>1. m = k + 1
      BY DEF m
    <3> QED
      BY <1>8, <2>1, <3>1
  <2> QED
    BY <2>3, <2>9, <2>10, <2>11, <2>12
<1> HIDE DEF T
<1>11. KN - 1 \in T
  BY <1>1, <1>9, <1>10, NumbersInductive
<1>12. Total(g[KN]) = GFTotal(rows, KN)
  <2>1. KN - 1 \in Nat /\ (KN - 1) + 1 = KN /\ KN <= KN
    BY <1>1
  <2> HIDE DEF Total
  <2> QED
    BY <1>11, <2>1 DEF T
<1> QED
  BY <1>1, <1>4, <1>5, <1>6, <1>7, <1>12

(***************************************************************************)
(* The table of terms.                                                     *)
(***************************************************************************)

Term == [r : 0 .. KN - 1, c : 0 .. KN - 1, offset : Nat]
Tables == [terms : Seq(Term), coeffs : Seq(GF)]

(* The table with one more pair, and with one more pair unless it is zero in every form. *)
Entry(table, n) ==
  [terms |-> Append(table.terms, [r |-> Pairs[n][1], c |-> Pairs[n][2],
                                  offset |-> Len(table.coeffs)]),
   coeffs |-> table.coeffs \o Coefficients(Pairs[n])]
Extended(table, n) == IF Coefficients(Pairs[n]) = Zeros(M) THEN table ELSE Entry(table, n)
EmptyTable == [terms |-> <<>>, coeffs |-> <<>>]

(* The equation of the function in TermTable. *)
TablesOf(u) ==
  u = [n \in 0 .. Len(Pairs) |->
         IF n = 0 THEN EmptyTable
         ELSE IF Coefficients(Pairs[n]) = Zeros(M) THEN u[n - 1] ELSE Entry(u[n - 1], n)]

(* Tables are kept tables. *)
LEMMA TablesExtend ==
  ASSUME NEW n \in 1 .. Len(Pairs), NEW table \in Tables
  PROVE  /\ Extended(table, n) \in Tables
         /\ Entry(table, n) \in Tables
         /\ Pairs[n] \in Places
         /\ Coefficients(Pairs[n]) \in [1 .. M -> GF]
<1>1. Pairs \in Seq(Places) /\ M \in Nat
  <2>1. 1 \in 1 .. M /\ M \in Nat
    BY KeyAssumption
  <2>2. Variables([k \in 1 .. KN |-> 0])
    BY AdditionOfZero DEF Variables
  <2> QED
    BY <2>1, <2>2, PairsTotal
<1>2. Pairs[n] \in Places
  BY <1>1, ElementOfSeq
<1>3. Pairs[n][1] \in 0 .. KN - 1 /\ Pairs[n][2] \in 0 .. KN - 1
  BY <1>2 DEF Places
<1>4. Coefficients(Pairs[n]) \in [1 .. M -> GF]
  <2>1. \A i \in 1 .. M : Forms[i][Pairs[n][1]][Pairs[n][2]] \in GF
    BY <1>3, KeyAssumption
  <2> QED
    BY <2>1 DEF Coefficients
<1> DEFINE t == table.terms
           a == table.coeffs
           x == [r |-> Pairs[n][1], c |-> Pairs[n][2], offset |-> Len(a)]
           b == Coefficients(Pairs[n])
<1>5. t \in Seq(Term) /\ a \in Seq(GF)
  BY DEF Tables
<1>6. b \in Seq(GF)
  BY <1>1, <1>4, FunctionIsSequence
<1>7. Len(a) \in Nat
  BY <1>5, LenProperties
<1>8. x \in Term
  BY <1>3, <1>7 DEF Term
<1>9. Entry(table, n) = [terms |-> Append(t, x), coeffs |-> a \o b]
  BY DEF Entry
<1> HIDE DEF t, a, x, b
<1>10. Append(t, x) \in Seq(Term)
  BY ONLY <1>5, <1>8, AppendProperties
<1>11. a \o b \in Seq(GF)
  BY ONLY <1>5, <1>6, ConcatProperties
<1>12. Entry(table, n) \in Tables
  BY ONLY <1>9, <1>10, <1>11 DEF Tables
<1>13. Extended(table, n) \in Tables
  BY <1>12 DEF Extended
<1> QED
  BY <1>2, <1>4, <1>12, <1>13

(* TermTable extends the empty table by one pair after the other. *)
LEMMA TableSteps ==
  \E g \in [0 .. Len(Pairs) -> Tables] :
    /\ g[0] = EmptyTable
    /\ \A n \in 1 .. Len(Pairs) : g[n] = Extended(g[n - 1], n)
    /\ TermTable = g[Len(Pairs)]
<1> DEFINE N == Len(Pairs)
           step == [p \in (1 .. N) \X Tables |-> Extended(p[2], p[1])]
           u == CHOOSE u : TablesOf(u)
<1>1. N \in Nat
  <2>1. 1 \in 1 .. M /\ Variables([k \in 1 .. KN |-> 0])
    BY KeyAssumption, AdditionOfZero DEF Variables
  <2>2. Pairs \in Seq(Places)
    BY <2>1, PairsTotal
  <2> QED
    BY <2>2, LenProperties
<1>2. EmptyTable \in Tables
  BY EmptySeq DEF EmptyTable, Tables
<1>3. \A n \in 1 .. N, table \in Tables : Extended(table, n) \in Tables
  BY TablesExtend
<1>4. step \in [(1 .. N) \X Tables -> Tables]
  BY <1>3
<1>5. \A n \in 1 .. N, table \in Tables : step[<<n, table>>] = Extended(table, n)
  OBVIOUS
<1>6. TermTable = u[N]
  BY DEF TermTable, TablesOf, Entry, EmptyTable
<1> HIDE DEF N, step
<1>7. PICK g \in [0 .. N -> Tables] : Follows(g, N, Tables, EmptyTable, step)
  BY <1>1, <1>2, <1>4, RecursionExists
<1>8. g[0] = EmptyTable /\ \A n \in 1 .. N : g[n] = Extended(g[n - 1], n)
  <2>1. \A n \in 1 .. N : n - 1 \in 0 .. N
    BY <1>1
  <2> QED
    BY <1>5, <1>7, <2>1 DEF Follows
<1>9. TablesOf(g)
  <2>1. ASSUME NEW n \in 0 .. N
        PROVE  g[n] = IF n = 0 THEN EmptyTable
                      ELSE IF Coefficients(Pairs[n]) = Zeros(M) THEN g[n - 1]
                      ELSE Entry(g[n - 1], n)
    <3>1. CASE n = 0
      BY <1>8, <3>1
    <3>2. CASE n # 0
      <4>1. n \in 1 .. N
        BY <1>1, <3>2
      <4> QED
        BY <1>8, <3>2, <4>1 DEF Extended
    <3> QED
      BY <3>1, <3>2
  <2>2. g = [n \in 0 .. N |-> g[n]]
    OBVIOUS
  <2>3. g = [n \in 0 .. N |->
               IF n = 0 THEN EmptyTable
               ELSE IF Coefficients(Pairs[n]) = Zeros(M) THEN g[n - 1] ELSE Entry(g[n - 1], n)]
    BY <2>1, <2>2
  <2> QED
    BY <2>3 DEF TablesOf, N
<1>10. TablesOf(u)
  BY <1>9
<1> HIDE DEF u
<1>11. Follows(u, N, Tables, EmptyTable, step)
  <2>1. u = [n \in 0 .. N |->
               IF n = 0 THEN EmptyTable
               ELSE IF Coefficients(Pairs[n]) = Zeros(M) THEN u[n - 1] ELSE Entry(u[n - 1], n)]
    BY <1>10 DEF TablesOf, N
  <2>2. 0 \in 0 .. N /\ \A n \in 1 .. N : n \in 0 .. N /\ n # 0
    BY <1>1
  <2>3. u[0] = EmptyTable
    BY <2>1, <2>2
  <2>4. \A n \in 1 .. N : u[n] = Extended(u[n - 1], n)
    BY <2>1, <2>2 DEF Extended
  <2> QED
    BY <1>5, <2>3, <2>4 DEF Follows
<1>12. N \in 0 .. N
  BY <1>1
<1>13. u[N] = g[N]
  BY <1>1, <1>7, <1>11, <1>12, RecursionUnique
<1> QED
  BY <1>6, <1>7, <1>8, <1>13 DEF N

(* What the terms of a table add up to. *)
TermValues(i, s, table) ==
  [t \in 0 .. Len(table.terms) - 1 |->
     table.coeffs[table.terms[t + 1].offset + i]
       ** (s[table.terms[t + 1].r + 1] ** s[table.terms[t + 1].c + 1])]
TableTotal(i, s, table) == GFTotal(TermValues(i, s, table), Len(table.terms))

(* Each term has its coefficients, one for every form. *)
Filled(table) == \A t \in 1 .. Len(table.terms) : table.terms[t].offset + M <= Len(table.coeffs)

(* The values of terms are elements. *)
LEMMA TermElements ==
  ASSUME NEW i \in 1 .. M, NEW s, Variables(s), NEW table \in Tables, Filled(table)
  PROVE  /\ Elements(TermValues(i, s, table), Len(table.terms))
         /\ \A t \in 1 .. Len(table.terms) :
              table.terms[t] \in Term /\ table.terms[t].offset + i \in 1 .. Len(table.coeffs)
<1>1. /\ table.terms \in Seq(Term) /\ table.coeffs \in Seq(GF) /\ M \in Nat /\ KN \in Nat
      /\ Len(table.terms) \in Nat /\ Len(table.coeffs) \in Nat
  BY KeyAssumption, LenProperties DEF Tables
<1>2. ASSUME NEW t \in 1 .. Len(table.terms)
      PROVE  /\ table.terms[t] \in Term /\ table.terms[t].offset + i \in 1 .. Len(table.coeffs)
             /\ table.coeffs[table.terms[t].offset + i] \in GF
             /\ s[table.terms[t].r + 1] ** s[table.terms[t].c + 1] \in GF
  <2>1. table.terms[t] \in Term
    BY <1>1, ElementOfSeq
  <2>2. table.terms[t].offset \in Nat /\ table.terms[t].offset + M <= Len(table.coeffs)
    BY <2>1 DEF Term, Filled
  <2>3. table.terms[t].offset + i \in 1 .. Len(table.coeffs)
    BY <1>1, <2>2
  <2>4. table.coeffs[table.terms[t].offset + i] \in GF
    BY <1>1, <2>3, ElementOfSeq
  <2>5. table.terms[t].r \in 0 .. KN - 1 /\ table.terms[t].c \in 0 .. KN - 1
    BY <2>1 DEF Term
  <2>6. s[table.terms[t].r + 1] ** s[table.terms[t].c + 1] \in GF
    BY <2>5, ProductElements
  <2> QED
    BY <2>1, <2>3, <2>4, <2>6
<1>3. ASSUME NEW t \in 0 .. Len(table.terms) - 1
      PROVE  TermValues(i, s, table)[t] \in GF
  <2>1. t + 1 \in 1 .. Len(table.terms)
    BY <1>1
  <2> QED
    BY <1>2, <2>1, Products DEF TermValues
<1> QED
  BY <1>2, <1>3 DEF Elements

(* An entry adds its product to the others. *)
LEMMA EntryAdds ==
  ASSUME NEW i \in 1 .. M, NEW s, Variables(s), NEW table \in Tables, Filled(table),
         NEW n \in 1 .. Len(Pairs)
  PROVE  /\ Filled(Entry(table, n))
         /\ TableTotal(i, s, Entry(table, n))
              = TableTotal(i, s, table) ++ Product(i, s, Pairs[n][1], Pairs[n][2])
<1> DEFINE t == table.terms
           a == table.coeffs
           l == Len(t)
           k == Len(a)
           x == [r |-> Pairs[n][1], c |-> Pairs[n][2], offset |-> k]
           b == Coefficients(Pairs[n])
           more == Entry(table, n)
           f == TermValues(i, s, table)
           g == TermValues(i, s, more)
<1>1. M \in Nat \ {0} /\ KN \in Nat
  BY KeyAssumption
<1>2. /\ more \in Tables /\ Pairs[n] \in Places /\ b \in [1 .. M -> GF]
  BY TablesExtend
<1>3. Pairs[n][1] \in 0 .. KN - 1 /\ Pairs[n][2] \in 0 .. KN - 1
  BY <1>2 DEF Places
<1>4. t \in Seq(Term) /\ a \in Seq(GF) /\ l \in Nat /\ k \in Nat
  BY LenProperties DEF Tables
<1>5. b \in Seq(GF) /\ Len(b) = M
  BY <1>1, <1>2, FunctionIsSequence
<1>6. x \in Term
  BY <1>3, <1>4 DEF Term
<1>7. more.terms = Append(t, x) /\ more.coeffs = a \o b
  BY DEF Entry
<1>8. b[i] = Forms[i][Pairs[n][1]][Pairs[n][2]]
  BY DEF Coefficients
<1>9. x.r = Pairs[n][1] /\ x.c = Pairs[n][2] /\ x.offset = k
  OBVIOUS
<1>10. l = Len(t) /\ k = Len(a) /\ t = table.terms /\ a = table.coeffs
  OBVIOUS
<1> HIDE DEF t, a, l, k, x, b, more
<1>11. /\ Len(more.terms) = l + 1
       /\ \A e \in 1 .. l : more.terms[e] = t[e]
       /\ more.terms[l + 1] = x
  BY ONLY <1>4, <1>6, <1>7, <1>10, AppendProperties
<1>12. /\ Len(more.coeffs) = k + M
       /\ \A e \in 1 .. k + M : more.coeffs[e] = IF e <= k THEN a[e] ELSE b[e - k]
  <2>1. /\ Len(a \o b) = Len(a) + Len(b)
        /\ \A e \in 1 .. Len(a) + Len(b) : (a \o b)[e] = IF e <= Len(a) THEN a[e] ELSE b[e - Len(a)]
    BY ONLY <1>4, <1>5, ConcatProperties
  <2> QED
    BY ONLY <1>5, <1>7, <1>10, <2>1
<1>13. \A e \in 1 .. l : t[e].offset + M <= k
  BY <1>10 DEF Filled
<1>14. Filled(more)
  <2>1. ASSUME NEW e \in 1 .. l + 1
        PROVE  more.terms[e].offset + M <= k + M
    <3>1. CASE e <= l
      <4>1. e \in 1 .. l
        BY <1>4, <3>1
      <4>2. t[e] \in Term
        BY <1>4, <1>10, <4>1, ElementOfSeq
      <4>3. t[e].offset \in Nat /\ t[e].offset + M <= k /\ more.terms[e] = t[e]
        BY <1>11, <1>13, <4>1, <4>2 DEF Term
      <4> QED
        BY <1>1, <1>4, <4>3
    <3>2. CASE ~ (e <= l)
      <4>1. e = l + 1
        BY <1>4, <3>2
      <4>2. more.terms[e] = x
        BY <1>11, <4>1
      <4> QED
        BY <1>1, <1>4, <1>9, <4>2
    <3> QED
      BY <3>1, <3>2
  <2> QED
    BY <1>11, <1>12, <2>1 DEF Filled
<1>15. /\ Elements(f, l) /\ Elements(g, l + 1)
       /\ \A e \in 1 .. l : t[e] \in Term /\ t[e].offset + i \in 1 .. k
  <2>1. /\ Elements(TermValues(i, s, table), Len(table.terms))
        /\ \A e \in 1 .. Len(table.terms) :
             table.terms[e] \in Term /\ table.terms[e].offset + i \in 1 .. Len(table.coeffs)
    BY TermElements
  <2>2. Elements(TermValues(i, s, more), Len(more.terms))
    BY <1>2, <1>14, TermElements
  <2> QED
    BY <1>10, <1>11, <2>1, <2>2
<1>16. \A e \in 0 .. l - 1 : f[e] = g[e]
  <2> TAKE e \in 0 .. l - 1
  <2>1. e + 1 \in 1 .. l /\ e \in 0 .. (l + 1) - 1
    BY <1>4
  <2> DEFINE y == t[e + 1]
             o == y.offset + i
  <2>2. more.terms[e + 1] = y /\ o \in 1 .. k
    BY <1>11, <1>15, <2>1
  <2>3. f[e] = a[o] ** (s[y.r + 1] ** s[y.c + 1])
    BY <1>10 DEF TermValues
  <2>4. g[e] = more.coeffs[o] ** (s[y.r + 1] ** s[y.c + 1])
    BY <1>11, <2>1, <2>2 DEF TermValues
  <2>5. more.coeffs[o] = a[o]
    <3>1. o \in 1 .. k + M /\ o <= k
      BY <1>1, <1>4, <2>2
    <3> QED
      BY <1>12, <3>1
  <2> QED
    BY <2>3, <2>4, <2>5
<1>17. g[l] = Product(i, s, Pairs[n][1], Pairs[n][2])
  <2>1. l \in 0 .. (l + 1) - 1 /\ k + i \in 1 .. k + M /\ ~ (k + i <= k) /\ (k + i) - k = i
    BY <1>1, <1>4
  <2>2. g[l] = more.coeffs[x.offset + i] ** (s[x.r + 1] ** s[x.c + 1])
    BY <1>11, <2>1 DEF TermValues
  <2>3. more.coeffs[k + i] = b[(k + i) - k]
    BY ONLY <1>12, <2>1
  <2>4. more.coeffs[k + i] = b[i]
    BY <2>1, <2>3
  <2> QED
    BY <1>8, <1>9, <2>2, <2>4 DEF Product
<1>18. TableTotal(i, s, more) = GFTotal(g, l + 1) /\ TableTotal(i, s, table) = GFTotal(f, l)
  BY <1>10, <1>11 DEF TableTotal
<1> HIDE DEF f, g
<1>19. GFTotal(f, l) = GFTotal(g, l)
  <2>1. \A e \in 0 .. l - 1 : f[e] = g[e] /\ f[e] \in GF
    BY <1>15, <1>16 DEF Elements
  <2> QED
    BY ONLY <1>4, <2>1, TotalsAgree
<1>20. GFTotal(g, l + 1) = GFTotal(g, l) ++ g[l]
  <2>1. l + 1 \in Nat /\ l \in 0 .. (l + 1) - 1
    BY <1>4
  <2>2. \A m \in 0 .. (l + 1) - 1 : GFTotal(g, m + 1) = GFTotal(g, m) ++ g[m]
    BY ONLY <1>15, <2>1, TotalSteps
  <2> QED
    BY <2>1, <2>2
<1> QED
  BY <1>14, <1>17, <1>18, <1>19, <1>20 DEF more

(* A pair that is zero in every form adds nothing. *)
LEMMA ZeroPairAddsNothing ==
  ASSUME NEW i \in 1 .. M, NEW s, Variables(s), NEW n \in 1 .. Len(Pairs),
         Coefficients(Pairs[n]) = Zeros(M)
  PROVE  Product(i, s, Pairs[n][1], Pairs[n][2]) = 0
<1>1. EmptyTable \in Tables
  BY EmptySeq DEF EmptyTable, Tables
<1>2. Pairs[n] \in Places
  BY <1>1, TablesExtend
<1>3. Pairs[n][1] \in 0 .. KN - 1 /\ Pairs[n][2] \in 0 .. KN - 1
  BY <1>2 DEF Places
<1>4. Forms[i][Pairs[n][1]][Pairs[n][2]] = 0
  <2>1. Coefficients(Pairs[n])[i] = Zeros(M)[i]
    OBVIOUS
  <2> QED
    BY <2>1 DEF Coefficients, Zeros
<1>5. s[Pairs[n][1] + 1] ** s[Pairs[n][2] + 1] \in GF
  BY <1>3, ProductElements
<1> QED
  BY <1>4, <1>5, Products DEF Product

(* The terms of the table, with the coefficients of form i, add up to the form. *)
LEMMA TableIsForm ==
  ASSUME NEW i \in 1 .. M, NEW s, Variables(s)
  PROVE  /\ TermTable \in Tables /\ Filled(TermTable)
         /\ TableTotal(i, s, TermTable) = Eval(s, i)
<1> DEFINE N == Len(Pairs)
           p == Listed(i, s, Pairs)
<1>1. Pairs \in Seq(Places) /\ GFTotal(p, N) = Eval(s, i)
  BY PairsTotal
<1>2. N \in Nat /\ Elements(p, N)
  BY <1>1, LenProperties, ListedElements
<1>3. \A n \in 1 .. N : p[n - 1] = Product(i, s, Pairs[n][1], Pairs[n][2])
  <2> TAKE n \in 1 .. N
  <2>1. n - 1 \in 0 .. N - 1 /\ (n - 1) + 1 = n
    BY <1>2
  <2> QED
    BY <2>1 DEF Listed
<1>4. /\ GFTotal(p, 0) = 0
      /\ \A n \in 0 .. N : GFTotal(p, n) \in GF
      /\ \A n \in 0 .. N - 1 : GFTotal(p, n + 1) = GFTotal(p, n) ++ p[n]
  <2> HIDE DEF p, N
  <2> QED
    BY ONLY <1>2, TotalSteps
<1>5. PICK g \in [0 .. N -> Tables] :
        /\ g[0] = EmptyTable
        /\ \A n \in 1 .. N : g[n] = Extended(g[n - 1], n)
        /\ TermTable = g[N]
  BY TableSteps
<1> DEFINE Adds(n) == Filled(g[n]) /\ TableTotal(i, s, g[n]) = GFTotal(p, n)
           T == {n \in Nat : n <= N => Adds(n)}
<1>6. 0 \in T
  <2>1. g[0].terms = <<>> /\ Len(g[0].terms) = 0
    BY <1>5, EmptySeq DEF EmptyTable
  <2>2. Filled(g[0])
    BY <2>1 DEF Filled
  <2>3. TableTotal(i, s, g[0]) = GFTotal(TermValues(i, s, g[0]), 0)
    BY <2>1 DEF TableTotal
  <2>4. Elements(TermValues(i, s, g[0]), 0)
    BY DEF Elements
  <2>5. GFTotal(TermValues(i, s, g[0]), 0) = 0
    <3>1. 0 \in Nat
      OBVIOUS
    <3> QED
      BY ONLY <2>4, <3>1, TotalSteps
  <2> QED
    BY <1>4, <2>2, <2>3, <2>5
<1>7. ASSUME NEW n \in Nat, n \in T
      PROVE  n + 1 \in T
  <2> DEFINE m == n + 1
  <2> SUFFICES ASSUME m <= N
               PROVE  Adds(m)
    OBVIOUS
  <2>1. n \in 0 .. N - 1 /\ n \in 0 .. N /\ m \in 1 .. N /\ m - 1 = n /\ n <= N
    BY <1>2
  <2>2. Filled(g[n]) /\ TableTotal(i, s, g[n]) = GFTotal(p, n) /\ g[n] \in Tables
    BY <1>7, <2>1
  <2>3. g[m] = Extended(g[n], m) /\ p[n] = Product(i, s, Pairs[m][1], Pairs[m][2])
    BY <1>3, <1>5, <2>1
  <2>4. GFTotal(p, m) = GFTotal(p, n) ++ p[n] /\ GFTotal(p, n) \in GF
    BY <1>4, <2>1
  <2> HIDE DEF m
  <2>5. CASE Coefficients(Pairs[m]) = Zeros(M)
    <3>1. p[n] = 0
      BY <2>1, <2>3, <2>5, ZeroPairAddsNothing
    <3>2. GFTotal(p, m) = GFTotal(p, n)
      BY <2>4, <3>1, AdditionOfZero
    <3>3. g[m] = g[n]
      BY <2>3, <2>5 DEF Extended
    <3> QED
      BY <2>2, <3>2, <3>3
  <2>6. CASE Coefficients(Pairs[m]) # Zeros(M)
    <3>1. g[m] = Entry(g[n], m)
      BY <2>3, <2>6 DEF Extended
    <3>2. /\ Filled(Entry(g[n], m))
          /\ TableTotal(i, s, Entry(g[n], m))
               = TableTotal(i, s, g[n]) ++ Product(i, s, Pairs[m][1], Pairs[m][2])
      BY <2>1, <2>2, EntryAdds
    <3> QED
      BY <2>2, <2>3, <2>4, <3>1, <3>2
  <2> QED
    BY <2>5, <2>6
<1> HIDE DEF T, p, N
<1>8. N \in T
  BY <1>2, <1>6, <1>7, NumbersInductive
<1>9. Adds(N) /\ g[N] \in Tables
  <2>1. N \in 0 .. N /\ N <= N
    BY <1>2
  <2> HIDE DEF Adds
  <2> QED
    BY <1>2, <1>5, <1>8, <2>1 DEF T
<1> QED
  BY <1>1, <1>5, <1>9 DEF N, p

(* For every key and every assignment to the variables, the equations that
   the circuit asserts have the value of the whipped forms: neither the terms
   left out nor the flat list of coefficients change them (circuit.rs
   mayo_terms_and_hash). *)
THEOREM SystemIsForm ==
  ASSUME NEW i \in 1 .. M, NEW s \in [1 .. KN -> GF]
  PROVE  MayoSystem(s, i) = Eval(s, i)
<1> DEFINE n == Len(Terms)
           f == TermValues(i, s, TermTable)
           Next1(u) ==
             [k \in 0 .. n |-> IF k = 0 THEN 0
                ELSE u[k - 1] ++ (Arena[Terms[(k - 1) + 1].offset + i]
                       ** (s[Terms[(k - 1) + 1].r + 1] ** s[Terms[(k - 1) + 1].c + 1]))]
           v == CHOOSE u : u = Next1(u)
           h == [k \in 0 .. n |-> GFTotal(f, k)]
<1>1. Variables(s)
  BY DEF Variables
<1>2. TermTable \in Tables /\ Filled(TermTable) /\ TableTotal(i, s, TermTable) = Eval(s, i)
  BY <1>1, TableIsForm
<1>3. n \in Nat /\ Elements(f, n) /\ GFTotal(f, n) = Eval(s, i)
  <2>1. Terms \in Seq(Term)
    BY <1>2 DEF Terms, Tables
  <2>2. n \in Nat
    BY <2>1, LenProperties
  <2>3. Elements(f, n)
    BY <1>1, <1>2, TermElements DEF Terms
  <2> QED
    BY <1>2, <2>2, <2>3 DEF TableTotal, Terms
<1>4. MayoSystem(s, i) = v[n]
  BY DEF MayoSystem, GFSum
<1>5. \A k \in 0 .. n - 1 : f[k] = Arena[Terms[k + 1].offset + i]
                                     ** (s[Terms[k + 1].r + 1] ** s[Terms[k + 1].c + 1])
  BY DEF TermValues, Arena, Terms
<1> HIDE DEF f, n
<1>6. \A k \in 0 .. n : k # 0 => k - 1 \in 0 .. n - 1
  BY <1>3
<1>7. \A u : TotalsOf(f, n, u) <=> u = Next1(u)
  BY <1>5, <1>6 DEF TotalsOf
<1>8. TotalsOf(f, n, h) /\ \A u : TotalsOf(f, n, u) => u[n] = GFTotal(f, n)
  BY <1>3, TotalsSolve
<1> HIDE DEF h
<1>9. h = Next1(h)
  BY <1>7, <1>8
<1>10. v = Next1(v)
  <2> HIDE DEF Next1
  <2> QED
    BY <1>9
<1> HIDE DEF v, Next1
<1>11. v[n] = GFTotal(f, n)
  BY <1>7, <1>8, <1>10
<1> QED
  BY <1>3, <1>4, <1>11

-----------------------------------------------------------------------------
(***************************************************************************)
(* The two additions, bit by bit.                                          *)
(***************************************************************************)

(* Bits read so far and the carries wired last, weighted, add up: the
   invariant of the ripple-carry loop. *)
PrefixSums ==
  /\ value["base"] + value["topup"] = value["effective"] + weight * carry["old"]
  /\ value["fresh"] + value["spend"] = value["effective"] + weight * carry["new"]

DirectWithoutTopup == kind = "direct" => value["topup"] = 0

IInv ==
  /\ weight \in Int
  /\ value \in [Values -> Int]
  /\ carry \in [Carries -> Bit]
  /\ PrefixSums
  /\ DirectWithoutTopup
  /\ outcome = "accepted" => FinalCarriesZero(carry)

(* The two equations of assert_u64_sum, which are over GF(2), make a bit of
   the sum and its carry the full adder's. *)
LEMMA FullAdder ==
  ASSUME NEW a \in Bit, NEW b \in Bit, NEW in \in Bit, NEW sum \in Bit,
         NEW out \in Bit, SumHolds(a, b, in, sum, out)
  PROVE  a + b + in = sum + 2 * out
<1>1. \A x \in {0, 1, 2, 3, 4} : x % 2 = 0 => x \in {0, 2, 4}
  BY SMT
<1>2. (a + b + in + sum) \in {0, 2, 4}
  <2>1. (a + b + in + sum) \in {0, 1, 2, 3, 4} BY DEF Bit
  <2> QED BY <1>1, <2>1 DEF SumHolds
<1>3. a * b + in * a + in * b + out \in {0, 2, 4}
  <2>1. a * b + in * a + in * b + out \in {0, 1, 2, 3, 4} BY DEF Bit
  <2> QED BY <1>1, <2>1 DEF SumHolds
<1>4. CASE a = 0 BY <1>2, <1>3, <1>4 DEF Bit
<1>5. CASE a = 1 BY <1>2, <1>3, <1>5 DEF Bit
<1> QED BY <1>4, <1>5 DEF Bit

(* One column of an addition with everything weighted. *)
LEMMA WeightedColumn ==
  ASSUME NEW w \in Int, NEW x \in Int, NEW y \in Int, NEW s \in Int,
         NEW a \in Bit, NEW b \in Bit, NEW in \in Bit, NEW sum \in Bit,
         NEW out \in Bit, SumHolds(a, b, in, sum, out), x + y = s + w * in
  PROVE  (x + w * a) + (y + w * b) = (s + w * sum) + (2 * w) * out
<1>1. a + b + in = sum + 2 * out BY FullAdder
<1>2. \A d \in Bit : w * d \in Int /\ (d = 0 => w * d = 0) /\ (d = 1 => w * d = w)
  BY DEF Bit
<1>3. (2 * w) * out = 2 * (w * out)
  BY DEF Bit
<1>4. w * a + w * b + w * in = w * sum + 2 * (w * out)
  BY <1>1, <1>2 DEF Bit
<1> QED BY <1>2, <1>3, <1>4

(* No bit is read: all sums are zero. *)
LEMMA InitIInv == Init => IInv
  BY DEF Init, IInv, PrefixSums, DirectWithoutTopup, Values, Carries, Bit

(* Reading a bit, by WeightedColumn for both additions, and the verdict. *)
LEMMA StepIInv == IInv /\ [Next]_vars => IInv'
<1> SUFFICES ASSUME IInv, [Next]_vars PROVE IInv'
  OBVIOUS
<1>1. ASSUME NEW w \in [Wires -> Bit], ReadBit(w), BitHolds(w)
      PROVE  IInv'
  <2>1. \A v \in Values \cup Carries : w[v] \in Bit BY DEF Wires
  <2>2. value' = [v \in Values |-> value[v] + weight * w[v]]
    BY <1>1 DEF ReadBit
  <2>3. carry' = [c \in Carries |-> w[c]] BY <1>1 DEF ReadBit
  <2>4. weight' = 2 * weight /\ UNCHANGED <<kind, outcome>> BY <1>1 DEF ReadBit
  <2>5. outcome' # "accepted" BY <1>1, <2>4 DEF ReadBit
  <2>6. weight' \in Int BY <2>4 DEF IInv
  <2>7. \A v \in Values : value[v] + weight * w[v] \in Int
    BY <2>1 DEF IInv, Bit
  <2>8. value' \in [Values -> Int] BY <2>2, <2>7
  <2>9. carry' \in [Carries -> Bit] BY <2>1, <2>3
  <2>10. PrefixSums'
    <3>1. value'["base"] + value'["topup"]
            = value'["effective"] + weight' * carry'["old"]
      <4>1. SumHolds(w["base"], w["topup"], carry["old"], w["effective"], w["old"])
        BY <1>1 DEF BitHolds
      <4>2. value["base"] + value["topup"] = value["effective"] + weight * carry["old"]
        BY DEF IInv, PrefixSums
      <4> DEFINE va == value["base"]
                 vb == value["topup"]
                 vs == value["effective"]
                 wa == w["base"]
                 wb == w["topup"]
                 ws == w["effective"]
                 ci == carry["old"]
                 co == w["old"]
      <4>3. /\ weight \in Int /\ va \in Int /\ vb \in Int /\ vs \in Int
            /\ wa \in Bit /\ wb \in Bit /\ ws \in Bit /\ ci \in Bit /\ co \in Bit
        BY <2>1 DEF IInv, Values, Carries
      <4>4. (va + weight * wa) + (vb + weight * wb) = (vs + weight * ws) + (2 * weight) * co
        <5> HIDE DEF va, vb, vs, wa, wb, ws, ci, co
        <5>1. SumHolds(wa, wb, ci, ws, co) BY <4>1 DEF wa, wb, ws, ci, co
        <5>2. va + vb = vs + weight * ci BY <4>2 DEF va, vb, vs, ci
        <5> QED BY <4>3, <5>1, <5>2, WeightedColumn
      <4> QED BY <2>2, <2>3, <2>4, <4>4 DEF Values, Carries
    <3>2. value'["fresh"] + value'["spend"]
            = value'["effective"] + weight' * carry'["new"]
      <4>1. SumHolds(w["fresh"], w["spend"], carry["new"], w["effective"], w["new"])
        BY <1>1 DEF BitHolds
      <4>2. value["fresh"] + value["spend"] = value["effective"] + weight * carry["new"]
        BY DEF IInv, PrefixSums
      <4> DEFINE va == value["fresh"]
                 vb == value["spend"]
                 vs == value["effective"]
                 wa == w["fresh"]
                 wb == w["spend"]
                 ws == w["effective"]
                 ci == carry["new"]
                 co == w["new"]
      <4>3. /\ weight \in Int /\ va \in Int /\ vb \in Int /\ vs \in Int
            /\ wa \in Bit /\ wb \in Bit /\ ws \in Bit /\ ci \in Bit /\ co \in Bit
        BY <2>1 DEF IInv, Values, Carries
      <4>4. (va + weight * wa) + (vb + weight * wb) = (vs + weight * ws) + (2 * weight) * co
        <5> HIDE DEF va, vb, vs, wa, wb, ws, ci, co
        <5>1. SumHolds(wa, wb, ci, ws, co) BY <4>1 DEF wa, wb, ws, ci, co
        <5>2. va + vb = vs + weight * ci BY <4>2 DEF va, vb, vs, ci
        <5> QED BY <4>3, <5>1, <5>2, WeightedColumn
      <4> QED BY <2>2, <2>3, <2>4, <4>4 DEF Values, Carries
    <3> QED BY <3>1, <3>2 DEF PrefixSums
  <2>11. DirectWithoutTopup'
    <3> SUFFICES ASSUME kind' = "direct" PROVE value'["topup"] = 0
      BY DEF DirectWithoutTopup
    <3>1. w["topup"] = 0 BY <1>1, <2>4 DEF BitHolds
    <3>2. value["topup"] = 0 BY <2>4 DEF IInv, DirectWithoutTopup
    <3>3. value'["topup"] = value["topup"] + weight * w["topup"]
      BY <2>2 DEF Values
    <3> QED BY <3>1, <3>2, <3>3 DEF IInv
  <2> QED BY <2>5, <2>6, <2>8, <2>9, <2>10, <2>11 DEF IInv
<1>2. ASSUME NEW w \in [Wires -> Bit], ReadBit(w), ~BitHolds(w)
      PROVE  IInv'
  BY <1>2 DEF ReadBit, IInv, PrefixSums, DirectWithoutTopup
<1>3. CASE Finish
  BY <1>3 DEF Finish, IInv, PrefixSums, DirectWithoutTopup, FinalCarriesZero
<1>4. CASE UNCHANGED vars
  BY <1>4 DEF vars, IInv, PrefixSums, DirectWithoutTopup, FinalCarriesZero
<1> QED BY <1>1, <1>2, <1>3, <1>4 DEF Next

(* The zero final carries leave the two sums. *)
LEMMA IInvImpliesBalances == IInv => AcceptedBalances
<1> SUFFICES ASSUME IInv, outcome = "accepted"
    PROVE /\ value["base"] + value["topup"] = value["effective"]
          /\ value["fresh"] + value["spend"] = value["effective"]
          /\ kind = "direct" => value["topup"] = 0
  BY DEF AcceptedBalances
<1>1. carry["old"] = 0 /\ carry["new"] = 0 BY DEF IInv, FinalCarriesZero
<1>2. weight * 0 = 0 /\ value["effective"] \in Int BY DEF IInv, Values
<1> QED BY <1>1, <1>2 DEF IInv, PrefixSums, DirectWithoutTopup

(* What the bits read so far stand for is below their weight. *)
Ranges ==
  /\ bit \in 0 .. BALANCE_BITS /\ weight = 2 ^ bit
  /\ value \in [Values -> 0 .. weight - 1]
  /\ outcome = "accepted" => bit = BALANCE_BITS

(* Nothing is read. *)
LEMMA InitRanges == Init => Ranges
<1> SUFFICES ASSUME Init
    PROVE  Ranges
  OBVIOUS
<1>1. BALANCE_BITS \in Nat /\ 2 ^ 0 = 1
  BY BitsAssumption, PowersDouble
<1>2. bit = 0 /\ weight = 1 /\ value = [v \in Values |-> 0] /\ outcome = "open"
  BY DEF Init
<1> QED
  BY <1>1, <1>2 DEF Ranges

(* A bit more doubles the weight. *)
LEMMA StepRanges == Ranges /\ [Next]_vars => Ranges'
<1> SUFFICES ASSUME Ranges, [Next]_vars
    PROVE  Ranges'
  OBVIOUS
<1>1. ASSUME NEW w \in [Wires -> Bit], ReadBit(w), BitHolds(w)
      PROVE  Ranges'
  <2>1. /\ value' = [v \in Values |-> value[v] + weight * w[v]]
        /\ bit' = bit + 1 /\ weight' = 2 * weight
        /\ outcome' = "open" /\ bit < BALANCE_BITS
    BY <1>1 DEF ReadBit, MoreBits
  <2>2. bit \in Nat /\ BALANCE_BITS \in Nat /\ bit + 1 \in 0 .. BALANCE_BITS
    BY <2>1, BitsAssumption DEF Ranges
  <2>3. 2 ^ (bit + 1) = 2 * 2 ^ bit /\ 2 ^ bit \in Nat \ {0}
    BY <2>2, PowersDouble
  <2>4. weight \in Nat \ {0} /\ weight' = 2 ^ bit'
    BY <2>1, <2>3 DEF Ranges
  <2>5. \A v \in Values : value[v] + weight * w[v] \in 0 .. 2 * weight - 1
    <3> TAKE v \in Values
    <3>1. value[v] \in 0 .. weight - 1 /\ w[v] \in {0, 1}
      BY DEF Ranges, Wires, Bit
    <3>2. weight * 0 = 0 /\ weight * 1 = weight
      BY <2>4
    <3>3. CASE w[v] = 0
      BY <2>4, <3>1, <3>2, <3>3
    <3>4. CASE w[v] = 1
      BY <2>4, <3>1, <3>2, <3>4
    <3> QED
      BY <3>1, <3>3, <3>4
  <2>6. value' \in [Values -> 0 .. weight' - 1]
    BY <2>1, <2>5
  <2> QED
    BY <2>1, <2>2, <2>4, <2>6 DEF Ranges
<1>2. ASSUME NEW w \in [Wires -> Bit], ReadBit(w), ~ BitHolds(w)
      PROVE  Ranges'
  BY <1>2 DEF ReadBit, Ranges
<1>3. CASE Finish
  BY <1>3 DEF Finish, Ranges
<1>4. CASE UNCHANGED vars
  BY <1>4 DEF vars, Ranges
<1> QED
  BY <1>1, <1>2, <1>3, <1>4 DEF Next

(* An accepted spend satisfies base + topup = effective = fresh + spend over
   the integers for every number of bits: no prover can wrap an addition or
   leave a carry out (circuit.rs assert_u64_sum). *)
THEOREM SpendsBalance == Spec => []AcceptedBalances
<1>1. Init => IInv BY InitIInv
<1>2. IInv /\ [Next]_vars => IInv' BY StepIInv
<1>3. IInv => AcceptedBalances BY IInvImpliesBalances
<1> QED BY <1>1, <1>2, <1>3, PTL DEF Spec

-----------------------------------------------------------------------------
(***************************************************************************)
(* The statements.  Each stage leaves what it has put on the wires in the  *)
(* state, connected with the wires of the stages before it.                *)
(***************************************************************************)

CredentialHashed ==
  /\ outcome = "accepted" /\ opening \in Openings
  /\ oldOutput = Shake(CredentialMessage(opening, value["base"]), 4 * M + NullifierBits)

TokenHashed ==
  /\ salt \in Secrets
  /\ signedTarget =
       Shake(TokenMessage(CredentialTarget(opening, value["base"]), value["topup"], salt), 4 * M)

SignatureChecked == \A i \in 1 .. M : Eval(signature, i) = Unnibbled(signedTarget)[i]

NullifierChecked == public.nullifier = DeriveNullifier(opening, value["base"])

FreshChecked == public.commitment = CredentialTarget(fresh, value["fresh"])

IssueChecked ==
  stage = "issued" <=> public.commitment = CredentialTarget(opening, public.balance)

StageInvariant ==
  /\ stage \in {"token", "signature", "nullifier", "fresh", "accepted"} => CredentialHashed
  /\ stage \in {"signature", "nullifier", "fresh", "accepted"} => TokenHashed
  /\ stage \in {"nullifier", "fresh", "accepted"} => SignatureChecked
  /\ stage \in {"fresh", "accepted"} => NullifierChecked
  /\ stage = "accepted" => FreshChecked
  /\ stage \in {"issued", "refused"} => IssueChecked

SpendInvariant == IInv /\ Ranges /\ StageInvariant

(* What accepted balance wires stand for are amounts. *)
LEMMA AcceptedAmounts ==
  ASSUME Ranges, outcome = "accepted", NEW v \in Values
  PROVE  value[v] \in Amounts
  BY DEF Ranges, Amounts

(* Beyond the last amount is the first. *)
LEMMA NextAmount ==
  ASSUME NEW balance \in Amounts
  PROVE  (balance + 1) % 2 ^ BALANCE_BITS \in Amounts
<1>1. 2 ^ BALANCE_BITS \in Nat \ {0}
  BY BitsAssumption, PowersDouble
<1> DEFINE limit == 2 ^ BALANCE_BITS
<1>2. limit \in Nat \ {0} /\ balance \in Nat
  BY <1>1 DEF Amounts
<1> HIDE DEF limit
<1>3. (balance + 1) % limit \in 0 .. limit - 1
  BY <1>2
<1> QED
  BY <1>3 DEF limit, Amounts

(* The wires of a credential hash to its target, and to its nullifier after it. *)
LEMMA CredentialWiresHash ==
  ASSUME NEW o \in Openings, NEW balance \in Amounts
  PROVE  LET output == Shake(CredentialMessage(o, balance), 4 * M + NullifierBits)
         IN  /\ output \in [1 .. 4 * M + NullifierBits -> Bit]
             /\ SubSeq(output, 1, 4 * M) = Shake(CredentialMessage(o, balance), 4 * M)
             /\ Shake(CredentialMessage(o, balance), 4 * M) \in [1 .. 4 * M -> Bit]
             /\ CredentialTarget(o, balance) \in [1 .. M -> GF]
             /\ DeriveNullifier(o, balance) = [i \in 1 .. NullifierBits |-> output[4 * M + i]]
<1> DEFINE output == Shake(CredentialMessage(o, balance), 4 * M + NullifierBits)
           m == 4 * M
           n == NullifierBits
           first == SubSeq(output, 1, m)
           last == SubSeq(output, m + 1, m + n)
<1>1. m \in Nat /\ n \in Nat /\ m + n \in Nat
  BY KeyAssumption
<1>2. /\ output \in [1 .. m + n -> Bit]
      /\ Shake(CredentialMessage(o, balance), m) = first
  BY ShakeAssumption
<1>3. CredentialTarget(o, balance) = Unnibbled(first)
  BY <1>2 DEF CredentialTarget
<1>4. DeriveNullifier(o, balance) = last
  BY DEF DeriveNullifier
<1> HIDE DEF output, m, n
<1>5. first \in [1 .. m -> Bit]
  <2>1. \A i \in 1 .. m : output[i] \in Bit
    BY <1>1, <1>2
  <2>2. first \in Seq(Bit) /\ Len(first) = IF 1 <= m THEN m - 1 + 1 ELSE 0
    <3>1. 1 \in Int /\ m \in Int
      BY <1>1
    <3> QED
      BY ONLY <2>1, <3>1, SubSeqProperties
  <2>3. Len(first) = m
    BY <1>1, <2>2
  <2> QED
    BY <2>2, <2>3, LenProperties
<1>6. last = [i \in 1 .. n |-> output[m + i]]
  <2>1. \A i \in m + 1 .. m + n : output[i] \in Bit
    BY <1>1, <1>2
  <2>2. /\ last \in Seq(Bit)
        /\ Len(last) = IF m + 1 <= m + n THEN (m + n) - (m + 1) + 1 ELSE 0
        /\ \A i \in 1 .. (m + n) - (m + 1) + 1 : last[i] = output[(m + 1) + i - 1]
    <3>1. m + 1 \in Int /\ m + n \in Int
      BY <1>1
    <3> QED
      BY ONLY <2>1, <3>1, SubSeqProperties
  <2>3. Len(last) = n /\ (m + n) - (m + 1) + 1 = n
    BY <1>1, <2>2
  <2>4. last \in [1 .. n -> Bit]
    BY <2>2, <2>3, LenProperties
  <2>5. \A i \in 1 .. n : last[i] = output[m + i]
    <3> TAKE i \in 1 .. n
    <3>1. (m + 1) + i - 1 = m + i
      BY <1>1
    <3> QED
      BY <2>2, <2>3, <3>1
  <2> HIDE DEF last
  <2> QED
    BY <2>4, <2>5
<1>7. Unnibbled(first) \in [1 .. M -> GF]
  BY <1>5, UnnibbledElements DEF m
<1> QED
  BY <1>2, <1>3, <1>4, <1>5, <1>6, <1>7 DEF output, m, n

(* The wires of a token hash like the message that the issuer signs: the wires
   of the commitment, filled up, are its packed bytes. *)
LEMMA TokenWiresHash ==
  ASSUME NEW o \in Openings, NEW balance \in Amounts, NEW topup \in Amounts, NEW s
  PROVE  TokenWires(SubSeq(Shake(CredentialMessage(o, balance), 4 * M + NullifierBits), 1, 4 * M),
                    BalanceBits(topup), s)
           = TokenMessage(CredentialTarget(o, balance), topup, s)
<1> DEFINE wires == SubSeq(Shake(CredentialMessage(o, balance), 4 * M + NullifierBits), 1, 4 * M)
<1>1. wires \in [1 .. 4 * M -> Bit] /\ CredentialTarget(o, balance) = Unnibbled(wires)
  BY CredentialWiresHash DEF CredentialTarget
<1> HIDE DEF wires
<1>2. Len(wires) = 4 * M
  <2>1. 4 * M \in Nat
    BY KeyAssumption
  <2> QED
    BY <1>1, <2>1, FunctionIsSequence
<1>3. PackGF16(CredentialTarget(o, balance)) = wires \o Zeros((8 - (Len(wires) % 8)) % 8)
  BY <1>1, <1>2, PackedElements DEF Padding
<1>4. TokenWires(wires, BalanceBits(topup), s)
        = TokenMessage(CredentialTarget(o, balance), topup, s)
  BY <1>3 DEF TokenWires, TokenMessage
<1> QED
  BY <1>4 DEF wires

(* The bits of a hash are those of a commitment exactly when that is the
   target of the credential. *)
LEMMA OutputDecides ==
  ASSUME NEW o \in Openings, NEW balance \in Amounts, NEW commitment \in [1 .. M -> GF]
  PROVE  OutputIs(CredentialWires(o.key, BalanceBits(balance), o.nonce), Nibbles(commitment))
           <=> commitment = CredentialTarget(o, balance)
<1> DEFINE hash == Shake(CredentialMessage(o, balance), 4 * M)
<1>1. CredentialWires(o.key, BalanceBits(balance), o.nonce) = CredentialMessage(o, balance)
  BY DEF CredentialWires, CredentialMessage
<1>2. hash \in [1 .. 4 * M -> Bit] /\ CredentialTarget(o, balance) = Unnibbled(hash)
  BY CredentialWiresHash DEF CredentialTarget
<1>3. Len(Nibbles(commitment)) = 4 * M
  BY NibblesOfElements
<1>4. OutputIs(CredentialWires(o.key, BalanceBits(balance), o.nonce), Nibbles(commitment))
        <=> hash = Nibbles(commitment)
  BY <1>1, <1>3 DEF OutputIs
<1> HIDE DEF hash
<1>5. hash = Nibbles(commitment) => commitment = Unnibbled(hash)
  BY NibblesInvert
<1>6. commitment = Unnibbled(hash) => hash = Nibbles(commitment)
  BY <1>2, NibblesInvert
<1> QED
  BY <1>2, <1>4, <1>5, <1>6

(* What provers offer for a commitment are elements. *)
LEMMA OfferedAreElements ==
  ASSUME NEW o \in Openings, NEW balance \in Amounts, NEW target \in OfferedTargets(o, balance)
  PROVE  target \in [1 .. M -> GF]
  BY NextAmount, CredentialWiresHash DEF OfferedTargets

(* The circuit starts with the balances. *)
LEMMA InitSpendInvariant == SpendInit => SpendInvariant
  BY InitIInv, InitRanges DEF SpendInit, SpendInvariant, StageInvariant

(* A stage that leaves the balance wires alone. *)
LEMMA BalancesStay ==
  ASSUME SpendInvariant, UNCHANGED vars
  PROVE  /\ IInv' /\ Ranges' /\ value' = value /\ outcome' = outcome
         /\ outcome = "accepted" => \A v \in Values : value[v] \in Amounts
<1>1. [Next]_vars
  OBVIOUS
<1> QED
  BY <1>1, StepIInv, StepRanges, AcceptedAmounts DEF SpendInvariant, vars

(* Before the stages. *)
LEMMA BalancesStep ==
  ASSUME SpendInvariant, Balances, MoreBits => OfferedBits \subseteq [Wires -> Bit]
  PROVE  [Next]_vars /\ SpendInvariant'
<1>1. [Next]_vars
  BY DEF Balances, Next
<1>2. IInv' /\ Ranges'
  BY <1>1, StepIInv, StepRanges DEF SpendInvariant
<1>3. stage = "balances" /\ stage' = stage
  BY DEF Balances, statementVars
<1> QED
  BY <1>1, <1>2, <1>3 DEF SpendInvariant, StageInvariant

(* The hidden hash is that of the credential on the wires. *)
LEMMA HashCredentialStep ==
  ASSUME SpendInvariant, NEW o \in Openings, HashCredential(o)
  PROVE  SpendInvariant'
<1>1. IInv' /\ Ranges' /\ value' = value /\ outcome' = outcome
  BY BalancesStay DEF HashCredential
<1>2. CredentialWires(o.key, BalanceBits(value["base"]), o.nonce)
        = CredentialMessage(o, value["base"])
  BY DEF CredentialWires, CredentialMessage
<1>3. CredentialHashed' /\ stage' = "token"
  BY <1>1, <1>2 DEF HashCredential, CredentialHashed
<1> QED
  BY <1>1, <1>3 DEF SpendInvariant, StageInvariant

(* The token's message wraps the credential that was hashed. *)
LEMMA HashTokenStep ==
  ASSUME SpendInvariant, NEW s \in Secrets, HashToken(s)
  PROVE  SpendInvariant'
<1>1. /\ IInv' /\ Ranges' /\ value' = value /\ outcome' = outcome
      /\ outcome = "accepted" => \A v \in Values : value[v] \in Amounts
  BY BalancesStay DEF HashToken
<1>2. CredentialHashed
  BY DEF HashToken, SpendInvariant, StageInvariant
<1>3. value["base"] \in Amounts /\ value["topup"] \in Amounts /\ opening \in Openings
  BY <1>1, <1>2 DEF CredentialHashed, Values
<1>4. signedTarget' =
        Shake(TokenMessage(CredentialTarget(opening, value["base"]), value["topup"], s), 4 * M)
  BY <1>2, <1>3, TokenWiresHash DEF HashToken, CredentialHashed
<1>5. opening' = opening /\ oldOutput' = oldOutput /\ salt' = s /\ stage' = "signature"
  BY DEF HashToken
<1>6. CredentialHashed'
  BY <1>1, <1>2, <1>5 DEF CredentialHashed
<1>7. TokenHashed'
  BY <1>1, <1>4, <1>5 DEF TokenHashed
<1> QED
  BY <1>1, <1>5, <1>6, <1>7 DEF SpendInvariant, StageInvariant

(* The table of terms is the key's map. *)
LEMMA CheckSignatureStep ==
  ASSUME SpendInvariant, NEW sig \in [1 .. KN -> GF], CheckSignature(sig)
  PROVE  SpendInvariant'
<1>1. IInv' /\ Ranges' /\ value' = value /\ outcome' = outcome
  BY BalancesStay DEF CheckSignature
<1>2. /\ stage = "signature" /\ signature' = sig /\ stage' \in {"nullifier", "rejected"}
      /\ opening' = opening /\ oldOutput' = oldOutput /\ salt' = salt
      /\ signedTarget' = signedTarget
  BY DEF CheckSignature
<1>3. CredentialHashed' /\ TokenHashed'
  BY <1>1, <1>2 DEF SpendInvariant, StageInvariant, CredentialHashed, TokenHashed
<1>4. ASSUME stage' = "nullifier"
      PROVE  SignatureChecked'
  <2>1. \A i \in 1 .. M : MayoSystem(sig, i) = Unnibbled(signedTarget)[i]
    BY <1>4 DEF CheckSignature
  <2>2. \A i \in 1 .. M : MayoSystem(sig, i) = Eval(sig, i)
    BY SystemIsForm
  <2> QED
    BY <1>2, <2>1, <2>2 DEF SignatureChecked
<1> QED
  BY <1>1, <1>2, <1>3, <1>4 DEF SpendInvariant, StageInvariant

(* The nullifier of the credential is what the output holds after its target. *)
LEMMA NullifierOfOutput ==
  ASSUME CredentialHashed, value["base"] \in Amounts
  PROVE  DeriveNullifier(opening, value["base"])
           = [i \in 1 .. NullifierBits |-> oldOutput[4 * M + i]]
<1> DEFINE output == Shake(CredentialMessage(opening, value["base"]), 4 * M + NullifierBits)
<1>1. opening \in Openings /\ oldOutput = output
  BY DEF CredentialHashed
<1>2. DeriveNullifier(opening, value["base"])
        = [i \in 1 .. NullifierBits |-> output[4 * M + i]]
  BY <1>1, CredentialWiresHash
<1> HIDE DEF output
<1> QED
  BY ONLY <1>1, <1>2

(* Only the nullifier of the credential itself matches. *)
LEMMA CheckNullifierStep ==
  ASSUME SpendInvariant, NEW nullifier \in [1 .. NullifierBits -> Bit],
         CheckNullifier(nullifier)
  PROVE  SpendInvariant'
<1>1. /\ IInv' /\ Ranges' /\ value' = value /\ outcome' = outcome
      /\ outcome = "accepted" => \A v \in Values : value[v] \in Amounts
  BY BalancesStay DEF CheckNullifier
<1>2. /\ public' = [nullifier |-> nullifier] /\ stage' \in {"fresh", "rejected"}
      /\ opening' = opening /\ oldOutput' = oldOutput /\ salt' = salt
      /\ signedTarget' = signedTarget /\ signature' = signature
  BY DEF CheckNullifier
<1>3. CredentialHashed /\ TokenHashed /\ SignatureChecked
  BY DEF CheckNullifier, SpendInvariant, StageInvariant
<1>4. CredentialHashed' /\ TokenHashed' /\ SignatureChecked'
  BY <1>1, <1>2, <1>3 DEF CredentialHashed, TokenHashed, SignatureChecked
<1>5. value["base"] \in Amounts /\ opening \in Openings
  BY <1>1, <1>3 DEF CredentialHashed, Values
<1>6. ASSUME stage' = "fresh"
      PROVE  NullifierChecked'
  <2>1. \A i \in 1 .. NullifierBits : oldOutput[4 * M + i] = nullifier[i]
    BY <1>6 DEF CheckNullifier, NullifierMatches
  <2>2. DeriveNullifier(opening, value["base"])
          = [i \in 1 .. NullifierBits |-> oldOutput[4 * M + i]]
    BY <1>3, <1>5, NullifierOfOutput
  <2>3. nullifier = [i \in 1 .. NullifierBits |-> nullifier[i]]
    OBVIOUS
  <2>4. nullifier = DeriveNullifier(opening, value["base"])
    BY ONLY <2>1, <2>2, <2>3
  <2> QED
    BY <1>1, <1>2, <2>4 DEF NullifierChecked
<1> QED
  BY <1>1, <1>2, <1>4, <1>6 DEF SpendInvariant, StageInvariant

(* Only the target of the fresh credential passes. *)
LEMMA CheckFreshStep ==
  ASSUME SpendInvariant, NEW o \in Openings, NEW commitment \in [1 .. M -> GF],
         CheckFresh(o, commitment)
  PROVE  SpendInvariant'
<1>1. /\ IInv' /\ Ranges' /\ value' = value /\ outcome' = outcome
      /\ outcome = "accepted" => \A v \in Values : value[v] \in Amounts
  BY BalancesStay DEF CheckFresh
<1>2. /\ fresh' = o /\ stage' \in {"accepted", "rejected"}
      /\ public' = [nullifier |-> public.nullifier, commitment |-> commitment]
      /\ opening' = opening /\ oldOutput' = oldOutput /\ salt' = salt
      /\ signedTarget' = signedTarget /\ signature' = signature
  BY DEF CheckFresh
<1>3. CredentialHashed /\ TokenHashed /\ SignatureChecked /\ NullifierChecked
  BY DEF CheckFresh, SpendInvariant, StageInvariant
<1>4. CredentialHashed' /\ TokenHashed' /\ SignatureChecked' /\ NullifierChecked'
  BY <1>1, <1>2, <1>3 DEF CredentialHashed, TokenHashed, SignatureChecked, NullifierChecked
<1>5. value["fresh"] \in Amounts
  BY <1>1, <1>3 DEF CredentialHashed, Values
<1>6. ASSUME stage' = "accepted"
      PROVE  FreshChecked'
  <2>1. OutputIs(CredentialWires(o.key, BalanceBits(value["fresh"]), o.nonce), Nibbles(commitment))
    BY <1>6 DEF CheckFresh
  <2>2. commitment = CredentialTarget(o, value["fresh"])
    BY <1>5, <2>1, OutputDecides
  <2> QED
    BY <1>1, <1>2, <2>2 DEF FreshChecked
<1> QED
  BY <1>1, <1>2, <1>4, <1>6 DEF SpendInvariant, StageInvariant

(* The issue circuit decides about the public balance. *)
LEMMA IssueStep ==
  ASSUME SpendInvariant, NEW o \in Openings, NEW balance \in Amounts,
         NEW target \in OfferedTargets(o, balance), Issue(o, balance, target)
  PROVE  SpendInvariant'
<1>1. IInv' /\ Ranges'
  BY BalancesStay DEF Issue
<1>2. /\ opening' = o /\ stage' \in {"issued", "refused"}
      /\ public' = [balance |-> balance, commitment |-> target]
  BY DEF Issue
<1>3. target \in [1 .. M -> GF]
  BY OfferedAreElements
<1>4. stage' = "issued" <=> target = CredentialTarget(o, balance)
  BY <1>3, OutputDecides DEF Issue
<1>5. IssueChecked'
  BY <1>2, <1>4 DEF IssueChecked
<1> QED
  BY <1>1, <1>2, <1>5 DEF SpendInvariant, StageInvariant

(* The stages together are the statements, the sums those of the balances. *)
LEMMA InvariantStates ==
  SpendInvariant => StatementsHold
<1> SUFFICES ASSUME SpendInvariant
    PROVE  StatementsHold
  OBVIOUS
<1>1. AcceptedBalances
  BY IInvImpliesBalances DEF SpendInvariant
<1>2. ASSUME stage = "accepted"
      PROVE  LET target == SignedTokenTarget(CredentialTarget(opening, value["base"]),
                                             value["topup"], salt)
             IN  /\ \A i \in 1 .. M : Eval(signature, i) = target[i]
                 /\ public.nullifier = DeriveNullifier(opening, value["base"])
                 /\ public.commitment = CredentialTarget(fresh, value["fresh"])
                 /\ value["base"] + value["topup"] = value["fresh"] + value["spend"]
  <2>1. /\ CredentialHashed /\ TokenHashed /\ SignatureChecked /\ NullifierChecked
        /\ FreshChecked
    BY <1>2 DEF SpendInvariant, StageInvariant
  <2>2. Unnibbled(signedTarget)
          = SignedTokenTarget(CredentialTarget(opening, value["base"]), value["topup"], salt)
    BY <2>1 DEF TokenHashed, SignedTokenTarget
  <2>3. value["base"] + value["topup"] = value["fresh"] + value["spend"]
    BY <1>1, <2>1 DEF AcceptedBalances, CredentialHashed
  <2> QED
    BY <2>1, <2>2, <2>3 DEF SignatureChecked, NullifierChecked, FreshChecked
<1>3. stage \in {"issued", "refused"} => IssueChecked
  BY DEF SpendInvariant, StageInvariant
<1> QED
  BY <1>2, <1>3 DEF StatementsHold, IssueChecked

-----------------------------------------------------------------------------
(***************************************************************************)
(* The witness: its bits are cut where they were put.                      *)
(***************************************************************************)

(* Where each of n sequences starts when they are joined. *)
Starts(f, seqs, n) ==
  /\ f \in [1 .. n -> Nat]
  /\ f[1] = 0
  /\ \A k \in 2 .. n : f[k] = f[k - 1] + Len(seqs[k - 1])

(* What one of the joined sequences has at a place. *)
Keeps(g, f, seqs, k) ==
  /\ Len(g[k]) = f[k] + Len(seqs[k])
  /\ \A j \in 1 .. k : \A i \in 1 .. Len(seqs[j]) :
       f[j] + i \in 1 .. Len(g[k]) /\ g[k][f[j] + i] = seqs[j][i]

(* Joining another one keeps what is there. *)
LEMMA JoinKeeps ==
  ASSUME NEW A, NEW n \in Nat \ {0}, NEW seqs, Chain(seqs, n, A), NEW g, Joins(g, seqs, n, A),
         NEW f, Starts(f, seqs, n), NEW k \in 1 .. n, k + 1 <= n, Keeps(g, f, seqs, k)
  PROVE  Keeps(g, f, seqs, k + 1)
<1>1. k \in Nat /\ k + 1 \in 2 .. n /\ k + 1 \in 1 .. n /\ (k + 1) - 1 = k
  OBVIOUS
<1>2. g[k] \in Seq(A) /\ seqs[k + 1] \in Seq(A) /\ g[k + 1] = g[k] \o seqs[k + 1]
  BY <1>1 DEF Joins, Chain
<1> DEFINE s == g[k]
           t == seqs[k + 1]
           r == g[k + 1]
<1>3. s \in Seq(A) /\ t \in Seq(A) /\ r = s \o t
  BY <1>2
<1>4. f[k + 1] = f[k] + Len(seqs[k]) /\ Len(s) = f[k] + Len(seqs[k])
  BY <1>1 DEF Starts, Keeps
<1>5. \A j \in 1 .. k : \A i \in 1 .. Len(seqs[j]) :
        f[j] + i \in 1 .. Len(s) /\ s[f[j] + i] = seqs[j][i]
  BY DEF Keeps
<1>6. f[k + 1] = Len(s)
  BY <1>4
<1> HIDE DEF s, t, r
<1>7. /\ Len(r) = Len(s) + Len(t)
      /\ \A i \in 1 .. Len(s) + Len(t) : r[i] = IF i <= Len(s) THEN s[i] ELSE t[i - Len(s)]
  BY ONLY <1>3, ConcatProperties
<1>8. Len(s) \in Nat /\ Len(t) \in Nat
  BY <1>3, LenProperties
<1>9. ASSUME NEW j \in 1 .. k + 1, NEW i \in 1 .. Len(seqs[j])
      PROVE  f[j] + i \in 1 .. Len(r) /\ r[f[j] + i] = seqs[j][i]
  <2>1. CASE j \in 1 .. k
    <3>1. f[j] + i \in 1 .. Len(s) /\ s[f[j] + i] = seqs[j][i]
      BY <1>5, <2>1
    <3> QED
      BY <1>7, <1>8, <3>1
  <2>2. CASE j = k + 1
    <3>1. i \in 1 .. Len(t) /\ seqs[j] = t
      BY <2>2 DEF t
    <3>2. Len(s) + i \in 1 .. Len(s) + Len(t) /\ ~ (Len(s) + i <= Len(s))
          /\ (Len(s) + i) - Len(s) = i
      BY <1>8, <3>1
    <3>3. r[Len(s) + i] = t[(Len(s) + i) - Len(s)]
      BY <1>7, <3>2
    <3> QED
      BY <1>6, <1>7, <2>2, <3>1, <3>2, <3>3
  <2> QED
    BY <1>1, <2>1, <2>2
<1> QED
  BY <1>6, <1>7, <1>9 DEF Keeps, r, t

(* All of them are in the last one. *)
LEMMA JoinsKeep ==
  ASSUME NEW A, NEW n \in Nat \ {0}, NEW seqs, Chain(seqs, n, A), NEW g, Joins(g, seqs, n, A),
         NEW f, Starts(f, seqs, n)
  PROVE  Keeps(g, f, seqs, n)
<1> DEFINE T == {m \in Nat : m + 1 <= n => Keeps(g, f, seqs, m + 1)}
<1>1. 0 \in T
  <2>1. g[1] = seqs[1] /\ f[1] = 0 /\ 1 \in 1 .. n /\ 0 + 1 = 1 /\ seqs[1] \in Seq(A)
    BY DEF Joins, Starts, Chain
  <2>2. Len(seqs[1]) \in Nat
    BY <2>1, LenProperties
  <2>3. \A j \in 1 .. 1 : j = 1
    OBVIOUS
  <2>4. \A i \in 1 .. Len(seqs[1]) : 0 + i = i
    BY <2>2
  <2>5. Keeps(g, f, seqs, 1)
    BY <2>1, <2>2, <2>3, <2>4 DEF Keeps
  <2> QED
    BY <2>1, <2>5
<1>2. ASSUME NEW m \in Nat, m \in T
      PROVE  m + 1 \in T
  <2> DEFINE k == m + 1
  <2> SUFFICES ASSUME k + 1 <= n
               PROVE  Keeps(g, f, seqs, k + 1)
    OBVIOUS
  <2>1. k \in 1 .. n /\ k <= n
    OBVIOUS
  <2>2. Keeps(g, f, seqs, k)
    BY <1>2, <2>1
  <2> HIDE DEF k
  <2> QED
    BY <2>1, <2>2, JoinKeeps
<1> HIDE DEF T
<1>3. \A m \in Nat : m \in T
  BY <1>1, <1>2, NumbersInductive
<1>4. n - 1 \in Nat /\ (n - 1) + 1 = n /\ n <= n
  OBVIOUS
<1> QED
  BY <1>3, <1>4 DEF T

(* What is there can be cut out. *)
LEMMA CutPiece ==
  ASSUME NEW A, NEW r \in Seq(A), NEW p \in Seq(A), NEW a \in Nat,
         \A i \in 1 .. Len(p) : a + i \in 1 .. Len(r) /\ r[a + i] = p[i]
  PROVE  SubSeq(r, a + 1, a + Len(p)) = p
<1> DEFINE l == Len(p)
           cut == SubSeq(r, a + 1, a + l)
<1>1. l \in Nat /\ \A i \in 1 .. l : p[i] \in A
  BY LenProperties
<1>2. \A j \in a + 1 .. a + l : r[j] \in A
  <2> TAKE j \in a + 1 .. a + l
  <2> DEFINE i == j - a
  <2>1. i \in 1 .. l /\ j = a + i
    BY <1>1
  <2> HIDE DEF i
  <2>2. r[a + i] = p[i] /\ p[i] \in A
    BY <1>1, <2>1
  <2> QED
    BY <2>1, <2>2
<1>3. /\ cut \in Seq(A)
      /\ Len(cut) = IF a + 1 <= a + l THEN (a + l) - (a + 1) + 1 ELSE 0
      /\ \A i \in 1 .. (a + l) - (a + 1) + 1 : cut[i] = r[(a + 1) + i - 1]
  <2>1. a + 1 \in Int /\ a + l \in Int
    BY <1>1
  <2> QED
    BY ONLY <1>2, <2>1, SubSeqProperties
<1>4. Len(cut) = l /\ (a + l) - (a + 1) + 1 = l
  BY <1>1, <1>3
<1>5. \A i \in 1 .. l : cut[i] = p[i]
  <2> TAKE i \in 1 .. l
  <2>1. (a + 1) + i - 1 = a + i
    BY <1>1
  <2> HIDE DEF cut
  <2> QED
    BY <1>3, <1>4, <2>1
<1> HIDE DEF cut
<1>6. Len(cut) = Len(p) /\ \A i \in 1 .. Len(cut) : cut[i] = p[i]
  BY <1>4, <1>5
<1>7. cut \in Seq(A) /\ p \in Seq(A)
  BY <1>3
<1>8. cut = p
  BY ONLY <1>6, <1>7, SeqEqual
<1> QED
  BY <1>8 DEF cut

(* Amounts are numbers. *)
LEMMA AmountsAreNumbers ==
  /\ Amounts \subseteq Nat /\ 2 ^ BALANCE_BITS \in Nat \ {0} /\ BALANCE_BITS \in Nat \ {0}
  /\ \A a \in Nat : a \in Amounts <=> a < 2 ^ BALANCE_BITS
<1> DEFINE limit == 2 ^ BALANCE_BITS
<1>1. limit \in Nat \ {0} /\ BALANCE_BITS \in Nat \ {0}
  BY BitsAssumption, PowersDouble
<1>2. Amounts = 0 .. limit - 1
  BY DEF Amounts
<1> HIDE DEF limit
<1>3. Amounts \subseteq Nat /\ \A a \in Nat : a \in Amounts <=> a < limit
  BY <1>1, <1>2
<1> QED
  BY <1>1, <1>3 DEF limit

(* The wires of an amount. *)
LEMMA BitsOfAmount ==
  ASSUME NEW a \in Nat
  PROVE  /\ BalanceBits(a) \in [1 .. BALANCE_BITS -> Bit]
         /\ \A i \in 1 .. BALANCE_BITS : BalanceBits(a)[i] = (a \div 2 ^ (i - 1)) % 2
<1>1. ASSUME NEW i \in 1 .. BALANCE_BITS
      PROVE  (a \div 2 ^ (i - 1)) % 2 \in Bit
  <2> DEFINE d == 2 ^ (i - 1)
  <2>1. d \in Nat \ {0}
    <3>1. i - 1 \in Nat
      BY BitsAssumption
    <3> QED
      BY <3>1, PowersDouble
  <2> HIDE DEF d
  <2> DEFINE q == a \div d
  <2>2. q \in Int
    BY <2>1
  <2> HIDE DEF q
  <2>3. (q % 2) \in {0, 1}
    BY <2>2
  <2> QED
    BY <2>3 DEF q, d, Bit
<1>2. BalanceBits(a) = [i \in 1 .. BALANCE_BITS |-> (a \div 2 ^ (i - 1)) % 2]
  BY DEF BalanceBits, BitsOfNumber
<1> QED
  BY <1>1, <1>2

(* The carries of a sum, each from the one before it. *)
CarriesOf(u, a, b) ==
  u = [i \in 0 .. BALANCE_BITS |->
         IF i = 0 THEN 0 ELSE WitnessCarry(BalanceBits(a)[i], BalanceBits(b)[i], u[i - 1])]

(* There are such carries, and they are those of the witness. *)
LEMMA CarriedBits ==
  ASSUME NEW a, NEW b
  PROVE  \E u : /\ u \in [0 .. BALANCE_BITS -> Bit] /\ u[0] = 0
                /\ \A i \in 1 .. BALANCE_BITS :
                     u[i] = WitnessCarry(BalanceBits(a)[i], BalanceBits(b)[i], u[i - 1])
                /\ Carried(a, b) = [i \in 1 .. BALANCE_BITS |-> u[i]]
<1> DEFINE n == BALANCE_BITS
           step == [p \in (1 .. n) \X Bit |->
                      WitnessCarry(BalanceBits(a)[p[1]], BalanceBits(b)[p[1]], p[2])]
           u == CHOOSE u : CarriesOf(u, a, b)
<1>1. n \in Nat /\ 0 \in Bit
  BY BitsAssumption DEF Bit
<1>2. step \in [(1 .. n) \X Bit -> Bit]
  BY DEF WitnessCarry, Bit
<1>3. \A k \in 1 .. n, x \in Bit :
        step[<<k, x>>] = WitnessCarry(BalanceBits(a)[k], BalanceBits(b)[k], x)
  OBVIOUS
<1> HIDE DEF step
<1>4. PICK h \in [0 .. n -> Bit] : Follows(h, n, Bit, 0, step)
  BY <1>1, <1>2, RecursionExists
<1>5. /\ h[0] = 0
      /\ \A k \in 1 .. n : h[k] = WitnessCarry(BalanceBits(a)[k], BalanceBits(b)[k], h[k - 1])
  <2>1. \A k \in 1 .. n : k - 1 \in 0 .. n
    BY <1>1
  <2> QED
    BY <1>3, <1>4, <2>1 DEF Follows
<1>6. CarriesOf(h, a, b)
  <2>1. h = [k \in 0 .. n |-> h[k]]
    BY <1>4
  <2>2. \A k \in 0 .. n : k # 0 => k \in 1 .. n
    BY <1>1
  <2>3. \A k \in 0 .. n :
          h[k] = IF k = 0 THEN 0
                 ELSE WitnessCarry(BalanceBits(a)[k], BalanceBits(b)[k], h[k - 1])
    BY <1>5, <2>2
  <2> QED
    BY <2>1, <2>3 DEF CarriesOf
<1>7. CarriesOf(u, a, b)
  BY <1>6
<1>8. Carried(a, b) = [i \in 1 .. n |-> u[i]]
  BY DEF Carried, CarriesOf
<1> HIDE DEF u
<1>9. u[0] = 0 /\ \A k \in 1 .. n :
        u[k] = WitnessCarry(BalanceBits(a)[k], BalanceBits(b)[k], u[k - 1])
  <2>1. 0 \in 0 .. n /\ \A k \in 1 .. n : k \in 0 .. n /\ k # 0
    BY <1>1
  <2> QED
    BY <1>7, <2>1 DEF CarriesOf
<1>10. u \in [0 .. n -> Bit]
  <2>1. \A k \in 0 .. n : u[k] \in Bit
    BY <1>7 DEF CarriesOf, WitnessCarry, Bit
  <2>2. u = [k \in 0 .. n |-> u[k]]
    BY <1>7 DEF CarriesOf
  <2> QED
    BY <2>1, <2>2
<1> QED
  BY <1>8, <1>9, <1>10

(* What a wallet prepares a witness from. *)
Prepared(x) ==
  /\ x.opening \in Openings /\ x.fresh \in Openings /\ x.salt \in Secrets
  /\ x.base \in Amounts /\ x.topup \in Amounts /\ x.base + x.topup \in Amounts
  /\ x.freshBase \in Amounts /\ x.spend \in Amounts
  /\ x.freshBase + x.spend = x.base + x.topup
  /\ x.signature \in [1 .. KN -> GF]
  /\ \A i \in 1 .. M :
       Eval(x.signature, i)
         = SignedTokenTarget(CredentialTarget(x.opening, x.base), x.topup, x.salt)[i]

Pieces(x) ==
  << Nibbles(x.signature), x.opening.key, BalanceBits(x.base), x.opening.nonce,
     BalanceBits(x.topup), BalanceBits(x.base + x.topup), x.salt,
     x.fresh.key, BalanceBits(x.freshBase), x.fresh.nonce,
     Carried(x.base, x.topup), Carried(x.freshBase, x.spend) >>

(* Each piece of the witness has the width that the circuit allocates. *)
LEMMA PiecesFit ==
  ASSUME NEW x, Prepared(x)
  PROVE  /\ Chain(Pieces(x), 12, Bit)
         /\ \A k \in 1 .. 12 : Len(Pieces(x)[k]) = Allocations[k][2]
<1>1. /\ BALANCE_BITS \in Nat /\ SecretBits \in Nat /\ KN \in Nat \ {0} /\ 4 * KN \in Nat
      /\ Amounts \subseteq Nat
  BY BitsAssumption, WalletAssumption, KeyAssumption, AmountsAreNumbers
<1>2. \A s \in Secrets : s \in Seq(Bit) /\ Len(s) = SecretBits
  <2> TAKE s \in Secrets
  <2>1. s \in [1 .. SecretBits -> Bit]
    BY WalletAssumption
  <2> QED
    BY <1>1, <2>1, FunctionIsSequence
<1>3. /\ x.opening.key \in Secrets /\ x.opening.nonce \in Secrets /\ x.salt \in Secrets
      /\ x.fresh.key \in Secrets /\ x.fresh.nonce \in Secrets
  BY DEF Prepared, Openings
<1>4. \A a \in Amounts : BalanceBits(a) \in Seq(Bit) /\ Len(BalanceBits(a)) = BALANCE_BITS
  <2> TAKE a \in Amounts
  <2>1. BalanceBits(a) \in [1 .. BALANCE_BITS -> Bit]
    BY <1>1, BitsOfAmount
  <2> QED
    BY <1>1, <2>1, FunctionIsSequence
<1>5. \A a, b \in Amounts : Carried(a, b) \in Seq(Bit) /\ Len(Carried(a, b)) = BALANCE_BITS
  <2> TAKE a, b \in Amounts
  <2>1. Carried(a, b) \in [1 .. BALANCE_BITS -> Bit]
    <3>1. PICK u : /\ u \in [0 .. BALANCE_BITS -> Bit]
                   /\ Carried(a, b) = [i \in 1 .. BALANCE_BITS |-> u[i]]
      BY CarriedBits
    <3>2. \A i \in 1 .. BALANCE_BITS : u[i] \in Bit
      BY <1>1, <3>1
    <3> QED
      BY <3>1, <3>2
  <2> QED
    BY <1>1, <2>1, FunctionIsSequence
<1>6. Nibbles(x.signature) \in Seq(Bit) /\ Len(Nibbles(x.signature)) = 4 * KN
  <2>1. Nibbles(x.signature) \in [1 .. 4 * KN -> Bit]
    BY <1>1, NibblesOfVector DEF Prepared
  <2> QED
    BY <1>1, <2>1, FunctionIsSequence
<1>7. /\ x.base \in Amounts /\ x.topup \in Amounts /\ x.base + x.topup \in Amounts
      /\ x.freshBase \in Amounts /\ x.spend \in Amounts
  BY DEF Prepared
<1> DEFINE p == Pieces(x)
<1>8. /\ p[1] = Nibbles(x.signature) /\ p[2] = x.opening.key /\ p[3] = BalanceBits(x.base)
      /\ p[4] = x.opening.nonce /\ p[5] = BalanceBits(x.topup)
      /\ p[6] = BalanceBits(x.base + x.topup) /\ p[7] = x.salt /\ p[8] = x.fresh.key
      /\ p[9] = BalanceBits(x.freshBase) /\ p[10] = x.fresh.nonce
      /\ p[11] = Carried(x.base, x.topup) /\ p[12] = Carried(x.freshBase, x.spend)
      /\ Len(p) = 12 /\ p = [k \in 1 .. 12 |-> p[k]]
  BY DEF Pieces
<1>9. /\ Allocations[1][2] = 4 * KN /\ Allocations[2][2] = SecretBits
      /\ Allocations[3][2] = BALANCE_BITS /\ Allocations[4][2] = SecretBits
      /\ Allocations[5][2] = BALANCE_BITS /\ Allocations[6][2] = BALANCE_BITS
      /\ Allocations[7][2] = SecretBits /\ Allocations[8][2] = SecretBits
      /\ Allocations[9][2] = BALANCE_BITS /\ Allocations[10][2] = SecretBits
      /\ Allocations[11][2] = BALANCE_BITS /\ Allocations[12][2] = BALANCE_BITS
  BY DEF Allocations
<1> HIDE DEF p
<1>10. \A k \in 1 .. 12 : k \in {1, 2, 3, 4, 5, 6, 7, 8, 9, 10, 11, 12}
  OBVIOUS
<1> DEFINE Fits(q, n) == q \in Seq(Bit) /\ Len(q) = n
<1>11. Fits(p[1], 4 * KN)
  BY ONLY <1>6, <1>8
<1>12. /\ Fits(p[2], SecretBits) /\ Fits(p[4], SecretBits) /\ Fits(p[7], SecretBits)
       /\ Fits(p[8], SecretBits) /\ Fits(p[10], SecretBits)
  BY ONLY <1>2, <1>3, <1>8
<1>13. /\ Fits(p[3], BALANCE_BITS) /\ Fits(p[5], BALANCE_BITS) /\ Fits(p[6], BALANCE_BITS)
       /\ Fits(p[9], BALANCE_BITS)
  BY ONLY <1>4, <1>7, <1>8
<1>14. /\ Fits(p[11], BALANCE_BITS) /\ Fits(p[12], BALANCE_BITS)
  BY ONLY <1>5, <1>7, <1>8
<1> HIDE DEF Fits
<1>15. /\ Fits(p[1], Allocations[1][2]) /\ Fits(p[2], Allocations[2][2]) /\ Fits(p[3], Allocations[3][2])
       /\ Fits(p[4], Allocations[4][2]) /\ Fits(p[5], Allocations[5][2]) /\ Fits(p[6], Allocations[6][2])
       /\ Fits(p[7], Allocations[7][2]) /\ Fits(p[8], Allocations[8][2]) /\ Fits(p[9], Allocations[9][2])
       /\ Fits(p[10], Allocations[10][2]) /\ Fits(p[11], Allocations[11][2]) /\ Fits(p[12], Allocations[12][2])
  BY ONLY <1>9, <1>11, <1>12, <1>13, <1>14
<1>16. ASSUME NEW k \in 1 .. 12
       PROVE  p[k] \in Seq(Bit) /\ Len(p[k]) = Allocations[k][2]
  <2>1. Fits(p[k], Allocations[k][2])
    BY ONLY <1>10, <1>15
  <2> QED
    BY <2>1 DEF Fits
<1>17. Chain(p, 12, Bit)
  BY <1>8, <1>16 DEF Chain
<1> QED
  BY <1>16, <1>17 DEF p

(* The wires before an allocation. *)
First(n) == SumFunction([i \in 1 .. n - 1 |-> Allocations[i][2]])

(* The first allocation has none before it. *)
LEMMA FirstIsZero == First(1) = 0
<1> DEFINE f == [i \in 1 .. 1 - 1 |-> Allocations[i][2]]
<1>1. DOMAIN f = {}
  OBVIOUS
<1>2. SumFunction(f) = SumFunctionOnSet(f, {})
  BY <1>1 DEF SumFunction
<1> HIDE DEF f
<1>3. SumFunction(f) = 0
  BY <1>2, SumEmpty
<1> QED
  BY <1>3 DEF First, f

(* Each allocation is before the next. *)
LEMMA FirstGrows ==
  ASSUME NEW k \in 1 .. 11, \A i \in 1 .. 12 : Allocations[i][2] \in Nat
  PROVE  First(k + 1) = First(k) + Allocations[k][2] /\ First(k) \in Int
<1> DEFINE f == [i \in 1 .. k - 1 |-> Allocations[i][2]]
           g == [i \in 1 .. k |-> Allocations[i][2]]
<1>1. DOMAIN f = 1 .. k - 1 /\ DOMAIN g = 1 .. k
  OBVIOUS
<1>2. IsFiniteSet(1 .. k - 1)
  BY FS_Interval
<1>3. k \notin 1 .. k - 1 /\ 1 .. k = (1 .. k - 1) \cup {k}
  OBVIOUS
<1>4. ASSUME NEW y \in 1 .. k - 1
      PROVE  g[y] = f[y]
  <2>1. y \in 1 .. k
    OBVIOUS
  <2> QED
    BY <2>1
<1>5. \A y \in 1 .. k : g[y] \in Int
  <2> TAKE y \in 1 .. k
  <2>1. y \in 1 .. 12
    OBVIOUS
  <2>2. Allocations[y][2] \in Nat
    BY <2>1
  <2> QED
    BY <2>2
<1>6. g[k] = Allocations[k][2]
  OBVIOUS
<1>7. First(k) = SumFunction(f) /\ First(k + 1) = SumFunction(g)
  <2>1. 1 .. (k + 1) - 1 = 1 .. k
    OBVIOUS
  <2> QED
    BY <2>1 DEF First
<1> HIDE DEF f, g
<1>8. SumFunction(g) = g[k] + SumFunction(f) /\ SumFunction(f) \in Int
  <2>1. /\ IsFiniteSet(DOMAIN f) /\ k \notin DOMAIN f /\ DOMAIN g = DOMAIN f \cup {k}
        /\ \A y \in DOMAIN f : g[y] = f[y]
        /\ \A y \in DOMAIN g : g[y] \in Int
    BY <1>1, <1>2, <1>3, <1>4, <1>5
  <2> QED
    BY ONLY <2>1, SumExtends
<1>9. k \in 1 .. 12
  OBVIOUS
<1>10. Allocations[k][2] \in Int
  BY <1>9
<1> QED
  BY <1>6, <1>7, <1>8, <1>10

(* The pieces of a witness start where the allocations do. *)
LEMMA PiecesStart ==
  ASSUME NEW x, Prepared(x)
  PROVE  Starts([k \in 1 .. 12 |-> First(k)], Pieces(x), 12)
<1>1. Chain(Pieces(x), 12, Bit) /\ \A k \in 1 .. 12 : Len(Pieces(x)[k]) = Allocations[k][2]
  BY PiecesFit
<1>2. \A k \in 1 .. 12 : Allocations[k][2] \in Nat
  <2> TAKE k \in 1 .. 12
  <2>1. Pieces(x)[k] \in Seq(Bit)
    BY <1>1 DEF Chain
  <2> QED
    BY <1>1, <2>1, LenProperties
<1>3. \A k \in 1 .. 11 : First(k + 1) = First(k) + Allocations[k][2] /\ First(k) \in Int
  BY <1>2, FirstGrows
<1> DEFINE T == {m \in Nat : m + 1 <= 12 => First(m + 1) \in Nat}
<1>4. 0 \in T
  BY FirstIsZero
<1>5. ASSUME NEW m \in Nat, m \in T
      PROVE  m + 1 \in T
  <2> DEFINE k == m + 1
  <2> SUFFICES ASSUME k + 1 <= 12
               PROVE  First(k + 1) \in Nat
    OBVIOUS
  <2>1. k \in 1 .. 11 /\ k \in 1 .. 12 /\ First(k) \in Nat
    BY <1>5
  <2> HIDE DEF k
  <2> QED
    BY <1>2, <1>3, <2>1
<1> HIDE DEF T
<1>6. \A m \in Nat : m \in T
  BY <1>4, <1>5, NumbersInductive
<1>7. \A k \in 1 .. 12 : First(k) \in Nat
  <2> TAKE k \in 1 .. 12
  <2>1. k - 1 \in T /\ (k - 1) + 1 = k
    BY <1>6
  <2> QED
    BY <2>1 DEF T
<1>8. ASSUME NEW k \in 2 .. 12
      PROVE  First(k) = First(k - 1) + Len(Pieces(x)[k - 1])
  <2>1. k - 1 \in 1 .. 11 /\ k - 1 \in 1 .. 12 /\ (k - 1) + 1 = k
    OBVIOUS
  <2>2. First((k - 1) + 1) = First(k - 1) + Allocations[k - 1][2]
    BY <1>3, <2>1
  <2> QED
    BY <1>1, <2>1, <2>2
<1>9. \A k \in 2 .. 12 : k \in 1 .. 12 /\ k - 1 \in 1 .. 12
  OBVIOUS
<1> QED
  BY <1>7, <1>8, <1>9, FirstIsZero DEF Starts

(* A name is allocated once. *)
LEMMA NamesDiffer ==
  ASSUME NEW k \in 1 .. 12, NEW i \in 1 .. 12, Allocations[i][1] = Allocations[k][1]
  PROVE  i = k
<1> DEFINE a == [n \in 1 .. 12 |-> Allocations[n][1]]
<1>1. /\ a[1] = "signature" /\ a[2] = "key" /\ a[3] = "base" /\ a[4] = "nonce"
      /\ a[5] = "topup" /\ a[6] = "effective" /\ a[7] = "salt" /\ a[8] = "freshKey"
      /\ a[9] = "fresh" /\ a[10] = "freshNonce" /\ a[11] = "old" /\ a[12] = "new"
  BY DEF Allocations
<1>2. a[i] = a[k]
  OBVIOUS
<1> HIDE DEF a
<1>3. \A n \in 1 .. 12 : n \in {1, 2, 3, 4, 5, 6, 7, 8, 9, 10, 11, 12}
  OBVIOUS
<1>4. CASE k \in {1, 2, 3}
  BY <1>1, <1>2, <1>3, <1>4
<1>5. CASE k \in {4, 5, 6}
  BY <1>1, <1>2, <1>3, <1>5
<1>6. CASE k \in {7, 8, 9}
  BY <1>1, <1>2, <1>3, <1>6
<1>7. CASE k \in {10, 11, 12}
  BY <1>1, <1>2, <1>3, <1>7
<1> QED
  BY <1>3, <1>4, <1>5, <1>6, <1>7

(* The circuit cuts from the witness what the wallet has put there. *)
LEMMA WitnessIsCut ==
  ASSUME NEW x, Prepared(x), NEW k \in 1 .. 12
  PROVE  AllocBits(Witness(x), Allocations[k][1]) = Pieces(x)[k]
<1> DEFINE p == Pieces(x)
           f == [j \in 1 .. 12 |-> First(j)]
           w == Witness(x)
<1>1. Chain(p, 12, Bit) /\ (\A j \in 1 .. 12 : Len(p[j]) = Allocations[j][2]) /\ Starts(f, p, 12)
  BY PiecesFit, PiecesStart
<1>2. PICK g : Joins(g, p, 12, Bit)
  <2> HIDE DEF p
  <2>1. 12 \in Nat \ {0}
    OBVIOUS
  <2> QED
    BY ONLY <1>1, <2>1, FlattenJoins
<1>3. w = g[12]
  <2>1. \A j \in 2 .. 12 : g[j] = g[j - 1] \o p[j]
    BY <1>2 DEF Joins
  <2>2. /\ g[2] = g[1] \o p[2] /\ g[3] = g[2] \o p[3] /\ g[4] = g[3] \o p[4]
        /\ g[5] = g[4] \o p[5] /\ g[6] = g[5] \o p[6] /\ g[7] = g[6] \o p[7]
        /\ g[8] = g[7] \o p[8] /\ g[9] = g[8] \o p[9] /\ g[10] = g[9] \o p[10]
        /\ g[11] = g[10] \o p[11] /\ g[12] = g[11] \o p[12]
    <3> HIDE DEF p
    <3>2. g[2] = g[1] \o p[2]
      <4>1. 2 \in 2 .. 12 /\ 2 - 1 = 1
        OBVIOUS
      <4>2. g[2] = g[2 - 1] \o p[2]
        BY ONLY <2>1, <4>1
      <4> QED
        BY ONLY <4>1, <4>2
    <3>3. g[3] = g[2] \o p[3]
      <4>1. 3 \in 2 .. 12 /\ 3 - 1 = 2
        OBVIOUS
      <4>2. g[3] = g[3 - 1] \o p[3]
        BY ONLY <2>1, <4>1
      <4> QED
        BY ONLY <4>1, <4>2
    <3>4. g[4] = g[3] \o p[4]
      <4>1. 4 \in 2 .. 12 /\ 4 - 1 = 3
        OBVIOUS
      <4>2. g[4] = g[4 - 1] \o p[4]
        BY ONLY <2>1, <4>1
      <4> QED
        BY ONLY <4>1, <4>2
    <3>5. g[5] = g[4] \o p[5]
      <4>1. 5 \in 2 .. 12 /\ 5 - 1 = 4
        OBVIOUS
      <4>2. g[5] = g[5 - 1] \o p[5]
        BY ONLY <2>1, <4>1
      <4> QED
        BY ONLY <4>1, <4>2
    <3>6. g[6] = g[5] \o p[6]
      <4>1. 6 \in 2 .. 12 /\ 6 - 1 = 5
        OBVIOUS
      <4>2. g[6] = g[6 - 1] \o p[6]
        BY ONLY <2>1, <4>1
      <4> QED
        BY ONLY <4>1, <4>2
    <3>7. g[7] = g[6] \o p[7]
      <4>1. 7 \in 2 .. 12 /\ 7 - 1 = 6
        OBVIOUS
      <4>2. g[7] = g[7 - 1] \o p[7]
        BY ONLY <2>1, <4>1
      <4> QED
        BY ONLY <4>1, <4>2
    <3>8. g[8] = g[7] \o p[8]
      <4>1. 8 \in 2 .. 12 /\ 8 - 1 = 7
        OBVIOUS
      <4>2. g[8] = g[8 - 1] \o p[8]
        BY ONLY <2>1, <4>1
      <4> QED
        BY ONLY <4>1, <4>2
    <3>9. g[9] = g[8] \o p[9]
      <4>1. 9 \in 2 .. 12 /\ 9 - 1 = 8
        OBVIOUS
      <4>2. g[9] = g[9 - 1] \o p[9]
        BY ONLY <2>1, <4>1
      <4> QED
        BY ONLY <4>1, <4>2
    <3>10. g[10] = g[9] \o p[10]
      <4>1. 10 \in 2 .. 12 /\ 10 - 1 = 9
        OBVIOUS
      <4>2. g[10] = g[10 - 1] \o p[10]
        BY ONLY <2>1, <4>1
      <4> QED
        BY ONLY <4>1, <4>2
    <3>11. g[11] = g[10] \o p[11]
      <4>1. 11 \in 2 .. 12 /\ 11 - 1 = 10
        OBVIOUS
      <4>2. g[11] = g[11 - 1] \o p[11]
        BY ONLY <2>1, <4>1
      <4> QED
        BY ONLY <4>1, <4>2
    <3>12. g[12] = g[11] \o p[12]
      <4>1. 12 \in 2 .. 12 /\ 12 - 1 = 11
        OBVIOUS
      <4>2. g[12] = g[12 - 1] \o p[12]
        BY ONLY <2>1, <4>1
      <4> QED
        BY ONLY <4>1, <4>2
    <3> QED
      BY ONLY <3>2, <3>3, <3>4, <3>5, <3>6, <3>7, <3>8, <3>9, <3>10, <3>11, <3>12
  <2>3. g[1] = p[1]
    BY <1>2 DEF Joins
  <2>4. w = p[1] \o p[2] \o p[3] \o p[4] \o p[5] \o p[6] \o p[7] \o p[8] \o p[9]
              \o p[10] \o p[11] \o p[12]
    BY DEF Witness, Pieces
  <2> HIDE DEF p, w
  <2> QED
    BY ONLY <2>2, <2>3, <2>4
<1> HIDE DEF w
<1>4. Keeps(g, f, p, 12)
  <2> HIDE DEF p, f
  <2>1. 12 \in Nat \ {0}
    OBVIOUS
  <2> QED
    BY ONLY <1>1, <1>2, <2>1, JoinsKeep
<1>5. /\ w \in Seq(Bit) /\ p[k] \in Seq(Bit) /\ f[k] \in Nat /\ f[k] = First(k)
      /\ \A i \in 1 .. Len(p[k]) : f[k] + i \in 1 .. Len(w) /\ w[f[k] + i] = p[k][i]
  <2>1. g[12] \in Seq(Bit)
    <3>1. 12 \in 1 .. 12
      OBVIOUS
    <3> QED
      BY <1>2, <3>1 DEF Joins
  <2>2. p[k] \in Seq(Bit) /\ f[k] \in Nat
    BY <1>1 DEF Chain, Starts
  <2>3. \A i \in 1 .. Len(p[k]) : f[k] + i \in 1 .. Len(g[12]) /\ g[12][f[k] + i] = p[k][i]
    <3> HIDE DEF p, f
    <3> QED
      BY <1>4 DEF Keeps
  <2>4. f[k] = First(k)
    OBVIOUS
  <2> HIDE DEF p, f
  <2> QED
    BY <1>3, <2>1, <2>2, <2>3, <2>4
<1> DEFINE q == p[k]
           a == f[k]
<1>6. SubSeq(w, a + 1, a + Len(q)) = q
  <2>1. /\ w \in Seq(Bit) /\ q \in Seq(Bit) /\ a \in Nat
        /\ \A i \in 1 .. Len(q) : a + i \in 1 .. Len(w) /\ w[a + i] = q[i]
    BY <1>5
  <2> HIDE DEF q, a
  <2> QED
    BY ONLY <2>1, CutPiece
<1>7. AllocBits(w, Allocations[k][1]) = SubSeq(w, First(k) + 1, First(k) + Allocations[k][2])
  <2> DEFINE n == CHOOSE i \in DOMAIN Allocations : Allocations[i][1] = Allocations[k][1]
  <2>1. DOMAIN Allocations = 1 .. 12
    BY DEF Allocations
  <2>2. n = k
    BY <2>1, NamesDiffer
  <2>3. AllocBits(w, Allocations[k][1]) = SubSeq(w, First(n) + 1, First(n) + Allocations[n][2])
    BY DEF AllocBits, First
  <2> QED
    BY <2>2, <2>3
<1> QED
  BY <1>1, <1>5, <1>6, <1>7 DEF w

-----------------------------------------------------------------------------
(***************************************************************************)
(* An honest prover: what it has left to put on wires is what is missing   *)
(* from the numbers read so far.                                           *)
(***************************************************************************)

(* Quotients. *)
LEMMA QuotientOfSum ==
  ASSUME NEW w \in Nat \ {0}, NEW v \in 0 .. w - 1, NEW s \in Nat
  PROVE  (v + w * s) \div w = s
<1> DEFINE a == v + w * s
           q == a \div w
<1>1. a \in Int /\ w * s \in Int
  OBVIOUS
<1>2. q \in Int /\ w * q <= a /\ a < w * q + w
  <2> HIDE DEF a
  <2>1. q \in Int
    BY <1>1
  <2>2. a = w * q + (a % w) /\ (a % w) \in 0 .. w - 1
    BY <1>1
  <2> HIDE DEF q
  <2>3. w * q \in Int
    BY <2>1
  <2> QED
    BY <1>1, <2>1, <2>2, <2>3
<1> HIDE DEF q
<1>3. w * q \in Int
  BY <1>2
<1>4. CASE q < s
  <2> DEFINE d == s - 1 - q
  <2>1. d \in Nat /\ s = q + 1 + d
    BY <1>2, <1>4
  <2> HIDE DEF d
  <2>2. w * d >= 0 /\ w * d \in Int
    BY <2>1
  <2>3. w * s = w * q + w + w * d
    BY <1>2, <2>1
  <2> QED
    BY <1>1, <1>2, <1>3, <2>2, <2>3
<1>5. CASE q > s
  <2> DEFINE d == q - 1 - s
  <2>1. d \in Nat /\ q = s + 1 + d
    BY <1>2, <1>5
  <2> HIDE DEF d
  <2>2. w * d >= 0 /\ w * d \in Int
    BY <2>1
  <2>3. w * q = w * s + w + w * d
    BY <1>2, <2>1
  <2> QED
    BY <1>1, <1>2, <1>3, <2>2, <2>3
<1>6. q = s
  BY <1>2, <1>4, <1>5
<1> QED
  BY <1>6 DEF q

(* A number below the weight has no bits from there on. *)
LEMMA NothingLeft ==
  ASSUME NEW w \in Nat \ {0}, NEW v \in Nat, NEW s \in Nat, v + w * s < w
  PROVE  s = 0 /\ w * s = 0
<1>1. CASE s # 0
  <2> DEFINE d == s - 1
  <2>1. d \in Nat /\ s = d + 1
    BY <1>1
  <2> HIDE DEF d
  <2>2. w * d >= 0 /\ w * d \in Int /\ w * s = w * d + w
    BY <2>1
  <2> QED
    BY <2>2
<1> QED
  BY <1>1

(* A number is its lowest bit and twice the rest. *)
LEMMA HalfOf ==
  ASSUME NEW s \in Nat
  PROVE  s \div 2 \in Nat /\ (s % 2) \in Bit /\ s = 2 * (s \div 2) + (s % 2)
  BY DEF Bit

(* One bit read, of the number and of what is left of it. *)
LEMMA BitMoves ==
  ASSUME NEW w \in Nat, NEW v \in Nat, NEW s \in Nat
  PROVE  (v + w * (s % 2)) + (2 * w) * (s \div 2) = v + w * s
<1> DEFINE q == s \div 2
           r == s % 2
<1>1. q \in Nat /\ r \in {0, 1} /\ s = 2 * q + r
  BY HalfOf DEF Bit
<1> HIDE DEF q, r
<1>2. w * q \in Int /\ (2 * w) * q = 2 * (w * q)
  BY <1>1
<1>3. CASE r = 0
  <2>1. w * r = 0 /\ w * s = 2 * (w * q)
    BY <1>1, <1>3
  <2> QED
    BY <1>2, <2>1 DEF q, r
<1>4. CASE r = 1
  <2>1. w * r = w /\ w * s = 2 * (w * q) + w
    BY <1>1, <1>4
  <2> QED
    BY <1>2, <2>1 DEF q, r
<1> QED
  BY <1>1, <1>3, <1>4

(* The bits and the carry of a sum satisfy the circuit's equations, and what
   is left adds up with the new carry. *)
LEMMA HonestSum ==
  ASSUME NEW s \in Nat, NEW t \in Nat, NEW in \in Bit
  PROVE  LET sum == s + t + in
             out == WitnessCarry(s % 2, t % 2, in)
         IN  /\ SumHolds(s % 2, t % 2, in, sum % 2, out)
             /\ out \in Bit
             /\ (s \div 2) + (t \div 2) + out = sum \div 2
<1> DEFINE p == s \div 2
           a == s % 2
           q == t \div 2
           b == t % 2
           sum == s + t + in
           out == WitnessCarry(a, b, in)
<1>1. p \in Nat /\ a \in Bit /\ s = 2 * p + a /\ q \in Nat /\ b \in Bit /\ t = 2 * q + b
  BY HalfOf
<1> HIDE DEF p, a, q, b
<1>2. out \in Bit /\ a + b + in = 2 * out + ((a + b + in) % 2)
  <2>1. a \in {0, 1} /\ b \in {0, 1} /\ in \in {0, 1}
    BY <1>1 DEF Bit
  <2>2. 0 % 2 = 0 /\ 1 % 2 = 1 /\ 2 % 2 = 0 /\ 3 % 2 = 1
    OBVIOUS
  <2>3. CASE a = 0
    BY <2>1, <2>2, <2>3 DEF WitnessCarry, Bit
  <2>4. CASE a = 1
    BY <2>1, <2>2, <2>4 DEF WitnessCarry, Bit
  <2> QED
    BY <2>1, <2>3, <2>4
<1> DEFINE r == (a + b + in) % 2
<1>3. r \in {0, 1} /\ a + b + in = 2 * out + r
  BY <1>1, <1>2 DEF Bit
<1> HIDE DEF r
<1>4. sum = 2 * (p + q + out) + r
  <2> HIDE DEF out
  <2> QED
    BY <1>1, <1>2, <1>3 DEF Bit
<1>5. (sum % 2) = r /\ sum \div 2 = p + q + out
  <2> DEFINE k == p + q + out
  <2>1. k \in Nat
    <3> HIDE DEF out
    <3> QED
      BY <1>1, <1>2 DEF Bit
  <2>2. sum = 2 * k + r
    BY <1>4
  <2> HIDE DEF k, sum
  <2>3. (sum % 2) = r /\ sum \div 2 = k
    BY <1>3, <2>1, <2>2
  <2> QED
    BY <2>3 DEF k
<1>6. SumHolds(a, b, in, r, out)
  <2>1. a \in {0, 1} /\ b \in {0, 1} /\ in \in {0, 1}
    BY <1>1 DEF Bit
  <2>2. \A x \in {0, 2, 4} : (x % 2) = 0
    OBVIOUS
  <2>3. r = (IF (a + b + in) \in {1, 3} THEN 1 ELSE 0)
    <3> HIDE DEF out
    <3>1. out \in {0, 1} /\ r \in {0, 1} /\ a + b + in = 2 * out + r
      BY <1>2, <1>3 DEF Bit
    <3> QED
      BY ONLY <2>1, <3>1
  <2>4. (a + b + in + r) \in {0, 2, 4}
    BY <2>1, <2>3
  <2>5. (a * b + in * a + in * b + out) \in {0, 2, 4}
    <3>1. CASE a = 0
      BY <2>1, <3>1 DEF WitnessCarry
    <3>2. CASE a = 1
      BY <2>1, <3>2 DEF WitnessCarry
    <3> QED
      BY <2>1, <3>1, <3>2
  <2> QED
    BY <2>2, <2>4, <2>5 DEF SumHolds
<1> QED
  BY <1>2, <1>5, <1>6 DEF p, a, q, b

(* The numbers that a wallet puts on the balance wires. *)
Number(x, v) ==
  CASE v = "base" -> x.base
    [] v = "topup" -> x.topup
    [] v = "effective" -> x.base + x.topup
    [] v = "fresh" -> x.freshBase
    [] v = "spend" -> x.spend

(* The next bits of what is left, and the carries of their sums. *)
HonestBits(left) ==
  LET low == [v \in Values |-> left[v] % 2]
  IN  [w \in Wires |->
         CASE w = "old" -> WitnessCarry(low["base"], low["topup"], carry["old"])
           [] w = "new" -> WitnessCarry(low["fresh"], low["spend"], carry["new"])
           [] OTHER -> low[w]]

(* What is read and what is left are those numbers, the bits left add up with
   the carries, and the carries are those of the witness. *)
HonestBalances(x, left) ==
  /\ outcome # "rejected"
  /\ \A v \in Values : left[v] \in Nat /\ value[v] + weight * left[v] = Number(x, v)
  /\ left["base"] + left["topup"] + carry["old"] = left["effective"]
  /\ left["fresh"] + left["spend"] + carry["new"] = left["effective"]
  /\ kind = "direct" => left["topup"] = 0
  /\ bit = 0 => carry["old"] = 0 /\ carry["new"] = 0
  /\ bit # 0 => /\ carry["old"] = Carried(x.base, x.topup)[bit]
                /\ carry["new"] = Carried(x.freshBase, x.spend)[bit]

(* What the wallet computes natively for its request. *)
NativeRequest(x) ==
  [spend |-> x.spend, nullifier |-> DeriveNullifier(x.opening, x.base),
   commitment |-> CredentialTarget(x.fresh, x.freshBase)]

(* An honest prover goes on with what it has prepared. *)
HonestStages(x) ==
  /\ stage \notin {"rejected", "issued", "refused"}
  /\ stage \in {"token", "signature", "nullifier", "fresh", "accepted"} => opening = x.opening
  /\ stage \in {"signature", "nullifier", "fresh", "accepted"} => salt = x.salt

HonestRun(x) ==
  /\ Prepared(x) /\ witness = Witness(x) /\ request = NativeRequest(x)
  /\ \E left : HonestBalances(x, left)
  /\ HonestStages(x)

HonestInvariant == Honest => \E x : HonestRun(x)

(* They are amounts. *)
LEMMA NumbersAreAmounts ==
  ASSUME NEW x, Prepared(x), NEW v \in Values
  PROVE  Number(x, v) \in Amounts
<1>1. v \in {"base", "topup", "effective", "fresh", "spend"}
  BY DEF Values
<1> QED
  BY <1>1 DEF Number, Prepared

(* What is left is the number without the bits that are read. *)
LEMMA LeftIsQuotient ==
  ASSUME NEW x, NEW left, Ranges, HonestBalances(x, left), NEW v \in Values
  PROVE  left[v] = Number(x, v) \div 2 ^ bit
<1>1. weight \in Nat \ {0}
  <2>1. bit \in Nat
    BY BitsAssumption DEF Ranges
  <2> QED
    BY <2>1, PowersDouble DEF Ranges
<1>2. /\ value[v] \in 0 .. weight - 1 /\ left[v] \in Nat
      /\ value[v] + weight * left[v] = Number(x, v)
  BY DEF Ranges, HonestBalances
<1>3. (value[v] + weight * left[v]) \div weight = left[v]
  BY <1>1, <1>2, QuotientOfSum
<1> QED
  BY <1>2, <1>3 DEF Ranges

(* After the last bit nothing is left. *)
LEMMA AllIsRead ==
  ASSUME NEW x, NEW left, Prepared(x), Ranges, HonestBalances(x, left), bit = BALANCE_BITS,
         NEW v \in Values
  PROVE  left[v] = 0 /\ value[v] = Number(x, v)
<1>1. weight = 2 ^ BALANCE_BITS /\ weight \in Nat \ {0}
  BY AmountsAreNumbers DEF Ranges
<1>2. /\ value[v] \in 0 .. weight - 1 /\ left[v] \in Nat
      /\ value[v] + weight * left[v] = Number(x, v)
  BY DEF Ranges, HonestBalances
<1>3. Number(x, v) \in Nat /\ Number(x, v) < weight
  <2>1. Number(x, v) \in Amounts
    BY NumbersAreAmounts
  <2> QED
    BY <1>1, <2>1, AmountsAreNumbers
<1>4. left[v] = 0 /\ weight * left[v] = 0
  <2> DEFINE a == value[v]
             s == left[v]
  <2>1. weight \in Nat \ {0} /\ a \in Nat /\ s \in Nat /\ a + weight * s < weight
    BY <1>1, <1>2, <1>3
  <2> HIDE DEF a, s
  <2>2. s = 0 /\ weight * s = 0
    BY ONLY <2>1, NothingLeft
  <2> QED
    BY <2>2 DEF s
<1> QED
  BY <1>1, <1>2, <1>4

(* The pieces of the witness by name. *)
LEMMA NamedPieces ==
  ASSUME NEW x, Prepared(x)
  PROVE  /\ AllocBits(Witness(x), "signature") = Nibbles(x.signature)
         /\ AllocBits(Witness(x), "key") = x.opening.key
         /\ AllocBits(Witness(x), "base") = BalanceBits(x.base)
         /\ AllocBits(Witness(x), "nonce") = x.opening.nonce
         /\ AllocBits(Witness(x), "topup") = BalanceBits(x.topup)
         /\ AllocBits(Witness(x), "effective") = BalanceBits(x.base + x.topup)
         /\ AllocBits(Witness(x), "salt") = x.salt
         /\ AllocBits(Witness(x), "freshKey") = x.fresh.key
         /\ AllocBits(Witness(x), "fresh") = BalanceBits(x.freshBase)
         /\ AllocBits(Witness(x), "freshNonce") = x.fresh.nonce
         /\ AllocBits(Witness(x), "old") = Carried(x.base, x.topup)
         /\ AllocBits(Witness(x), "new") = Carried(x.freshBase, x.spend)
<1> DEFINE Cut(name) == AllocBits(Witness(x), name)
           p == Pieces(x)
<1>1. \A k \in 1 .. 12 : Cut(Allocations[k][1]) = p[k]
  BY WitnessIsCut
<1> HIDE DEF Cut, p
<1>2. /\ Cut(Allocations[1][1]) = p[1] /\ Cut(Allocations[2][1]) = p[2]
      /\ Cut(Allocations[3][1]) = p[3] /\ Cut(Allocations[4][1]) = p[4]
      /\ Cut(Allocations[5][1]) = p[5] /\ Cut(Allocations[6][1]) = p[6]
      /\ Cut(Allocations[7][1]) = p[7] /\ Cut(Allocations[8][1]) = p[8]
      /\ Cut(Allocations[9][1]) = p[9] /\ Cut(Allocations[10][1]) = p[10]
      /\ Cut(Allocations[11][1]) = p[11] /\ Cut(Allocations[12][1]) = p[12]
  BY <1>1
<1>3. /\ Allocations[1][1] = "signature" /\ Allocations[2][1] = "key"
      /\ Allocations[3][1] = "base" /\ Allocations[4][1] = "nonce"
      /\ Allocations[5][1] = "topup" /\ Allocations[6][1] = "effective"
      /\ Allocations[7][1] = "salt" /\ Allocations[8][1] = "freshKey"
      /\ Allocations[9][1] = "fresh" /\ Allocations[10][1] = "freshNonce"
      /\ Allocations[11][1] = "old" /\ Allocations[12][1] = "new"
  BY DEF Allocations
<1>4. /\ p[1] = Nibbles(x.signature) /\ p[2] = x.opening.key /\ p[3] = BalanceBits(x.base)
      /\ p[4] = x.opening.nonce /\ p[5] = BalanceBits(x.topup)
      /\ p[6] = BalanceBits(x.base + x.topup) /\ p[7] = x.salt /\ p[8] = x.fresh.key
      /\ p[9] = BalanceBits(x.freshBase) /\ p[10] = x.fresh.nonce
      /\ p[11] = Carried(x.base, x.topup) /\ p[12] = Carried(x.freshBase, x.spend)
  BY DEF p, Pieces
<1>5. /\ Cut("signature") = Nibbles(x.signature) /\ Cut("key") = x.opening.key
      /\ Cut("base") = BalanceBits(x.base) /\ Cut("nonce") = x.opening.nonce
      /\ Cut("topup") = BalanceBits(x.topup) /\ Cut("effective") = BalanceBits(x.base + x.topup)
      /\ Cut("salt") = x.salt /\ Cut("freshKey") = x.fresh.key
      /\ Cut("fresh") = BalanceBits(x.freshBase) /\ Cut("freshNonce") = x.fresh.nonce
      /\ Cut("old") = Carried(x.base, x.topup) /\ Cut("new") = Carried(x.freshBase, x.spend)
  BY <1>2, <1>3, <1>4
<1> QED
  BY <1>5 DEF Cut

(* The next carry of the witness is the one that an honest prover computes. *)
LEMMA NextCarry ==
  ASSUME NEW a \in Nat, NEW b \in Nat, NEW k \in 0 .. BALANCE_BITS - 1, NEW in,
         k = 0 => in = 0, k # 0 => in = Carried(a, b)[k]
  PROVE  Carried(a, b)[k + 1] = WitnessCarry((a \div 2 ^ k) % 2, (b \div 2 ^ k) % 2, in)
<1>1. PICK u : /\ u \in [0 .. BALANCE_BITS -> Bit] /\ u[0] = 0
               /\ \A i \in 1 .. BALANCE_BITS :
                    u[i] = WitnessCarry(BalanceBits(a)[i], BalanceBits(b)[i], u[i - 1])
               /\ Carried(a, b) = [i \in 1 .. BALANCE_BITS |-> u[i]]
  BY CarriedBits
<1>2. BALANCE_BITS \in Nat /\ k + 1 \in 1 .. BALANCE_BITS /\ (k + 1) - 1 = k
  BY BitsAssumption
<1>3. u[k] = in
  <2>1. k # 0 => k \in 1 .. BALANCE_BITS
    BY <1>2
  <2> QED
    BY <1>1, <2>1
<1>4. /\ BalanceBits(a)[k + 1] = (a \div 2 ^ ((k + 1) - 1)) % 2
      /\ BalanceBits(b)[k + 1] = (b \div 2 ^ ((k + 1) - 1)) % 2
  BY <1>2, BitsOfAmount
<1>5. u[k + 1] = WitnessCarry(BalanceBits(a)[k + 1], BalanceBits(b)[k + 1], u[(k + 1) - 1])
  BY <1>1, <1>2
<1>6. Carried(a, b)[k + 1] = u[k + 1]
  BY <1>1, <1>2
<1> QED
  BY <1>2, <1>3, <1>4, <1>5, <1>6

(* The bits cut from the witness are the next ones of the wallet's numbers, with
   the carries of their sums. *)
LEMMA CutBitIsHonest ==
  ASSUME NEW x, NEW left, Prepared(x), witness = Witness(x), request = NativeRequest(x),
         Ranges, HonestBalances(x, left), bit < BALANCE_BITS
  PROVE  CutBit = HonestBits(left) /\ CutBit \in [Wires -> Bit]
<1>1. /\ bit \in 0 .. BALANCE_BITS - 1 /\ bit + 1 \in 1 .. BALANCE_BITS /\ (bit + 1) - 1 = bit
      /\ BALANCE_BITS \in Nat
  BY BitsAssumption DEF Ranges
<1> DEFINE b == HonestBits(left)
<1>2. /\ b = [w \in Wires |-> b[w]]
      /\ \A v \in Values : b[v] = (left[v] % 2)
      /\ b["old"] = WitnessCarry(left["base"] % 2, left["topup"] % 2, carry["old"])
      /\ b["new"] = WitnessCarry(left["fresh"] % 2, left["spend"] % 2, carry["new"])
  BY DEF HonestBits, Wires, Values, Carries
<1> HIDE DEF b
<1>3. \A v \in Values : Number(x, v) \in Nat /\ left[v] = Number(x, v) \div 2 ^ bit
  BY NumbersAreAmounts, LeftIsQuotient, AmountsAreNumbers
<1>4. \A v \in Values : BalanceBits(Number(x, v))[bit + 1] = b[v]
  <2> TAKE v \in Values
  <2>1. BalanceBits(Number(x, v))[bit + 1] = (Number(x, v) \div 2 ^ ((bit + 1) - 1)) % 2
    BY <1>1, <1>3, BitsOfAmount
  <2> QED
    BY <1>1, <1>2, <1>3, <2>1
<1>5. /\ Number(x, "base") = x.base /\ Number(x, "topup") = x.topup
      /\ Number(x, "effective") = x.base + x.topup /\ Number(x, "fresh") = x.freshBase
      /\ Number(x, "spend") = x.spend
  BY DEF Number
<1>6. {"base", "topup", "effective", "fresh", "spend"} = Values
  BY DEF Values
<1>7. Carried(x.base, x.topup)[bit + 1] = b["old"]
  <2>1. x.base \in Nat /\ x.topup \in Nat
    BY <1>3, <1>5, <1>6
  <2>2. Carried(x.base, x.topup)[bit + 1]
          = WitnessCarry((x.base \div 2 ^ bit) % 2, (x.topup \div 2 ^ bit) % 2, carry["old"])
    <3> DEFINE m == x.base
               n == x.topup
               in == carry["old"]
    <3>1. /\ m \in Nat /\ n \in Nat /\ bit \in 0 .. BALANCE_BITS - 1
          /\ bit = 0 => in = 0
          /\ bit # 0 => in = Carried(m, n)[bit]
      BY <1>1, <2>1 DEF HonestBalances
    <3> HIDE DEF m, n, in
    <3>2. Carried(m, n)[bit + 1] = WitnessCarry((m \div 2 ^ bit) % 2, (n \div 2 ^ bit) % 2, in)
      BY ONLY <3>1, NextCarry
    <3> QED
      BY <3>2 DEF m, n, in
  <2> QED
    BY <1>2, <1>3, <1>5, <1>6, <2>2
<1>8. Carried(x.freshBase, x.spend)[bit + 1] = b["new"]
  <2>1. x.freshBase \in Nat /\ x.spend \in Nat
    BY <1>3, <1>5, <1>6
  <2>2. Carried(x.freshBase, x.spend)[bit + 1]
          = WitnessCarry((x.freshBase \div 2 ^ bit) % 2, (x.spend \div 2 ^ bit) % 2, carry["new"])
    <3> DEFINE m == x.freshBase
               n == x.spend
               in == carry["new"]
    <3>1. /\ m \in Nat /\ n \in Nat /\ bit \in 0 .. BALANCE_BITS - 1
          /\ bit = 0 => in = 0
          /\ bit # 0 => in = Carried(m, n)[bit]
      BY <1>1, <2>1 DEF HonestBalances
    <3> HIDE DEF m, n, in
    <3>2. Carried(m, n)[bit + 1] = WitnessCarry((m \div 2 ^ bit) % 2, (n \div 2 ^ bit) % 2, in)
      BY ONLY <3>1, NextCarry
    <3> QED
      BY <3>2 DEF m, n, in
  <2> QED
    BY <1>2, <1>3, <1>5, <1>6, <2>2
<1>9. \A w \in Wires : w # "spend" => AllocBits(witness, w)[bit + 1] = b[w]
  <2> TAKE w \in Wires
  <2>1. w \in {"base", "topup", "effective", "fresh", "spend", "old", "new"}
    BY DEF Wires, Values, Carries
  <2> QED
    BY <1>4, <1>5, <1>6, <1>7, <1>8, <2>1, NamedPieces
<1>10. BalanceBits(request.spend)[bit + 1] = b["spend"]
  BY <1>4, <1>5, <1>6 DEF NativeRequest
<1>11. CutBit = [w \in Wires |-> b[w]]
  <2>1. CutBit = [w \in Wires |-> IF w = "spend" THEN BalanceBits(request.spend)[bit + 1]
                                  ELSE AllocBits(witness, w)[bit + 1]]
    BY DEF CutBit
  <2> QED
    BY ONLY <1>9, <1>10, <2>1
<1>12. \A w \in Wires : b[w] \in Bit
  <2>1. \A v \in Values : b[v] \in Bit
    <3> TAKE v \in Values
    <3>1. left[v] \in Nat
      BY DEF HonestBalances
    <3>2. (left[v] % 2) \in {0, 1}
      BY <3>1
    <3> QED
      BY <1>2, <3>2 DEF Bit
  <2>2. b["old"] \in Bit /\ b["new"] \in Bit
    BY <1>2 DEF WitnessCarry, Bit
  <2> QED
    BY <2>1, <2>2 DEF Wires, Carries
<1>13. CutBit \in [Wires -> Bit]
  BY <1>11, <1>12
<1> QED
  BY <1>2, <1>11, <1>13 DEF b

(* A wallet starts with all of its numbers to put on wires. *)
LEMMA InitHonest == SpendInit => HonestInvariant
<1> SUFFICES ASSUME SpendInit, Honest
    PROVE  \E x : HonestRun(x)
  BY DEF HonestInvariant
<1>1. /\ bit = 0 /\ weight = 1 /\ value = [v \in Values |-> 0]
      /\ carry = [c \in Carries |-> 0] /\ outcome = "open" /\ stage = "balances"
  BY DEF SpendInit, Init
<1>2. PICK d \in Draws, base, topup, spend \in Amounts :
        /\ kind = "direct" => topup = 0
        /\ base + topup \in Amounts /\ base + topup - spend \in Amounts
        /\ request = [spend |-> spend,
                      nullifier |-> DeriveNullifier(d.opening, base),
                      commitment |-> CredentialTarget(d.fresh, base + topup - spend)]
        /\ witness = Witness(
             [opening |-> d.opening, base |-> base, topup |-> topup, salt |-> d.salt,
              fresh |-> d.fresh, freshBase |-> base + topup - spend, spend |-> spend,
              signature |-> Sign(SignedTokenTarget(
                              CredentialTarget(d.opening, base), topup, d.salt))])
  BY DEF SpendInit, Honest
<1> DEFINE target == SignedTokenTarget(CredentialTarget(d.opening, base), topup, d.salt)
           x == [opening |-> d.opening, base |-> base, topup |-> topup, salt |-> d.salt,
                 fresh |-> d.fresh, freshBase |-> base + topup - spend, spend |-> spend,
                 signature |-> Sign(target)]
<1>3. witness = Witness(x)
  BY <1>2
<1>4. base \in Nat /\ topup \in Nat /\ spend \in Nat
  BY AmountsAreNumbers
<1>5. (base + topup - spend) + spend = base + topup
  BY <1>4
<1>6. d.opening \in Openings /\ d.fresh \in Openings /\ d.salt \in Secrets
  BY WalletAssumption
<1>7. Sign(target) \in [1 .. KN -> GF]
  <2>1. Shake(TokenMessage(CredentialTarget(d.opening, base), topup, d.salt), 4 * M)
          \in [1 .. 4 * M -> Bit]
    BY <1>6, ShakeAssumption
  <2>2. target \in [1 .. M -> GF]
    BY <2>1, UnnibbledElements DEF SignedTokenTarget
  <2> QED
    BY <2>2, SignAssumption
<1>8. \A i \in 1 .. M : Eval(Sign(target), i) = target[i]
  BY <1>2, WalletAssumption
<1>9. /\ x.opening = d.opening /\ x.base = base /\ x.topup = topup /\ x.salt = d.salt
      /\ x.fresh = d.fresh /\ x.freshBase = base + topup - spend /\ x.spend = spend
      /\ x.signature = Sign(target)
  OBVIOUS
<1> HIDE DEF x
<1>10. Prepared(x)
  BY <1>2, <1>5, <1>6, <1>7, <1>8, <1>9 DEF Prepared
<1>11. request = NativeRequest(x)
  BY <1>2, <1>9 DEF NativeRequest
<1> DEFINE left == [v \in Values |-> Number(x, v)]
<1>12. ASSUME NEW v \in Values
       PROVE  left[v] \in Nat /\ value[v] + weight * left[v] = Number(x, v)
  <2>1. Number(x, v) \in Nat
    BY <1>10, NumbersAreAmounts, AmountsAreNumbers
  <2> QED
    BY <1>1, <2>1
<1>13. /\ left["base"] = base /\ left["topup"] = topup
       /\ left["effective"] = base + topup /\ left["fresh"] = base + topup - spend
       /\ left["spend"] = spend
  BY <1>9 DEF Values, Number
<1> HIDE DEF left
<1>14. carry["old"] = 0 /\ carry["new"] = 0
  BY <1>1 DEF Carries
<1>15. HonestBalances(x, left)
  BY <1>1, <1>2, <1>4, <1>5, <1>12, <1>13, <1>14 DEF HonestBalances
<1>16. HonestStages(x)
  BY <1>1 DEF HonestStages
<1> QED
  BY <1>3, <1>10, <1>11, <1>15, <1>16 DEF HonestRun

(* Reading the balances, an honest prover keeps to its numbers. *)
LEMMA HonestReads ==
  ASSUME SpendInvariant, NEW x, HonestRun(x), NEW left, HonestBalances(x, left),
         NEW w, w = CutBit, ReadBit(w), NEW half, half = [v \in Values |-> left[v] \div 2]
  PROVE  HonestBalances(x, half)'
<1>1. /\ Prepared(x) /\ witness = Witness(x) /\ request = NativeRequest(x) /\ IInv /\ Ranges
      /\ bit < BALANCE_BITS /\ bit \in Nat
  BY BitsAssumption DEF HonestRun, SpendInvariant, ReadBit, MoreBits, Ranges
<1>2. w = HonestBits(left)
  BY <1>1, CutBitIsHonest
<1>3. /\ \A v \in Values : w[v] = (left[v] % 2)
      /\ w["old"] = WitnessCarry(left["base"] % 2, left["topup"] % 2, carry["old"])
      /\ w["new"] = WitnessCarry(left["fresh"] % 2, left["spend"] % 2, carry["new"])
  BY <1>2 DEF HonestBits, Wires, Values, Carries
<1>4. {"base", "topup", "effective", "fresh", "spend"} = Values /\ {"old", "new"} = Carries
  BY DEF Values, Carries
<1>5. /\ \A v \in Values : left[v] \in Nat
      /\ \A v \in Values : value[v] + weight * left[v] = Number(x, v)
      /\ left["base"] + left["topup"] + carry["old"] = left["effective"]
      /\ left["fresh"] + left["spend"] + carry["new"] = left["effective"]
      /\ kind = "direct" => left["topup"] = 0
  BY <1>1 DEF HonestBalances
<1>6. carry["old"] \in Bit /\ carry["new"] \in Bit
  BY <1>1, <1>4 DEF IInv
<1>7. \A v \in Values : half[v] = left[v] \div 2 /\ half[v] \in Nat
  BY <1>5, HalfOf
<1>8. /\ SumHolds(w["base"], w["topup"], carry["old"], w["effective"], w["old"])
      /\ half["base"] + half["topup"] + w["old"] = half["effective"]
  <2> DEFINE s == left["base"]
             t == left["topup"]
             in == carry["old"]
  <2>1. s \in Nat /\ t \in Nat /\ in \in Bit /\ s + t + in = left["effective"]
    BY <1>4, <1>5, <1>6
  <2> HIDE DEF s, t, in
  <2>2. /\ SumHolds(s % 2, t % 2, in, (s + t + in) % 2, WitnessCarry(s % 2, t % 2, in))
        /\ (s \div 2) + (t \div 2) + WitnessCarry(s % 2, t % 2, in) = (s + t + in) \div 2
    BY ONLY <2>1, HonestSum
  <2>3. /\ w["base"] = (s % 2) /\ w["topup"] = (t % 2) /\ w["effective"] = ((s + t + in) % 2)
        /\ w["old"] = WitnessCarry(s % 2, t % 2, in)
        /\ half["base"] = s \div 2 /\ half["topup"] = t \div 2
        /\ half["effective"] = (s + t + in) \div 2
    BY <1>3, <1>4, <1>7, <2>1 DEF s, t, in
  <2> QED
    BY ONLY <2>2, <2>3 DEF in
<1>9. /\ SumHolds(w["fresh"], w["spend"], carry["new"], w["effective"], w["new"])
      /\ half["fresh"] + half["spend"] + w["new"] = half["effective"]
  <2> DEFINE s == left["fresh"]
             t == left["spend"]
             in == carry["new"]
  <2>1. s \in Nat /\ t \in Nat /\ in \in Bit /\ s + t + in = left["effective"]
    BY <1>4, <1>5, <1>6
  <2> HIDE DEF s, t, in
  <2>2. /\ SumHolds(s % 2, t % 2, in, (s + t + in) % 2, WitnessCarry(s % 2, t % 2, in))
        /\ (s \div 2) + (t \div 2) + WitnessCarry(s % 2, t % 2, in) = (s + t + in) \div 2
    BY ONLY <2>1, HonestSum
  <2>3. /\ w["fresh"] = (s % 2) /\ w["spend"] = (t % 2) /\ w["effective"] = ((s + t + in) % 2)
        /\ w["new"] = WitnessCarry(s % 2, t % 2, in)
        /\ half["fresh"] = s \div 2 /\ half["spend"] = t \div 2
        /\ half["effective"] = (s + t + in) \div 2
    BY <1>3, <1>4, <1>7, <2>1 DEF s, t, in
  <2> QED
    BY ONLY <2>2, <2>3 DEF in
<1>10. BitHolds(w)
  <2>1. kind = "direct" => w["topup"] = 0
    BY <1>3, <1>4, <1>5
  <2> QED
    BY <1>8, <1>9, <2>1 DEF BitHolds
<1>11. /\ value' = [v \in Values |-> value[v] + weight * w[v]]
       /\ carry' = [c \in Carries |-> w[c]]
       /\ bit' = bit + 1 /\ weight' = 2 * weight
       /\ kind' = kind /\ outcome' = "open"
  BY <1>1, <1>10 DEF ReadBit, HonestBalances
<1>12. ASSUME NEW v \in Values
       PROVE  half[v] \in Nat /\ value'[v] + weight' * half[v] = Number(x, v)
  <2> DEFINE a == value[v]
             s == left[v]
  <2>1. /\ half[v] = s \div 2 /\ half[v] \in Nat
        /\ value'[v] = a + weight * (s % 2) /\ weight' = 2 * weight
        /\ a + weight * s = Number(x, v)
    BY <1>3, <1>5, <1>7, <1>11
  <2>2. weight \in Nat /\ a \in Nat /\ s \in Nat
    <3>1. weight \in Nat
      BY <1>1, PowersDouble DEF Ranges
    <3> QED
      BY <1>1, <1>5, <3>1 DEF Ranges
  <2> HIDE DEF a, s
  <2>3. (a + weight * (s % 2)) + (2 * weight) * (s \div 2) = a + weight * s
    BY ONLY <2>2, BitMoves
  <2> QED
    BY <2>1, <2>3
<1>13. carry'["old"] = w["old"] /\ carry'["new"] = w["new"]
  BY <1>4, <1>11
<1>14. kind' = "direct" => half["topup"] = 0
  BY <1>4, <1>5, <1>7, <1>11
<1>15. bit' # 0 /\ bit' = bit + 1
  BY <1>1, <1>11
<1>16. /\ w["old"] = Carried(x.base, x.topup)[bit + 1]
       /\ w["new"] = Carried(x.freshBase, x.spend)[bit + 1]
  BY <1>1, NamedPieces DEF CutBit, Wires, Carries
<1>17. /\ half["base"] + half["topup"] + carry'["old"] = half["effective"]
       /\ half["fresh"] + half["spend"] + carry'["new"] = half["effective"]
  BY <1>8, <1>9, <1>11, <1>13
<1> QED
  BY <1>11, <1>12, <1>13, <1>14, <1>15, <1>16, <1>17 DEF HonestBalances

(* At the end nothing is carried out. *)
LEMMA HonestFinishes ==
  ASSUME SpendInvariant, NEW x, Prepared(x), NEW left, HonestBalances(x, left), Finish
  PROVE  HonestBalances(x, left)'
<1>1. IInv /\ Ranges /\ bit = BALANCE_BITS
  BY DEF SpendInvariant, Finish
<1>2. \A v \in Values : left[v] = 0
  BY <1>1, AllIsRead
<1>3. {"base", "topup", "effective", "fresh", "spend"} = Values /\ {"old", "new"} = Carries
  BY DEF Values, Carries
<1>4. carry["old"] \in Bit /\ carry["new"] \in Bit
  BY <1>1, <1>3 DEF IInv
<1>5. carry["old"] = 0 /\ carry["new"] = 0
  <2>1. /\ left["base"] + left["topup"] + carry["old"] = left["effective"]
        /\ left["fresh"] + left["spend"] + carry["new"] = left["effective"]
    BY DEF HonestBalances
  <2>2. /\ left["base"] = 0 /\ left["topup"] = 0 /\ left["effective"] = 0
        /\ left["fresh"] = 0 /\ left["spend"] = 0
    BY <1>2, <1>3
  <2> QED
    BY <1>4, <2>1, <2>2 DEF Bit
<1>6. outcome' = "accepted" /\ UNCHANGED <<kind, bit, weight, value, carry>>
  BY <1>5 DEF Finish, FinalCarriesZero
<1> QED
  BY <1>6 DEF HonestBalances

(* A stage does not touch the balances. *)
LEMMA HonestStays ==
  ASSUME NEW x, HonestRun(x), UNCHANGED vars, witness' = witness, request' = request,
         HonestStages(x)'
  PROVE  HonestRun(x)'
<1>1. PICK left : HonestBalances(x, left)
  BY DEF HonestRun
<1>2. UNCHANGED <<kind, bit, weight, value, carry, outcome>>
  BY DEF vars
<1>3. HonestBalances(x, left)'
  BY <1>1, <1>2 DEF HonestBalances
<1>4. Prepared(x) /\ witness' = Witness(x) /\ request' = NativeRequest(x)
  BY DEF HonestRun
<1> QED
  BY <1>3, <1>4 DEF HonestRun

(* Past the balances, the wires are those of the wallet's numbers. *)
LEMMA HonestValues ==
  ASSUME SpendInvariant, NEW x, HonestRun(x), outcome = "accepted"
  PROVE  value["base"] = x.base /\ value["topup"] = x.topup /\ value["fresh"] = x.freshBase
<1>1. Prepared(x) /\ Ranges /\ bit = BALANCE_BITS
  BY DEF HonestRun, SpendInvariant, Ranges
<1>2. PICK left : HonestBalances(x, left)
  BY DEF HonestRun
<1>3. \A v \in Values : value[v] = Number(x, v)
  BY <1>1, <1>2, AllIsRead
<1>4. "base" \in Values /\ "topup" \in Values /\ "fresh" \in Values
  BY DEF Values
<1>5. Number(x, "base") = x.base /\ Number(x, "topup") = x.topup /\ Number(x, "fresh") = x.freshBase
  BY DEF Number
<1> QED
  BY <1>3, <1>4, <1>5

(* What an honest prover offers is what the wallet has prepared: the openings,
   the salt and the signature are cut where they were put, the public values
   are those of the request. *)
LEMMA HonestOffers ==
  ASSUME NEW x, HonestRun(x), Honest
  PROVE  /\ OfferedBits = {CutBit}
         /\ OfferedOpenings("key", "nonce") = {x.opening}
         /\ OfferedSalts = {x.salt}
         /\ OfferedSignatures = {x.signature}
         /\ OfferedNullifiers = {DeriveNullifier(x.opening, x.base)}
         /\ OfferedOpenings("freshKey", "freshNonce") = {x.fresh}
         /\ \A o : OfferedCommitments(o) = {CredentialTarget(x.fresh, x.freshBase)}
<1>1. Prepared(x) /\ witness = Witness(x) /\ request = NativeRequest(x)
  BY DEF HonestRun
<1>2. ASSUME NEW o \in Openings
      PROVE  [key |-> o.key, nonce |-> o.nonce] = o
  BY DEF Openings
<1>3. OfferedOpenings("key", "nonce") = {x.opening}
  <2>1. /\ AllocBits(witness, "key") = x.opening.key
        /\ AllocBits(witness, "nonce") = x.opening.nonce
    BY <1>1, NamedPieces
  <2>2. [key |-> x.opening.key, nonce |-> x.opening.nonce] = x.opening
    BY <1>1, <1>2 DEF Prepared
  <2> QED
    BY <2>1, <2>2 DEF OfferedOpenings
<1>4. OfferedOpenings("freshKey", "freshNonce") = {x.fresh}
  <2>1. /\ AllocBits(witness, "freshKey") = x.fresh.key
        /\ AllocBits(witness, "freshNonce") = x.fresh.nonce
    BY <1>1, NamedPieces
  <2>2. [key |-> x.fresh.key, nonce |-> x.fresh.nonce] = x.fresh
    BY <1>1, <1>2 DEF Prepared
  <2> QED
    BY <2>1, <2>2 DEF OfferedOpenings
<1>5. OfferedSignatures = {x.signature}
  <2>1. AllocBits(witness, "signature") = Nibbles(x.signature)
    BY <1>1, NamedPieces
  <2>2. Lifted(Nibbles(x.signature), KN) = x.signature
    BY <1>1, KeyAssumption, LiftedNibbles DEF Prepared
  <2> QED
    BY <2>1, <2>2 DEF OfferedSignatures
<1>6. OfferedSalts = {x.salt}
  BY <1>1, NamedPieces DEF OfferedSalts
<1>7. /\ OfferedNullifiers = {DeriveNullifier(x.opening, x.base)}
      /\ \A o : OfferedCommitments(o) = {CredentialTarget(x.fresh, x.freshBase)}
  BY <1>1 DEF OfferedNullifiers, OfferedCommitments, NativeRequest
<1> QED
  BY <1>3, <1>4, <1>5, <1>6, <1>7 DEF OfferedBits

(* The credential on the wires is the one of the token. *)
LEMMA HonestCredential ==
  ASSUME NEW x, HonestRun(x), HashCredential(x.opening)
  PROVE  HonestRun(x)'
<1>1. UNCHANGED vars /\ witness' = witness /\ request' = request
  BY DEF HashCredential
<1>2. opening' = x.opening /\ stage' = "token"
  BY DEF HashCredential
<1>3. HonestStages(x)'
  BY <1>2 DEF HonestStages
<1> QED
  BY <1>1, <1>3, HonestStays

(* So is the salt. *)
LEMMA HonestToken ==
  ASSUME NEW x, HonestRun(x), HashToken(x.salt)
  PROVE  HonestRun(x)'
<1>1. UNCHANGED vars /\ witness' = witness /\ request' = request
  BY DEF HashToken
<1>2. salt' = x.salt /\ stage' = "signature" /\ opening' = x.opening
  BY DEF HashToken, HonestRun, HonestStages
<1>3. HonestStages(x)'
  BY <1>2 DEF HonestStages
<1> QED
  BY <1>1, <1>3, HonestStays

(* The stored signature was made for the target that the circuit computes from
   the wires. *)
LEMMA HonestSignature ==
  ASSUME SpendInvariant, NEW x, HonestRun(x), CheckSignature(x.signature)
  PROVE  HonestRun(x)'
<1>1. /\ UNCHANGED vars /\ witness' = witness /\ request' = request
      /\ stage = "signature" /\ opening' = opening /\ salt' = salt
  BY DEF CheckSignature
<1>2. Prepared(x) /\ CredentialHashed /\ TokenHashed /\ opening = x.opening /\ salt = x.salt
  BY <1>1 DEF SpendInvariant, StageInvariant, HonestRun, HonestStages
<1>3. value["base"] = x.base /\ value["topup"] = x.topup
  BY <1>2, HonestValues DEF CredentialHashed
<1>4. Unnibbled(signedTarget)
        = SignedTokenTarget(CredentialTarget(x.opening, x.base), x.topup, x.salt)
  BY <1>2, <1>3 DEF TokenHashed, SignedTokenTarget
<1>5. \A i \in 1 .. M : MayoSystem(x.signature, i) = Unnibbled(signedTarget)[i]
  <2> TAKE i \in 1 .. M
  <2>1. MayoSystem(x.signature, i) = Eval(x.signature, i)
    BY <1>2, SystemIsForm DEF Prepared
  <2>2. Eval(x.signature, i)
          = SignedTokenTarget(CredentialTarget(x.opening, x.base), x.topup, x.salt)[i]
    BY <1>2 DEF Prepared
  <2> QED
    BY <1>4, <2>1, <2>2
<1>6. stage' = "nullifier"
  BY <1>5 DEF CheckSignature
<1>7. HonestStages(x)'
  BY <1>1, <1>2, <1>6 DEF HonestStages
<1> QED
  BY <1>1, <1>7, HonestStays

(* The nullifier of the request is the one that the hidden hash ends in. *)
LEMMA HonestNullifier ==
  ASSUME SpendInvariant, NEW x, HonestRun(x),
         CheckNullifier(DeriveNullifier(x.opening, x.base))
  PROVE  HonestRun(x)'
<1> DEFINE n == DeriveNullifier(x.opening, x.base)
<1>1. /\ UNCHANGED vars /\ witness' = witness /\ request' = request
      /\ stage = "nullifier" /\ opening' = opening /\ salt' = salt
  BY DEF CheckNullifier
<1>2. Prepared(x) /\ CredentialHashed /\ opening = x.opening /\ salt = x.salt
  BY <1>1 DEF SpendInvariant, StageInvariant, HonestRun, HonestStages
<1>3. value["base"] = x.base /\ value["base"] \in Amounts
  BY <1>2, HonestValues DEF CredentialHashed, Prepared
<1>4. n = [i \in 1 .. NullifierBits |-> oldOutput[4 * M + i]]
  BY <1>2, <1>3, NullifierOfOutput
<1>5. stage' = IF NullifierMatches(oldOutput, n) THEN "fresh" ELSE "rejected"
  BY DEF CheckNullifier
<1> HIDE DEF n
<1>6. NullifierMatches(oldOutput, n)
  BY <1>4 DEF NullifierMatches
<1>7. HonestStages(x)'
  BY <1>1, <1>2, <1>5, <1>6 DEF HonestStages
<1> QED
  BY <1>1, <1>7, HonestStays

(* The fresh commitment of the request is the hash of what is on the wires. *)
LEMMA HonestFresh ==
  ASSUME SpendInvariant, NEW x, HonestRun(x),
         CheckFresh(x.fresh, CredentialTarget(x.fresh, x.freshBase))
  PROVE  HonestRun(x)'
<1> DEFINE c == CredentialTarget(x.fresh, x.freshBase)
<1>1. /\ UNCHANGED vars /\ witness' = witness /\ request' = request
      /\ stage = "fresh" /\ opening' = opening /\ salt' = salt
  BY DEF CheckFresh
<1>2. Prepared(x) /\ CredentialHashed /\ opening = x.opening /\ salt = x.salt
  BY <1>1 DEF SpendInvariant, StageInvariant, HonestRun, HonestStages
<1>3. value["fresh"] = x.freshBase /\ x.freshBase \in Amounts /\ x.fresh \in Openings
  BY <1>2, HonestValues DEF CredentialHashed, Prepared
<1>4. c \in [1 .. M -> GF]
  BY <1>3, CredentialWiresHash
<1>5. OutputIs(CredentialWires(x.fresh.key, BalanceBits(value["fresh"]), x.fresh.nonce), Nibbles(c))
  BY <1>3, <1>4, OutputDecides
<1>6. stage' = "accepted"
  BY <1>5 DEF CheckFresh
<1>7. HonestStages(x)'
  BY <1>1, <1>2, <1>6 DEF HonestStages
<1> QED
  BY <1>1, <1>7, HonestStays

(* The balances, by the two lemmas above. *)
LEMMA HonestBalancesStep ==
  ASSUME SpendInvariant, NEW x, HonestRun(x), Honest, Balances
  PROVE  HonestRun(x)'
<1>1. /\ Prepared(x) /\ witness' = Witness(x) /\ request' = NativeRequest(x)
      /\ stage' = stage /\ opening' = opening /\ salt' = salt
  BY DEF Balances, statementVars, HonestRun
<1>2. PICK left : HonestBalances(x, left)
  BY DEF HonestRun
<1>3. \E l : HonestBalances(x, l)'
  <2>1. CASE Finish
    BY <1>1, <1>2, <2>1, HonestFinishes
  <2>2. ASSUME NEW w \in OfferedBits, ReadBit(w)
        PROVE  \E l : HonestBalances(x, l)'
    <3>1. w = CutBit
      BY HonestOffers
    <3> DEFINE half == [v \in Values |-> left[v] \div 2]
    <3>2. half = [v \in Values |-> left[v] \div 2]
      OBVIOUS
    <3> HIDE DEF half
    <3>3. HonestBalances(x, half)'
      BY <1>2, <2>2, <3>1, <3>2, HonestReads
    <3> QED
      BY <3>3
  <2> QED
    BY <2>1, <2>2 DEF Balances
<1>4. HonestStages(x)'
  BY <1>1 DEF HonestRun, HonestStages
<1> QED
  BY <1>1, <1>3, <1>4 DEF HonestRun

(* Every step of an honest prover, by the lemma of its action. *)
LEMMA HonestStep ==
  ASSUME SpendInvariant, HonestInvariant, [SpendNext]_<<vars, statementVars>>
  PROVE  HonestInvariant'
<1> SUFFICES ASSUME Honest'
             PROVE  \E x : HonestRun(x)'
  BY DEF HonestInvariant
<1>1. witness' = witness
  BY DEF SpendNext, Balances, HashCredential, HashToken, CheckSignature, CheckNullifier,
     CheckFresh, Issue, statementVars
<1>2. Honest
  BY <1>1 DEF Honest
<1>3. PICK x : HonestRun(x)
  BY <1>2 DEF HonestInvariant
<1>4. CASE Balances
  BY <1>2, <1>3, <1>4, HonestBalancesStep
<1>5. ASSUME NEW o \in OfferedOpenings("key", "nonce"), HashCredential(o)
      PROVE  HonestRun(x)'
  BY <1>2, <1>3, <1>5, HonestOffers, HonestCredential
<1>6. ASSUME NEW s \in OfferedSalts, HashToken(s)
      PROVE  HonestRun(x)'
  BY <1>2, <1>3, <1>6, HonestOffers, HonestToken
<1>7. ASSUME NEW sig \in OfferedSignatures, CheckSignature(sig)
      PROVE  HonestRun(x)'
  BY <1>2, <1>3, <1>7, HonestOffers, HonestSignature
<1>8. ASSUME NEW n \in OfferedNullifiers, CheckNullifier(n)
      PROVE  HonestRun(x)'
  BY <1>2, <1>3, <1>8, HonestOffers, HonestNullifier
<1>9. ASSUME NEW o \in OfferedOpenings("freshKey", "freshNonce"),
             NEW c \in OfferedCommitments(o), CheckFresh(o, c)
      PROVE  HonestRun(x)'
  BY <1>2, <1>3, <1>9, HonestOffers, HonestFresh
<1>10. ASSUME NEW o \in Openings, NEW b \in Amounts, NEW t \in OfferedTargets(o, b), Issue(o, b, t)
       PROVE  FALSE
  BY <1>2, <1>10 DEF Issue
<1>11. CASE UNCHANGED <<vars, statementVars>>
  <2>1. /\ UNCHANGED vars /\ witness' = witness /\ request' = request /\ stage' = stage
        /\ opening' = opening /\ salt' = salt
    BY <1>11 DEF statementVars
  <2>2. HonestStages(x)'
    BY <1>3, <2>1 DEF HonestRun, HonestStages
  <2> QED
    BY <1>3, <2>1, <2>2, HonestStays
<1> QED
  BY <1>4, <1>5, <1>6, <1>7, <1>8, <1>9, <1>10, <1>11 DEF SpendNext

-----------------------------------------------------------------------------
(***************************************************************************)
(* All provers.                                                            *)
(***************************************************************************)

(* Whatever a prover offers for a stage has the type of its wires. *)
LEMMA OffersAreTyped ==
  ASSUME SpendInvariant, HonestInvariant
  PROVE  /\ MoreBits => OfferedBits \subseteq [Wires -> Bit]
         /\ OfferedOpenings("key", "nonce") \subseteq Openings
         /\ OfferedOpenings("freshKey", "freshNonce") \subseteq Openings
         /\ OfferedSalts \subseteq Secrets
         /\ stage = "signature" => OfferedSignatures \subseteq [1 .. KN -> GF]
         /\ stage = "nullifier" => OfferedNullifiers \subseteq [1 .. NullifierBits -> Bit]
         /\ stage = "fresh" => \A o \in Openings : OfferedCommitments(o) \subseteq [1 .. M -> GF]
<1>1. ASSUME NEW o \in Openings, NEW balance \in Amounts
      PROVE  DeriveNullifier(o, balance) \in [1 .. NullifierBits -> Bit]
  <2> DEFINE output == Shake(CredentialMessage(o, balance), 4 * M + NullifierBits)
  <2>1. /\ output \in [1 .. 4 * M + NullifierBits -> Bit]
        /\ DeriveNullifier(o, balance) = [i \in 1 .. NullifierBits |-> output[4 * M + i]]
    BY CredentialWiresHash
  <2>2. \A i \in 1 .. NullifierBits : 4 * M + i \in 1 .. 4 * M + NullifierBits
    BY KeyAssumption
  <2> HIDE DEF output
  <2> QED
    BY <2>1, <2>2
<1>2. CASE Honest
  <2>1. PICK x : HonestRun(x)
    BY <1>2 DEF HonestInvariant
  <2>2. Prepared(x) /\ witness = Witness(x) /\ request = NativeRequest(x) /\ IInv /\ Ranges
    BY <2>1 DEF HonestRun, SpendInvariant
  <2>3. MoreBits => CutBit \in [Wires -> Bit]
    <3>1. PICK left : HonestBalances(x, left)
      BY <2>1 DEF HonestRun
    <3> QED
      BY <2>2, <3>1, CutBitIsHonest DEF MoreBits
  <2>4. DeriveNullifier(x.opening, x.base) \in [1 .. NullifierBits -> Bit]
    BY <1>1, <2>2 DEF Prepared
  <2>5. CredentialTarget(x.fresh, x.freshBase) \in [1 .. M -> GF]
    BY <2>2, CredentialWiresHash DEF Prepared
  <2>6. /\ x.opening \in Openings /\ x.fresh \in Openings /\ x.salt \in Secrets
        /\ x.signature \in [1 .. KN -> GF]
    BY <2>2 DEF Prepared
  <2> QED
    BY <1>2, <2>1, <2>3, <2>4, <2>5, <2>6, HonestOffers
<1>3. CASE ~ Honest
  <2>1. /\ OfferedBits = [Wires -> Bit] /\ OfferedSalts = Secrets
        /\ OfferedOpenings("key", "nonce") = Openings
        /\ OfferedOpenings("freshKey", "freshNonce") = Openings
    BY <1>3 DEF OfferedBits, OfferedSalts, OfferedOpenings
  <2>2. stage \in {"signature", "nullifier", "fresh"} =>
          /\ CredentialHashed /\ TokenHashed
          /\ value["base"] \in Amounts /\ value["topup"] \in Amounts /\ value["fresh"] \in Amounts
    BY AcceptedAmounts DEF SpendInvariant, StageInvariant, CredentialHashed, Values
  <2>3. ASSUME stage = "signature"
        PROVE  OfferedSignatures \subseteq [1 .. KN -> GF]
    <3>1. signedTarget \in [1 .. 4 * M -> Bit]
      <4>1. \A o \in Openings, balance \in Amounts, topup \in Amounts, s \in Secrets :
              Shake(TokenMessage(CredentialTarget(o, balance), topup, s), 4 * M)
                \in [1 .. 4 * M -> Bit]
        BY ShakeAssumption
      <4> QED
        BY <2>2, <2>3, <4>1 DEF CredentialHashed, TokenHashed
    <3>2. SubSeq(oldOutput, 1, 4 * M) \in [1 .. 4 * M -> Bit]
      <4> DEFINE balance == value["base"]
                 output == Shake(CredentialMessage(opening, balance), 4 * M + NullifierBits)
      <4>1. opening \in Openings /\ balance \in Amounts /\ oldOutput = output
        BY <2>2, <2>3 DEF CredentialHashed
      <4> HIDE DEF balance
      <4>2. SubSeq(output, 1, 4 * M) \in [1 .. 4 * M -> Bit]
        BY <4>1, CredentialWiresHash
      <4> QED
        BY <4>1, <4>2
    <3>3. /\ Unnibbled(signedTarget) \in [1 .. M -> GF]
          /\ Unnibbled(SubSeq(oldOutput, 1, 4 * M)) \in [1 .. M -> GF]
      BY <3>1, <3>2, UnnibbledElements
    <3> QED
      BY <1>3, <3>3, SignAssumption DEF OfferedSignatures
  <2>4. ASSUME stage = "nullifier"
        PROVE  OfferedNullifiers \subseteq [1 .. NullifierBits -> Bit]
    BY <1>1, <1>3, <2>2, <2>4 DEF OfferedNullifiers
  <2>5. ASSUME stage = "fresh", NEW o \in Openings
        PROVE  OfferedCommitments(o) \subseteq [1 .. M -> GF]
    BY <1>3, <2>2, <2>5, OfferedAreElements DEF OfferedCommitments
  <2> QED
    BY <2>1, <2>3, <2>4, <2>5
<1> QED
  BY <1>2, <1>3

(* Every step, by the lemma of its action. *)
LEMMA SpendStepInvariant ==
  ASSUME SpendInvariant, HonestInvariant, [SpendNext]_<<vars, statementVars>>
  PROVE  [Next]_vars /\ SpendInvariant'
<1>1. CASE Balances
  BY <1>1, BalancesStep, OffersAreTyped
<1>2. ASSUME NEW o \in OfferedOpenings("key", "nonce"), HashCredential(o)
      PROVE  [Next]_vars /\ SpendInvariant'
  <2>1. o \in Openings /\ UNCHANGED vars
    BY <1>2, OffersAreTyped DEF HashCredential
  <2> QED
    BY <1>2, <2>1, HashCredentialStep
<1>3. ASSUME NEW s \in OfferedSalts, HashToken(s)
      PROVE  [Next]_vars /\ SpendInvariant'
  <2>1. s \in Secrets /\ UNCHANGED vars
    BY <1>3, OffersAreTyped DEF HashToken
  <2> QED
    BY <1>3, <2>1, HashTokenStep
<1>4. ASSUME NEW sig \in OfferedSignatures, CheckSignature(sig)
      PROVE  [Next]_vars /\ SpendInvariant'
  <2>1. sig \in [1 .. KN -> GF] /\ UNCHANGED vars
    BY <1>4, OffersAreTyped DEF CheckSignature
  <2> QED
    BY <1>4, <2>1, CheckSignatureStep
<1>5. ASSUME NEW n \in OfferedNullifiers, CheckNullifier(n)
      PROVE  [Next]_vars /\ SpendInvariant'
  <2>1. n \in [1 .. NullifierBits -> Bit] /\ UNCHANGED vars
    BY <1>5, OffersAreTyped DEF CheckNullifier
  <2> QED
    BY <1>5, <2>1, CheckNullifierStep
<1>6. ASSUME NEW o \in OfferedOpenings("freshKey", "freshNonce"),
             NEW c \in OfferedCommitments(o), CheckFresh(o, c)
      PROVE  [Next]_vars /\ SpendInvariant'
  <2>1. o \in Openings /\ c \in [1 .. M -> GF] /\ UNCHANGED vars
    BY <1>6, OffersAreTyped DEF CheckFresh
  <2> QED
    BY <1>6, <2>1, CheckFreshStep
<1>7. ASSUME NEW o \in Openings, NEW b \in Amounts, NEW t \in OfferedTargets(o, b), Issue(o, b, t)
      PROVE  [Next]_vars /\ SpendInvariant'
  <2>1. UNCHANGED vars
    BY <1>7 DEF Issue
  <2> QED
    BY <1>7, <2>1, IssueStep
<1>8. CASE UNCHANGED <<vars, statementVars>>
  <2>1. IInv' /\ Ranges' /\ value' = value /\ outcome' = outcome
    BY <1>8, BalancesStay
  <2>2. /\ opening' = opening /\ oldOutput' = oldOutput /\ salt' = salt
        /\ signedTarget' = signedTarget /\ signature' = signature
        /\ public' = public /\ fresh' = fresh /\ stage' = stage
    BY <1>8 DEF statementVars
  <2>3. StageInvariant'
    BY <2>1, <2>2 DEF SpendInvariant, StageInvariant, CredentialHashed, TokenHashed,
       SignatureChecked, NullifierChecked, FreshChecked, IssueChecked
  <2> QED
    BY <1>8, <2>1, <2>3 DEF SpendInvariant
<1> QED
  BY <1>1, <1>2, <1>3, <1>4, <1>5, <1>6, <1>7, <1>8 DEF SpendNext

(* The invariant of both parts, as a property of the specification. *)
LEMMA AlwaysInvariant == SpendSpec => [](SpendInvariant /\ HonestInvariant)
<1>1. SpendInit => SpendInvariant /\ HonestInvariant
  BY InitSpendInvariant, InitHonest
<1>2. SpendInvariant /\ HonestInvariant /\ [SpendNext]_<<vars, statementVars>>
        => (SpendInvariant /\ HonestInvariant)'
  BY SpendStepInvariant, HonestStep
<1> QED
  BY <1>1, <1>2, PTL DEF SpendSpec

(* For every key, every number of equations and every width of a balance: an
   accepted spend proof is about one credential whose wrapped commitment has a
   signature, whose nullifier is the public one and whose credits are the spend
   and the fresh commitment's, whatever is on the wires, and an issue proof is
   accepted exactly for the target of the public balance (circuit.rs
   SpendCircuit and IssueCircuit build). *)
THEOREM SpendStatements == SpendSpec => []StatementsHold
<1>1. SpendInvariant => StatementsHold
  BY InvariantStates
<1> QED
  BY <1>1, AlwaysInvariant, PTL

(* The stages leave the balances to BalanceCircuit: a run of the whole circuit
   is a run of the two additions, so theirs is what SpendsBalance says
   (circuit.rs assert_u64_sum). *)
THEOREM SpendRunsBalances == SpendSpec => Spec
<1>1. SpendInit => Init
  BY DEF SpendInit
<1>2. SpendInvariant /\ HonestInvariant /\ [SpendNext]_<<vars, statementVars>> => [Next]_vars
  BY SpendStepInvariant
<1> QED
  BY <1>1, <1>2, AlwaysInvariant, PTL DEF Spec, SpendSpec

(* For every key, every odd or even number of equations and every width of a
   balance: what the wallet puts into its witness is cut out where the circuit
   expects it, satisfies the equations up to the largest balance, and hashes
   like the native messages, so that the nullifier and the commitment that the
   wallet computed natively and the signature that the issuer made for its
   native target pass every check (circuit.rs SpendCircuit::witness and
   spend.rs prepare_spend against SpendCircuit::build). *)
THEOREM HonestSpends == SpendSpec => []HonestSpendVerifies
<1>1. SpendInvariant /\ HonestInvariant => HonestSpendVerifies
  <2> SUFFICES ASSUME SpendInvariant, HonestInvariant, Honest
               PROVE  outcome # "rejected" /\ stage # "rejected"
    BY DEF HonestSpendVerifies
  <2>1. PICK x : HonestRun(x)
    BY DEF HonestInvariant
  <2> QED
    BY <2>1 DEF HonestRun, HonestBalances, HonestStages
<1> QED
  BY <1>1, AlwaysInvariant, PTL
=============================================================================
