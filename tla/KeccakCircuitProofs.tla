------------------------- MODULE KeccakCircuitProofs -------------------------
(***************************************************************************)
(* That the bit-level circuit computes SHAKE256 as keccak.rs does, for     *)
(* every message and every state: each round over wires is the round over  *)
(* lanes, so an honest witness satisfies the checkpoints, a flipped one    *)
(* does not, and the outputs are the native ones.                          *)
(***************************************************************************)
EXTENDS KeccakCircuit, SumTheorems

LaneStates == [Lane -> SUBSET Z]

(* The positions 64(x + 5y) + z that are set in a native state. *)
SetBits(a) == {i \in StateBits : StateBit(a, i)}

-----------------------------------------------------------------------------
(***************************************************************************)
(* Parity.                                                                 *)
(***************************************************************************)

(* Intervals are finite. *)
LEMMA IntervalsFinite == \A m, n \in Int : IsFiniteSet(m .. n)
  BY FS_Interval

(* An element more changes the parity of a finite set. *)
LEMMA ParityAdd ==
  ASSUME NEW S, IsFiniteSet(S), NEW x, x \notin S
  PROVE  Parity(S \cup {x}) <=> ~ Parity(S)
<1>1. Cardinality(S) \in Nat /\ Cardinality(S \cup {x}) = Cardinality(S) + 1
  BY FS_CardinalityType, FS_AddElement
<1>2. \A n \in Nat : (n + 1) % 2 = 1 <=> ~ (n % 2 = 1)
  OBVIOUS
<1> QED
  BY ONLY <1>1, <1>2 DEF Parity

(* The parity of a set without one element tells that of the set. *)
LEMMA ParityOut ==
  ASSUME NEW S, IsFiniteSet(S), NEW x
  PROVE  Parity(S) <=> ~ (x \in S <=> Parity(S \ {x}))
<1>1. CASE x \in S
  <2>1. IsFiniteSet(S \ {x}) /\ x \notin S \ {x} /\ (S \ {x}) \cup {x} = S
    BY <1>1, FS_Difference, FS_Singleton
  <2>2. Parity((S \ {x}) \cup {x}) <=> ~ Parity(S \ {x})
    BY ONLY <2>1, ParityAdd
  <2> QED
    BY <1>1, <2>1, <2>2
<1>2. CASE x \notin S
  <2>1. S \ {x} = S
    BY <1>2
  <2> QED
    BY <1>2, <2>1
<1> QED
  BY <1>1, <1>2

(* The empty set has even parity. *)
LEMMA ParityEmpty == ~ Parity({})
  BY FS_EmptySet DEF Parity

(* The parity of a set of up to three positions. *)
LEMMA ParityOfThree ==
  ASSUME NEW S, S \subseteq 1 .. 3
  PROVE  Parity(S) <=> ~ (1 \in S <=> ~ (2 \in S <=> 3 \in S))
<1>1. IsFiniteSet(1 .. 3)
  <2>1. 1 \in Int /\ 3 \in Int
    OBVIOUS
  <2> QED
    BY ONLY <2>1, IntervalsFinite
<1>2. IsFiniteSet(S) /\ IsFiniteSet(S \ {1}) /\ IsFiniteSet((S \ {1}) \ {2})
  BY <1>1, FS_Subset
<1>3. Parity(S) <=> ~ (1 \in S <=> Parity(S \ {1}))
  BY ONLY <1>2, ParityOut
<1>4. Parity(S \ {1}) <=> ~ (2 \in S \ {1} <=> Parity((S \ {1}) \ {2}))
  BY ONLY <1>2, ParityOut
<1>5. Parity((S \ {1}) \ {2})
        <=> ~ (3 \in (S \ {1}) \ {2} <=> Parity(((S \ {1}) \ {2}) \ {3}))
  BY ONLY <1>2, ParityOut
<1>6. ((S \ {1}) \ {2}) \ {3} = {}
  OBVIOUS
<1>7. (2 \in S \ {1} <=> 2 \in S) /\ (3 \in (S \ {1}) \ {2} <=> 3 \in S)
  OBVIOUS
<1> QED
  BY ONLY <1>3, <1>4, <1>5, <1>6, <1>7, ParityEmpty

(* The parity of a column of five bits. *)
LEMMA ParityOfFive ==
  ASSUME NEW S, S \subseteq 0 .. 4
  PROVE  Parity(S) <=>
           ~ (0 \in S <=> ~ (1 \in S <=> ~ (2 \in S <=> ~ (3 \in S <=> 4 \in S))))
<1> DEFINE S1 == S \ {0}
           S2 == S1 \ {1}
           S3 == S2 \ {2}
           S4 == S3 \ {3}
<1>1. IsFiniteSet(0 .. 4)
  <2>1. 0 \in Int /\ 4 \in Int
    OBVIOUS
  <2> QED
    BY ONLY <2>1, IntervalsFinite
<1>2. /\ IsFiniteSet(S) /\ IsFiniteSet(S1) /\ IsFiniteSet(S2) /\ IsFiniteSet(S3)
      /\ IsFiniteSet(S4)
  <2>1. S1 \subseteq 0 .. 4 /\ S2 \subseteq 0 .. 4 /\ S3 \subseteq 0 .. 4 /\ S4 \subseteq 0 .. 4
    OBVIOUS
  <2> HIDE DEF S1, S2, S3, S4
  <2> QED
    BY <1>1, <2>1, FS_Subset
<1>3. /\ Parity(S) <=> ~ (0 \in S <=> Parity(S1))
      /\ Parity(S1) <=> ~ (1 \in S1 <=> Parity(S2))
      /\ Parity(S2) <=> ~ (2 \in S2 <=> Parity(S3))
      /\ Parity(S3) <=> ~ (3 \in S3 <=> Parity(S4))
      /\ Parity(S4) <=> ~ (4 \in S4 <=> Parity(S4 \ {4}))
  BY ONLY <1>2, ParityOut
<1>4. S4 \ {4} = {}
  OBVIOUS
<1>5. /\ (1 \in S1 <=> 1 \in S) /\ (2 \in S2 <=> 2 \in S)
      /\ (3 \in S3 <=> 3 \in S) /\ (4 \in S4 <=> 4 \in S)
  OBVIOUS
<1> QED
  BY ONLY <1>3, <1>4, <1>5, ParityEmpty

-----------------------------------------------------------------------------
(***************************************************************************)
(* Positions and lanes.                                                    *)
(***************************************************************************)

(* A position is a lane and a place in it. *)
LEMMA Positions ==
  /\ \A l \in Lane, z \in Z :
       64 * l + z \in StateBits /\ (64 * l + z) \div 64 = l /\ (64 * l + z) % 64 = z
  /\ \A i \in StateBits :
       /\ i \div 64 \in Lane /\ i % 64 \in Z /\ i = 64 * (i \div 64) + (i % 64)
       /\ i \div 320 = (i \div 64) \div 5 /\ (i < 64 <=> i \div 64 = 0)
<1>1. ASSUME NEW l \in Lane, NEW z \in Z
      PROVE  64 * l + z \in StateBits /\ (64 * l + z) \div 64 = l /\ (64 * l + z) % 64 = z
  BY DEF Lane, Z, StateBits
<1>2. ASSUME NEW i \in StateBits
      PROVE  /\ i \div 64 \in Lane /\ i % 64 \in Z /\ i = 64 * (i \div 64) + (i % 64)
             /\ i \div 320 = (i \div 64) \div 5 /\ (i < 64 <=> i \div 64 = 0)
  BY DEF Lane, Z, StateBits
<1> QED
  BY <1>1, <1>2

(* A lane is a row and a column of the 5 x 5 matrix. *)
LEMMA Rows ==
  /\ \A x, y \in 0 .. 4 :
       x + 5 * y \in Lane /\ (x + 5 * y) % 5 = x /\ (x + 5 * y) \div 5 = y
  /\ \A l \in Lane :
       l % 5 \in 0 .. 4 /\ l \div 5 \in 0 .. 4 /\ l = (l % 5) + 5 * (l \div 5)
  BY DEF Lane

(* Pi is a permutation of the lanes, with this inverse. *)
PiSource(m) == (((m % 5) + 3 * (m \div 5)) % 5) + 5 * (m % 5)

LEMMA PiInverse ==
  \A m \in Lane :
    /\ PiSource(m) \in Lane
    /\ \A s \in Lane : PiLane(s) = m <=> s = PiSource(m)
    /\ \A s \in Lane :
         (s \div 5 = m % 5 /\ (2 * (s % 5) + 3 * (s \div 5)) % 5 = m \div 5) <=> s = PiSource(m)
<1>1. \A x, y \in 0 .. 4 :
        /\ ((x + 3 * y) % 5) \in 0 .. 4
        /\ \A u \in 0 .. 4 : ((2 * u + 3 * x) % 5 = y <=> u = (x + 3 * y) % 5)
  <2>1. \A x, y \in 0 .. 4 : ((x + 3 * y) % 5) \in 0 .. 4
    OBVIOUS
  <2>2. ASSUME NEW x \in 0 .. 4, NEW y \in 0 .. 4, NEW u \in 0 .. 4
        PROVE  (2 * u + 3 * x) % 5 = y <=> u = (x + 3 * y) % 5
    OBVIOUS
  <2> QED
    BY <2>1, <2>2
<1> SUFFICES ASSUME NEW m \in Lane
             PROVE  /\ PiSource(m) \in Lane
                    /\ \A s \in Lane : PiLane(s) = m <=> s = PiSource(m)
                    /\ \A s \in Lane :
                         (s \div 5 = m % 5 /\ (2 * (s % 5) + 3 * (s \div 5)) % 5 = m \div 5)
                           <=> s = PiSource(m)
  OBVIOUS
<1> DEFINE x == m % 5
           y == m \div 5
           w == (x + 3 * y) % 5
<1>2. x \in 0 .. 4 /\ y \in 0 .. 4 /\ m = x + 5 * y /\ w \in 0 .. 4
  BY <1>1, Rows
<1>3. PiSource(m) = w + 5 * x
  BY DEF PiSource
<1>4. PiSource(m) \in Lane /\ PiSource(m) % 5 = w /\ PiSource(m) \div 5 = x
  BY <1>2, <1>3, Rows
<1>5. ASSUME NEW s \in Lane
      PROVE  (s \div 5 = x /\ (2 * (s % 5) + 3 * (s \div 5)) % 5 = y) <=> s = PiSource(m)
  <2>1. s % 5 \in 0 .. 4 /\ s \div 5 \in 0 .. 4 /\ s = (s % 5) + 5 * (s \div 5)
    BY Rows
  <2>2. (2 * (s % 5) + 3 * x) % 5 = y <=> s % 5 = w
    BY ONLY <1>1, <1>2, <2>1
  <2> QED
    BY <1>3, <1>4, <2>1, <2>2
<1>6. ASSUME NEW s \in Lane
      PROVE  PiLane(s) = m <=> (s \div 5 = x /\ (2 * (s % 5) + 3 * (s \div 5)) % 5 = y)
  <2> DEFINE v == (2 * (s % 5) + 3 * (s \div 5)) % 5
  <2>1. s % 5 \in 0 .. 4 /\ s \div 5 \in 0 .. 4
    BY Rows
  <2>2. v \in 0 .. 4
    BY <2>1
  <2>3. PiLane(s) = (s \div 5) + 5 * v
    BY DEF PiLane
  <2>4. PiLane(s) % 5 = s \div 5 /\ PiLane(s) \div 5 = v
    BY <2>1, <2>2, <2>3, Rows
  <2> QED
    BY ONLY <1>2, <2>3, <2>4
<1> QED
  BY <1>4, <1>5, <1>6

(* The offsets of rho are places in a lane. *)
LEMMA Offsets == \A l \in Lane : RHO[l + 1] \in Z
<1> SUFFICES ASSUME NEW l \in Lane PROVE RHO[l + 1] \in Z
  OBVIOUS
<1>1. l + 1 \in 1 .. 25
  BY DEF Lane
<1> QED
  BY <1>1 DEF RHO, Z

(* A place in a rotated lane was set before the rotation. *)
LEMMA Rotated ==
  ASSUME NEW w, w \subseteq Z, NEW n \in Z, NEW z \in Z
  PROVE  z \in RotateLeft(w, n) <=> (z + 64 - n) % 64 \in w
<1>1. (z + 64 - n) % 64 \in Z /\ (((z + 64 - n) % 64) + n) % 64 = z
  BY DEF Z
<1>2. \A u \in Z : (u + n) % 64 = z => u = (z + 64 - n) % 64
  BY DEF Z
<1> QED
  BY <1>1, <1>2 DEF RotateLeft

(* Rotations and exclusive ors stay in the lane. *)
LEMMA RotationInLane ==
  ASSUME NEW w, w \subseteq Z, NEW n \in Z
  PROVE  RotateLeft(w, n) \subseteq Z
  BY DEF RotateLeft, Z

(* A bit of an exclusive or. *)
LEMMA XorBits ==
  ASSUME NEW v, NEW w, NEW z
  PROVE  z \in Xor(v, w) <=> ~ (z \in v <=> z \in w)
  BY DEF Xor, SymDiff

(* The positions of a native state tell its bits. *)
LEMMA SetBitsOf ==
  ASSUME NEW a
  PROVE  /\ SetBits(a) \subseteq StateBits
         /\ \A l \in Lane, z \in Z : 64 * l + z \in SetBits(a) <=> z \in a[l]
<1>1. ASSUME NEW l \in Lane, NEW z \in Z
      PROVE  64 * l + z \in SetBits(a) <=> z \in a[l]
  <2>1. 64 * l + z \in StateBits /\ (64 * l + z) \div 64 = l /\ (64 * l + z) % 64 = z
    BY Positions
  <2> QED
    BY <2>1 DEF SetBits, StateBit
<1> QED
  BY <1>1 DEF SetBits

-----------------------------------------------------------------------------
(***************************************************************************)
(* The round over lanes, bit by bit (keccak.rs round).                     *)
(***************************************************************************)

ColumnParities(a) ==
  [x \in 0 .. 4 |-> Xor(a[x], Xor(a[x + 5], Xor(a[x + 10], Xor(a[x + 15], a[x + 20]))))]
Mixings(a) ==
  [x \in 0 .. 4 |-> Xor(ColumnParities(a)[(x + 4) % 5],
                        RotateLeft(ColumnParities(a)[(x + 1) % 5], 1))]
Rotations(a) ==
  [l \in Lane |-> RotateLeft(Xor(a[l], Mixings(a)[l % 5]), RHO[l + 1])]
Permuted(a) ==
  [l \in Lane |->
     Rotations(a)[CHOOSE s \in Lane : s \div 5 = l % 5
                    /\ (2 * (s % 5) + 3 * (s \div 5)) % 5 = l \div 5]]
RowMate(l, n) == ((l + n) % 5) + 5 * (l \div 5)
ChiLane(a, l) ==
  Xor(Permuted(a)[l], Permuted(a)[RowMate(l, 2)] \ Permuted(a)[RowMate(l, 1)])

(* A bit after theta, and where rho and pi take it from. *)
ThetaBit(a, l, z) == ~ (z \in a[l] <=> z \in Mixings(a)[l % 5])
RhoSource(m, z) == (z + 64 - RHO[PiSource(m) + 1]) % 64

(* The steps of a round. *)
LEMMA RoundUnfolded ==
  ASSUME NEW a, NEW rc
  PROVE  Round(a, rc) = [l \in Lane |-> IF l = 0 THEN Xor(ChiLane(a, 0), rc) ELSE ChiLane(a, l)]
  BY DEF Round, ColumnParities, Mixings, Rotations, Permuted, RowMate, ChiLane

(* The parity of a column of bits. *)
LEMMA ColumnParityBit ==
  ASSUME NEW a \in LaneStates, NEW x \in 0 .. 4
  PROVE  /\ ColumnParities(a)[x] \subseteq Z
         /\ \A z \in Z :
              z \in ColumnParities(a)[x] <=>
                ~ (z \in a[x] <=> ~ (z \in a[x + 5] <=> ~ (z \in a[x + 10]
                     <=> ~ (z \in a[x + 15] <=> z \in a[x + 20]))))
<1>1. ColumnParities(a)[x] = Xor(a[x], Xor(a[x + 5], Xor(a[x + 10], Xor(a[x + 15], a[x + 20]))))
  BY DEF ColumnParities
<1>2. \A y \in {x, x + 5, x + 10, x + 15, x + 20} : a[y] \subseteq Z
  BY DEF LaneStates, Lane
<1>3. ColumnParities(a)[x] \subseteq Z
  BY <1>1, <1>2 DEF Xor, SymDiff
<1> QED
  BY <1>1, <1>3, XorBits

(* What theta adds to a lane. *)
LEMMA MixingBit ==
  ASSUME NEW a \in LaneStates, NEW x \in 0 .. 4
  PROVE  /\ Mixings(a)[x] \subseteq Z
         /\ \A z \in Z :
              z \in Mixings(a)[x] <=>
                ~ (z \in ColumnParities(a)[(x + 4) % 5]
                     <=> (z + 63) % 64 \in ColumnParities(a)[(x + 1) % 5])
<1> DEFINE p == ColumnParities(a)[(x + 4) % 5]
           q == ColumnParities(a)[(x + 1) % 5]
<1>1. (x + 4) % 5 \in 0 .. 4 /\ (x + 1) % 5 \in 0 .. 4
  OBVIOUS
<1>2. p \subseteq Z /\ q \subseteq Z
  BY <1>1, ColumnParityBit
<1>3. Mixings(a)[x] = Xor(p, RotateLeft(q, 1))
  BY DEF Mixings
<1>4. 1 \in Z
  BY DEF Z
<1> HIDE DEF p, q
<1>5. RotateLeft(q, 1) \subseteq Z
  BY ONLY <1>2, <1>4, RotationInLane
<1>6. Mixings(a)[x] \subseteq Z
  BY <1>2, <1>3, <1>5 DEF Xor, SymDiff
<1>7. ASSUME NEW z \in Z
      PROVE  z \in RotateLeft(q, 1) <=> (z + 63) % 64 \in q
  <2>1. z \in RotateLeft(q, 1) <=> (z + 64 - 1) % 64 \in q
    BY <1>2, <1>4, Rotated
  <2>2. z + 64 - 1 = z + 63
    BY DEF Z
  <2> QED
    BY <2>1, <2>2
<1>8. ASSUME NEW z \in Z
      PROVE  z \in Mixings(a)[x] <=> ~ (z \in p <=> (z + 63) % 64 \in q)
  BY <1>3, <1>7, XorBits
<1> QED
  BY <1>6, <1>8 DEF p, q

(* The bits after rho and pi. *)
LEMMA PermutedBit ==
  ASSUME NEW a \in LaneStates, NEW m \in Lane
  PROVE  /\ Permuted(a)[m] \subseteq Z
         /\ \A z \in Z :
              z \in Permuted(a)[m] <=> ThetaBit(a, PiSource(m), RhoSource(m, z))
<1> DEFINE s == PiSource(m)
           lane == Xor(a[s], Mixings(a)[s % 5])
<1>1. s \in Lane /\ s % 5 \in 0 .. 4
  BY PiInverse, Rows
<1>2. s = CHOOSE t \in Lane : t \div 5 = m % 5 /\ (2 * (t % 5) + 3 * (t \div 5)) % 5 = m \div 5
  BY PiInverse
<1>3. Permuted(a)[m] = Rotations(a)[s]
  BY <1>2 DEF Permuted
<1>4. Rotations(a)[s] = RotateLeft(lane, RHO[s + 1])
  BY <1>1 DEF Rotations
<1>5. lane \subseteq Z
  <2>1. a[s] \subseteq Z
    BY <1>1 DEF LaneStates
  <2>2. Mixings(a)[s % 5] \subseteq Z
    BY <1>1, MixingBit
  <2> QED
    BY <2>1, <2>2 DEF Xor, SymDiff
<1>6. RHO[s + 1] \in Z
  BY <1>1, Offsets
<1>7. Permuted(a)[m] \subseteq Z
  BY <1>3, <1>4, <1>5, <1>6, RotationInLane
<1>8. ASSUME NEW z \in Z
      PROVE  z \in Permuted(a)[m] <=> ThetaBit(a, s, RhoSource(m, z))
  <2>1. z \in Permuted(a)[m] <=> RhoSource(m, z) \in lane
    BY <1>3, <1>4, <1>5, <1>6, Rotated DEF RhoSource
  <2> QED
    BY <2>1, XorBits DEF ThetaBit
<1> QED
  BY <1>7, <1>8

(* The bit after chi and iota, and that a round gives a state again. *)
LEMMA NativeRoundBit ==
  ASSUME NEW a \in LaneStates, NEW rc, rc \subseteq Z
  PROVE  /\ Round(a, rc) \in LaneStates
         /\ \A l \in Lane, z \in Z :
              z \in Round(a, rc)[l] <=>
                ~ (~ (z \in Permuted(a)[l] <=> (/\ z \in Permuted(a)[RowMate(l, 2)]
                                                /\ z \notin Permuted(a)[RowMate(l, 1)]))
                     <=> (l = 0 /\ z \in rc))
<1>1. ASSUME NEW l \in Lane
      PROVE  ChiLane(a, l) \subseteq Z
  <2>1. RowMate(l, 2) \in Lane
    BY DEF RowMate, Lane
  <2>2. Permuted(a)[l] \subseteq Z /\ Permuted(a)[RowMate(l, 2)] \subseteq Z
    BY <2>1, PermutedBit
  <2> QED
    BY <2>2 DEF ChiLane, Xor, SymDiff
<1>2. ASSUME NEW l \in Lane
      PROVE  Round(a, rc)[l] \subseteq Z
  BY <1>1, RoundUnfolded DEF Xor, SymDiff
<1>3. Round(a, rc) \in LaneStates
  BY <1>2, RoundUnfolded DEF LaneStates
<1>4. ASSUME NEW l \in Lane, NEW z \in Z
      PROVE  z \in ChiLane(a, l) <=>
               ~ (z \in Permuted(a)[l] <=> (/\ z \in Permuted(a)[RowMate(l, 2)]
                                            /\ z \notin Permuted(a)[RowMate(l, 1)]))
  BY DEF ChiLane, Xor, SymDiff
<1>5. ASSUME NEW l \in Lane, NEW z \in Z
      PROVE  z \in Round(a, rc)[l] <=> ~ (z \in ChiLane(a, l) <=> (l = 0 /\ z \in rc))
  <2>1. CASE l = 0
    BY <2>1, RoundUnfolded, XorBits
  <2>2. CASE l # 0
    BY <2>2, RoundUnfolded
  <2> QED
    BY <2>1, <2>2
<1> QED
  BY <1>3, <1>4, <1>5

-----------------------------------------------------------------------------
(***************************************************************************)
(* The round over wires, bit by bit (circuit.rs keccak_round_expr).        *)
(***************************************************************************)

Columns(s) == {i \in 0 .. 319 : Parity({y \in 0 .. 4 : i + 320 * y \in s})}

(* A column of wires has the parity of the column of lanes. *)
LEMMA ColumnWire ==
  ASSUME NEW a \in LaneStates, NEW x \in 0 .. 4, NEW z \in Z
  PROVE  64 * x + z \in Columns(SetBits(a)) <=> z \in ColumnParities(a)[x]
<1> DEFINE i == 64 * x + z
           S == {y \in 0 .. 4 : i + 320 * y \in SetBits(a)}
<1>1. i \in 0 .. 319
  BY DEF Z
<1>2. S \subseteq 0 .. 4
  OBVIOUS
<1>3. ASSUME NEW y \in 0 .. 4
      PROVE  y \in S <=> z \in a[x + 5 * y]
  <2>1. x + 5 * y \in Lane /\ i + 320 * y = 64 * (x + 5 * y) + z
    BY DEF Lane, Z
  <2> QED
    BY <2>1, SetBitsOf
<1>4. i \in Columns(SetBits(a)) <=> Parity(S)
  BY <1>1 DEF Columns
<1> HIDE DEF S, i
<1>5. Parity(S) <=>
        ~ (0 \in S <=> ~ (1 \in S <=> ~ (2 \in S <=> ~ (3 \in S <=> 4 \in S))))
  BY ONLY <1>2, ParityOfFive
<1>6. /\ (0 \in S <=> z \in a[x]) /\ (1 \in S <=> z \in a[x + 5])
      /\ (2 \in S <=> z \in a[x + 10]) /\ (3 \in S <=> z \in a[x + 15])
      /\ (4 \in S <=> z \in a[x + 20])
  <2>1. /\ (0 \in S <=> z \in a[x + 5 * 0]) /\ (1 \in S <=> z \in a[x + 5 * 1])
        /\ (2 \in S <=> z \in a[x + 5 * 2]) /\ (3 \in S <=> z \in a[x + 5 * 3])
        /\ (4 \in S <=> z \in a[x + 5 * 4])
    BY <1>3
  <2>2. /\ x + 5 * 0 = x /\ x + 5 * 1 = x + 5 /\ x + 5 * 2 = x + 10
        /\ x + 5 * 3 = x + 15 /\ x + 5 * 4 = x + 20
    OBVIOUS
  <2> QED
    BY <2>1, <2>2
<1> QED
  BY <1>4, <1>5, <1>6, ColumnParityBit DEF i

(* Theta over wires is theta over lanes. *)
LEMMA ThetaWire ==
  ASSUME NEW a \in LaneStates, NEW l \in Lane, NEW z \in Z
  PROVE  64 * l + z \in Theta(SetBits(a)) <=> ThetaBit(a, l, z)
<1> DEFINE s == SetBits(a)
           i == 64 * l + z
           x == l % 5
           left == 64 * ((x + 4) % 5) + z
           right == 64 * ((x + 1) % 5) + ((z + 63) % 64)
           T == {t \in 1 .. 3 : \/ t = 1 /\ i \in s
                                \/ t = 2 /\ left \in Columns(s)
                                \/ t = 3 /\ right \in Columns(s)}
<1>1. i \in StateBits /\ i \div 64 = l /\ i % 64 = z
  BY Positions
<1>2. i \in Theta(s) <=> Parity(T)
  BY <1>1 DEF Theta, Columns
<1>3. Parity(T) <=> ~ (1 \in T <=> ~ (2 \in T <=> 3 \in T))
  BY ParityOfThree
<1>4. x \in 0 .. 4 /\ (x + 4) % 5 \in 0 .. 4 /\ (x + 1) % 5 \in 0 .. 4 /\ (z + 63) % 64 \in Z
  BY DEF Lane, Z
<1>5. 1 \in T <=> z \in a[l]
  BY SetBitsOf
<1>6. 2 \in T <=> z \in ColumnParities(a)[(x + 4) % 5]
  BY <1>4, ColumnWire
<1>7. 3 \in T <=> (z + 63) % 64 \in ColumnParities(a)[(x + 1) % 5]
  BY <1>4, ColumnWire
<1>8. z \in Mixings(a)[x] <=>
        ~ (z \in ColumnParities(a)[(x + 4) % 5]
             <=> (z + 63) % 64 \in ColumnParities(a)[(x + 1) % 5])
  BY <1>4, MixingBit
<1>9. ThetaBit(a, l, z) <=> ~ (z \in a[l] <=> z \in Mixings(a)[x])
  BY DEF ThetaBit
<1> HIDE DEF T, s, i, left, right, x
<1>10. i \in Theta(s) <=> ThetaBit(a, l, z)
  BY ONLY <1>2, <1>3, <1>5, <1>6, <1>7, <1>8, <1>9
<1> QED
  BY <1>10 DEF s, i

(* The wire that rho and pi move to a position. *)
LEMMA PiRhoWire ==
  ASSUME NEW m \in Lane, NEW z \in Z
  PROVE  /\ PiSource(m) \in Lane /\ RhoSource(m, z) \in Z
         /\ PiRhoIndex[64 * m + z] = 64 * PiSource(m) + RhoSource(m, z)
<1> DEFINE i == 64 * m + z
<1>1. i \in StateBits /\ i \div 64 = m /\ i % 64 = z
  BY Positions
<1>2. PiSource(m) \in Lane /\ PiSource(m) = CHOOSE s \in Lane : PiLane(s) = m
  BY PiInverse
<1>3. PiRhoIndex[i] =
        64 * PiSource(m) + (((i % 64) + 64 - RHO[PiSource(m) + 1]) % 64)
  BY <1>1, <1>2 DEF PiRhoIndex
<1>4. RhoSource(m, z) \in Z
  <2>1. RHO[PiSource(m) + 1] \in Z
    BY <1>2, Offsets
  <2> QED
    BY <2>1 DEF RhoSource, Z
<1> QED
  BY <1>1, <1>2, <1>3, <1>4 DEF RhoSource

(* The wires after theta, rho and pi carry the permuted lanes. *)
LEMMA PermutedWire ==
  ASSUME NEW a \in LaneStates, NEW m \in Lane, NEW z \in Z
  PROVE  PiRhoIndex[64 * m + z] \in Theta(SetBits(a)) <=> z \in Permuted(a)[m]
<1>1. /\ PiSource(m) \in Lane /\ RhoSource(m, z) \in Z
      /\ PiRhoIndex[64 * m + z] = 64 * PiSource(m) + RhoSource(m, z)
  BY PiRhoWire
<1>2. 64 * PiSource(m) + RhoSource(m, z) \in Theta(SetBits(a))
        <=> ThetaBit(a, PiSource(m), RhoSource(m, z))
  BY <1>1, ThetaWire
<1> QED
  BY <1>1, <1>2, PermutedBit

(* The round over wires is the round over lanes: theta's neighbours, rho's
   offsets, pi's lanes, chi's row and iota's lane agree (circuit.rs
   keccak_round_expr and keccak.rs round). *)
THEOREM RoundsAgree ==
  ASSUME NEW a \in LaneStates, NEW rc, rc \subseteq Z
  PROVE  Round(a, rc) \in LaneStates /\ RoundExpr(SetBits(a), rc) = SetBits(Round(a, rc))
<1>1. ASSUME NEW i \in StateBits
      PROVE  i \in RoundExpr(SetBits(a), rc) <=> i \in SetBits(Round(a, rc))
  <2> DEFINE theta == Theta(SetBits(a))
             l == i \div 64
             z == i % 64
             x == l % 5
             y == i \div 320
             At(u) == PiRhoIndex[64 * ((u % 5) + 5 * y) + z] \in theta
  <2>1. l \in Lane /\ z \in Z /\ y = l \div 5 /\ (i < 64 <=> l = 0)
    BY Positions
  <2>2. i \in RoundExpr(SetBits(a), rc) <=>
          ~ (~ (At(x) <=> (~ At(x + 1) /\ At(x + 2))) <=> (i < 64 /\ z \in rc))
    BY DEF RoundExpr
  <2>3. /\ (x % 5) + 5 * y = l /\ ((x + 1) % 5) + 5 * y = RowMate(l, 1)
        /\ ((x + 2) % 5) + 5 * y = RowMate(l, 2)
        /\ RowMate(l, 1) \in Lane /\ RowMate(l, 2) \in Lane
    BY <2>1 DEF RowMate, Lane
  <2>4. /\ At(x) <=> z \in Permuted(a)[l]
        /\ At(x + 1) <=> z \in Permuted(a)[RowMate(l, 1)]
        /\ At(x + 2) <=> z \in Permuted(a)[RowMate(l, 2)]
    BY <2>1, <2>3, PermutedWire
  <2>5. z \in Round(a, rc)[l] <=>
          ~ (~ (z \in Permuted(a)[l] <=> (/\ z \in Permuted(a)[RowMate(l, 2)]
                                          /\ z \notin Permuted(a)[RowMate(l, 1)]))
               <=> (l = 0 /\ z \in rc))
    BY <2>1, NativeRoundBit
  <2>6. i \in SetBits(Round(a, rc)) <=> z \in Round(a, rc)[l]
    BY DEF SetBits, StateBit
  <2> HIDE DEF At, theta, l, z, x, y
  <2> QED
    BY ONLY <2>1, <2>2, <2>4, <2>5, <2>6
<1>2. RoundExpr(SetBits(a), rc) \subseteq StateBits /\ SetBits(Round(a, rc)) \subseteq StateBits
  BY DEF RoundExpr, SetBits
<1> QED
  BY <1>1, <1>2, NativeRoundBit

-----------------------------------------------------------------------------
(***************************************************************************)
(* The native states of a message.                                         *)
(***************************************************************************)

(* The state after so many rounds on a message. *)
NativeAfter(m) ==
  LET after[n \in 0 .. ROUNDS] ==
        IF n = 0 THEN Absorbed(m) ELSE Round(after[n - 1], RC[n])
  IN  after

(* The recursion defines the states one after the other. *)
LEMMA NativeUnfolded ==
  ASSUME NEW m
  PROVE  /\ NativeAfter(m)[0] = Absorbed(m)
         /\ \A n \in 1 .. ROUNDS : NativeAfter(m)[n] = Round(NativeAfter(m)[n - 1], RC[n])
<1> DEFINE Steps(g, n) ==
             g[0] = Absorbed(m) /\ \A k \in 1 .. n : g[k] = Round(g[k - 1], RC[k])
           T == {n \in Nat : n <= ROUNDS => \E g : Steps(g, n)}
<1>1. 0 \in T
  <2>1. Steps([k \in 0 .. ROUNDS |-> Absorbed(m)], 0)
    BY DEF ROUNDS
  <2> QED
    BY <2>1
<1>2. ASSUME NEW n \in Nat, n \in T
      PROVE  n + 1 \in T
  <2>1. CASE n + 1 <= ROUNDS
    <3>1. n <= ROUNDS
      BY <2>1 DEF ROUNDS
    <3>2. PICK g : Steps(g, n)
      BY <1>2, <3>1
    <3> DEFINE h == [k \in 0 .. ROUNDS |-> IF k <= n THEN g[k] ELSE Round(g[n], RC[n + 1])]
    <3>3. h[0] = Absorbed(m)
      BY <3>2 DEF ROUNDS
    <3>4. ASSUME NEW k \in 1 .. n + 1
          PROVE  h[k] = Round(h[k - 1], RC[k])
      <4>1. k \in 0 .. ROUNDS /\ k - 1 \in 0 .. ROUNDS /\ k - 1 <= n
        BY <2>1 DEF ROUNDS
      <4>2. CASE k <= n
        BY <3>2, <4>1, <4>2
      <4>3. CASE k = n + 1
        BY <4>1, <4>3
      <4> QED
        BY <4>2, <4>3
    <3> HIDE DEF h
    <3>5. Steps(h, n + 1)
      BY <3>3, <3>4
    <3>6. \E f : Steps(f, n + 1)
      BY <3>5
    <3> HIDE DEF Steps
    <3> QED
      BY <3>6
  <2> QED
    BY <2>1
<1> HIDE DEF T
<1>3. ROUNDS \in T
  BY <1>1, <1>2, NumbersInductive DEF ROUNDS
<1>4. PICK g : Steps(g, ROUNDS)
  BY <1>3 DEF T, ROUNDS
<1> DEFINE Unfolds(f) ==
             f = [n \in 0 .. ROUNDS |->
                    IF n = 0 THEN Absorbed(m) ELSE Round(f[n - 1], RC[n])]
           G == [n \in 0 .. ROUNDS |-> g[n]]
<1>5. Unfolds(G)
  <2>1. ASSUME NEW n \in 0 .. ROUNDS
        PROVE  G[n] = IF n = 0 THEN Absorbed(m) ELSE Round(G[n - 1], RC[n])
    BY <1>4 DEF ROUNDS
  <2> QED
    BY <2>1
<1>6. NativeAfter(m) = CHOOSE f : Unfolds(f)
  BY DEF NativeAfter
<1>7. Unfolds(NativeAfter(m))
  BY ONLY <1>5, <1>6
<1> QED
  BY <1>7 DEF ROUNDS

(* Round constants are sets of places in a lane. *)
LEMMA Constants == \A n \in 1 .. ROUNDS : RC[n] \subseteq Z
  BY DEF ROUNDS, RC, Z

(* Absorption gives a state, the one that the circuit starts from. *)
LEMMA AbsorbedWires ==
  ASSUME NEW m \in Messages
  PROVE  Absorbed(m) \in LaneStates /\ SetBits(Absorbed(m)) = InitialSpongeState(m)
<1> DEFINE block == m.bits \cup Padded(m)
<1>1. Absorbed(m) = [l \in Lane |-> {z \in Z : 64 * l + z \in block}]
  BY DEF Absorbed
<1>2. block = InitialSpongeState(m)
  BY DEF Padded, InitialSpongeState
<1>3. m.bytes \in 0 .. 135 /\ m.bits \subseteq 0 .. 8 * m.bytes - 1
  BY MessagesAssumption DEF RATE_BYTES
<1>4. block \subseteq StateBits
  BY <1>3 DEF Padded, StateBits, RATE_BYTES
<1> HIDE DEF block
<1>5. Absorbed(m) \in LaneStates
  BY <1>1 DEF LaneStates
<1>6. ASSUME NEW i \in StateBits
      PROVE  i \in SetBits(Absorbed(m)) <=> i \in block
  <2>1. i \div 64 \in Lane /\ i % 64 \in Z /\ i = 64 * (i \div 64) + (i % 64)
    BY Positions
  <2>2. i \in SetBits(Absorbed(m)) <=> i % 64 \in Absorbed(m)[i \div 64]
    BY DEF SetBits, StateBit
  <2> QED
    BY <1>1, <2>1, <2>2
<1> QED
  BY <1>2, <1>4, <1>5, <1>6 DEF SetBits

(* Every state of a message is one of lanes, and the round over wires leads
   from each to the next. *)
LEMMA NativeWires ==
  ASSUME NEW m \in Messages
  PROVE  /\ \A n \in 0 .. ROUNDS : NativeAfter(m)[n] \in LaneStates
         /\ \A n \in 0 .. ROUNDS - 1 :
              RoundExpr(SetBits(NativeAfter(m)[n]), RC[n + 1]) = SetBits(NativeAfter(m)[n + 1])
<1> DEFINE N == NativeAfter(m)
           T == {n \in Nat : n <= ROUNDS => N[n] \in LaneStates}
<1>1. /\ N[0] = Absorbed(m)
      /\ \A n \in 1 .. ROUNDS : N[n] = Round(N[n - 1], RC[n])
  BY NativeUnfolded
<1> HIDE DEF N
<1>2. ASSUME NEW n \in 0 .. ROUNDS - 1
      PROVE  n + 1 \in 1 .. ROUNDS /\ N[n + 1] = Round(N[n], RC[n + 1]) /\ RC[n + 1] \subseteq Z
  <2>1. n + 1 \in 1 .. ROUNDS /\ (n + 1) - 1 = n
    BY DEF ROUNDS
  <2>2. N[n + 1] = Round(N[(n + 1) - 1], RC[n + 1])
    BY ONLY <1>1, <2>1
  <2> QED
    BY <2>1, <2>2, Constants
<1>3. 0 \in T
  BY <1>1, AbsorbedWires
<1>4. ASSUME NEW n \in Nat, n \in T
      PROVE  n + 1 \in T
  <2>1. CASE n + 1 <= ROUNDS
    <3>1. n \in 0 .. ROUNDS - 1 /\ N[n] \in LaneStates
      BY <1>4, <2>1 DEF ROUNDS
    <3> QED
      BY <1>2, <3>1, NativeRoundBit
  <2> QED
    BY <2>1
<1> HIDE DEF T
<1>5. \A n \in Nat : n \in T
  BY <1>3, <1>4, NumbersInductive
<1>6. \A n \in 0 .. ROUNDS : N[n] \in LaneStates
  BY <1>5 DEF T, ROUNDS
<1>7. ASSUME NEW n \in 0 .. ROUNDS - 1
      PROVE  RoundExpr(SetBits(N[n]), RC[n + 1]) = SetBits(N[n + 1])
  <2>1. N[n] \in LaneStates
    BY <1>6 DEF ROUNDS
  <2> QED
    BY <1>2, <2>1, RoundsAgree
<1> QED
  BY <1>6, <1>7 DEF N

-----------------------------------------------------------------------------
(***************************************************************************)
(* The witness and the circuit.                                            *)
(***************************************************************************)

(* The positions of checkpoint k that the prover flips. *)
FlippedAt(k) ==
  {i \in StateBits : flip # None /\ flip = <<k, i>>}

(* What is committed to as checkpoint k. *)
Committed(k) == Xor(SetBits(NativeAfter(message)[4 * k]), FlippedAt(k))

(* Is the group of the flip behind? *)
FlipPassed == flip # None /\ \E k \in 1 .. 6 : 4 * k <= round /\ FlippedAt(k) # {}

(* The checkpoints are those of the native states; the circuit follows them
   until it has passed a flip, and has then failed. *)
KeccakInv ==
  /\ message \in Messages
  /\ flip = None \/ \E k \in 1 .. 6, i \in StateBits : flip = <<k, i>>
  /\ round \in 0 .. ROUNDS
  /\ inCircuit \in BOOLEAN /\ failed \in BOOLEAN
  /\ witness \in Seq(SUBSET StateBits)
  /\ Len(witness) = IF inCircuit THEN 6 ELSE round \div 4
  /\ native = NativeAfter(message)[IF inCircuit THEN ROUNDS ELSE round]
  /\ \A k \in 1 .. Len(witness) : witness[k] = Committed(k)
  /\ inCircuit /\ ~ FlipPassed => ~ failed /\ state = SetBits(NativeAfter(message)[round])
  /\ inCircuit /\ FlipPassed => failed
  /\ ~ inCircuit => ~ failed

(* Initially nothing is committed to. *)
LEMMA KeccakInit == Init => KeccakInv
<1> SUFFICES ASSUME Init PROVE KeccakInv
  OBVIOUS
<1>1. flip = None \/ \E k \in 1 .. 6, i \in StateBits : flip = <<k, i>>
  BY FlipsAssumption DEF Init
<1>2. message \in Messages /\ inCircuit = FALSE /\ failed = FALSE /\ round = 0 /\ witness = <<>>
  BY DEF Init
<1>3. native = NativeAfter(message)[0]
  BY NativeUnfolded DEF Init
<1>4. 0 \div 4 = 0 /\ 0 \in 0 .. ROUNDS
  BY DEF ROUNDS
<1>5. witness \in Seq(SUBSET StateBits) /\ Len(witness) = 0
  BY <1>2
<1>6. /\ inCircuit \in BOOLEAN /\ failed \in BOOLEAN /\ ~ inCircuit /\ ~ failed
      /\ round \in 0 .. ROUNDS /\ round \div 4 = 0
      /\ native = NativeAfter(message)[round]
  BY <1>2, <1>3, <1>4
<1>7. \A k \in 1 .. Len(witness) : witness[k] = Committed(k)
  BY <1>5
<1> QED
  BY ONLY <1>1, <1>2, <1>5, <1>6, <1>7 DEF KeccakInv

(* A round of the witness appends the checkpoint that is due. *)
LEMMA WitnessStep == KeccakInv /\ WitnessRound => KeccakInv'
<1> SUFFICES ASSUME KeccakInv, WitnessRound PROVE KeccakInv'
  OBVIOUS
<1>1. /\ message' = message /\ flip' = flip /\ inCircuit' = inCircuit /\ inCircuit = FALSE
      /\ failed' = failed /\ failed = FALSE /\ round' = round + 1
      /\ round \in 0 .. ROUNDS - 1
  BY DEF KeccakInv, WitnessRound, ROUNDS
<1>2. message \in Messages /\ (flip = None \/ \E k \in 1 .. 6, i \in StateBits : flip = <<k, i>>)
  BY DEF KeccakInv
<1>3. native' = NativeAfter(message)[round']
  <2>1. native = NativeAfter(message)[round] /\ native' = Round(native, RC[round + 1])
    BY <1>1 DEF KeccakInv, WitnessRound
  <2>2. round + 1 \in 1 .. ROUNDS /\ (round + 1) - 1 = round
    BY <1>1 DEF ROUNDS
  <2>3. NativeAfter(message)[round + 1]
          = Round(NativeAfter(message)[(round + 1) - 1], RC[round + 1])
    BY <2>2, NativeUnfolded
  <2> QED
    BY <1>1, <2>1, <2>2, <2>3
<1>4. /\ witness \in Seq(SUBSET StateBits) /\ Len(witness) = round \div 4
      /\ \A k \in 1 .. Len(witness) : witness[k] = Committed(k)
  BY <1>1 DEF KeccakInv
<1>5. /\ witness' \in Seq(SUBSET StateBits) /\ Len(witness') = round' \div 4
      /\ \A k \in 1 .. Len(witness') : witness'[k] = Committed(k)
  <2>1. CASE ~ IsCheckpoint(round')
    <3>1. witness' = witness
      BY <2>1 DEF WitnessRound
    <3>2. round' \div 4 = round \div 4
      BY <1>1, <2>1 DEF IsCheckpoint, ROUNDS
    <3> QED
      BY <1>4, <3>1, <3>2
  <2>2. CASE IsCheckpoint(round')
    <3> DEFINE n == Len(witness) + 1
               new == Xor(SetBits(native'),
                          {p[2] : p \in {p \in {flip} : p # None /\ p[1] = n}})
    <3>1. witness' = Append(witness, new)
      BY <2>2 DEF WitnessRound, SetBits
    <3>2. n = round' \div 4 /\ 4 * n = round' /\ n \in 1 .. 6
      BY <1>1, <1>4, <2>2 DEF IsCheckpoint, ROUNDS
    <3>3. {p[2] : p \in {p \in {flip} : p # None /\ p[1] = n}} = FlippedAt(n)
      <4>1. CASE flip = None
        BY <4>1 DEF FlippedAt
      <4>2. ASSUME NEW k \in 1 .. 6, NEW i \in StateBits, flip = <<k, i>>
            PROVE  {p[2] : p \in {p \in {flip} : p # None /\ p[1] = n}} = FlippedAt(n)
        <5>1. flip # None /\ flip[1] = k /\ flip[2] = i
          BY <4>2 DEF None
        <5>2. \A c, j : flip = <<c, j>> <=> c = k /\ j = i
          BY <4>2
        <5>3. FlippedAt(n) = IF n = k THEN {i} ELSE {}
          BY <5>1, <5>2 DEF FlippedAt
        <5> QED
          BY <5>1, <5>3
      <4> QED
        BY <1>2, <4>1, <4>2
    <3>4. new = Committed(n)
      BY <1>3, <3>2, <3>3 DEF Committed
    <3>5. new \subseteq StateBits
      BY <3>3 DEF Xor, SymDiff, SetBits, FlippedAt
    <3> HIDE DEF new
    <3>6. witness' \in Seq(SUBSET StateBits) /\ Len(witness') = n
      BY <1>4, <3>1, <3>5
    <3>7. \A k \in 1 .. Len(witness) : witness'[k] = witness[k]
      BY <1>4, <3>1
    <3>8. witness'[n] = new
      BY <1>4, <3>1
    <3>9. ASSUME NEW k \in 1 .. n
          PROVE  witness'[k] = Committed(k)
      <4>1. k = n \/ k \in 1 .. Len(witness)
        BY <1>4
      <4> QED
        BY <1>4, <3>4, <3>7, <3>8, <4>1
    <3> QED
      BY <3>2, <3>6, <3>9
  <2> QED
    BY <2>1, <2>2
<1>6. \A k : Committed(k)' = Committed(k)
  BY <1>1 DEF Committed, FlippedAt
<1>7. round' \in 0 .. ROUNDS
  BY <1>1 DEF ROUNDS
<1> QED
  BY <1>1, <1>2, <1>3, <1>5, <1>6, <1>7 DEF KeccakInv

(* The circuit starts from the absorbed message, as the native state did. *)
LEMMA StartStep == KeccakInv /\ StartCircuit => KeccakInv'
<1> SUFFICES ASSUME KeccakInv, StartCircuit PROVE KeccakInv'
  OBVIOUS
<1>1. /\ message' = message /\ flip' = flip /\ native' = native /\ witness' = witness
      /\ failed' = failed /\ failed = FALSE /\ round' = 0 /\ round = ROUNDS
      /\ inCircuit = FALSE /\ inCircuit' = TRUE
      /\ state' = InitialSpongeState(message)
  BY DEF KeccakInv, StartCircuit
<1>2. /\ message \in Messages
      /\ flip = None \/ \E k \in 1 .. 6, i \in StateBits : flip = <<k, i>>
      /\ witness \in Seq(SUBSET StateBits) /\ Len(witness) = round \div 4
      /\ native = NativeAfter(message)[round]
      /\ \A k \in 1 .. Len(witness) : witness[k] = Committed(k)
  BY <1>1 DEF KeccakInv
<1>3. round' \in 0 .. ROUNDS /\ Len(witness) = 6
  BY <1>1, <1>2 DEF ROUNDS
<1>4. state' = SetBits(NativeAfter(message)[0])
  BY <1>1, <1>2, AbsorbedWires, NativeUnfolded
<1>5. ~ FlipPassed'
  BY <1>1 DEF FlipPassed
<1>6. \A k : Committed(k)' = Committed(k)
  BY <1>1 DEF Committed, FlippedAt
<1> QED
  BY <1>1, <1>2, <1>3, <1>4, <1>5, <1>6 DEF KeccakInv

(* A round of the circuit follows the native states; at a checkpoint the
   comparison decides whether the committed wires are right. *)
LEMMA CircuitStep == KeccakInv /\ CircuitRound => KeccakInv'
<1> SUFFICES ASSUME KeccakInv, CircuitRound PROVE KeccakInv'
  OBVIOUS
<1> DEFINE expression == RoundExpr(state, RC[round + 1])
           k == (round + 1) \div 4
           here == NativeAfter(message)[round]
           next == NativeAfter(message)[round + 1]
<1>1. /\ message' = message /\ flip' = flip /\ native' = native /\ witness' = witness
      /\ inCircuit' = inCircuit /\ inCircuit = TRUE
      /\ round' = round + 1 /\ round \in 0 .. ROUNDS - 1
  BY DEF KeccakInv, CircuitRound, ROUNDS
<1>2. /\ message \in Messages
      /\ flip = None \/ \E c \in 1 .. 6, i \in StateBits : flip = <<c, i>>
      /\ failed \in BOOLEAN
      /\ witness \in Seq(SUBSET StateBits) /\ Len(witness) = 6
      /\ native = NativeAfter(message)[ROUNDS]
      /\ \A c \in 1 .. 6 : witness[c] = Committed(c)
      /\ ~ FlipPassed => ~ failed /\ state = SetBits(here)
      /\ FlipPassed => failed
  BY <1>1 DEF KeccakInv
<1>3. round' \in 0 .. ROUNDS
  BY <1>1 DEF ROUNDS
<1>4. \A c : Committed(c)' = Committed(c) /\ FlippedAt(c)' = FlippedAt(c)
  BY <1>1 DEF Committed, FlippedAt
<1>5. RoundExpr(SetBits(here), RC[round + 1]) = SetBits(next)
  BY <1>1, <1>2, NativeWires
<1>6. FlipPassed => FlipPassed'
  BY <1>1, <1>4 DEF FlipPassed, ROUNDS
<1>7. CASE (round + 1) % 4 # 0
  <2>1. state' = expression /\ failed' = failed
    BY <1>7 DEF CircuitRound
  <2>2. \A c \in 1 .. 6 : 4 * c <= round + 1 <=> 4 * c <= round
    BY <1>1, <1>7 DEF ROUNDS
  <2>3. FlipPassed' <=> FlipPassed
    BY <1>1, <1>4, <2>2 DEF FlipPassed
  <2>4. ~ FlipPassed => ~ failed' /\ state' = SetBits(next)
    BY <1>2, <1>5, <2>1
  <2> QED
    BY <1>1, <1>2, <1>3, <1>4, <2>1, <2>3, <2>4 DEF KeccakInv
<1>8. CASE (round + 1) % 4 = 0
  <2>1. /\ k \in 1 .. 6 /\ 4 * k = round + 1
        /\ \A c \in 1 .. 6 : 4 * c <= round + 1 <=> c = k \/ 4 * c <= round
    BY <1>1, <1>8 DEF ROUNDS
  <2>2. /\ state' = witness[k]
        /\ failed' = (failed \/ expression # witness[k])
    BY <1>8 DEF CircuitRound, Differs
  <2>3. witness[k] = Xor(SetBits(next), FlippedAt(k))
    BY <1>2, <2>1 DEF Committed
  <2>4. FlipPassed' <=> FlipPassed \/ FlippedAt(k) # {}
    <3>1. FlippedAt(k) # {} => flip # None
      BY DEF FlippedAt
    <3> QED
      BY <1>1, <1>4, <2>1, <3>1 DEF FlipPassed
  <2>5. ASSUME NEW A, NEW F
        PROVE  Xor(A, F) = A <=> F = {}
    BY DEF Xor, SymDiff
  <2>6. CASE FlipPassed
    <3>1. FlipPassed' /\ failed' = TRUE
      BY <1>2, <2>2, <2>4, <2>6
    <3> QED
      BY <1>1, <1>2, <1>3, <1>4, <3>1 DEF KeccakInv
  <2>7. CASE ~ FlipPassed /\ FlippedAt(k) # {}
    <3>1. expression = SetBits(next)
      BY <1>2, <1>5, <2>7
    <3>2. witness[k] # SetBits(next)
      BY <2>3, <2>5, <2>7
    <3>3. FlipPassed' /\ failed' = TRUE
      BY <2>2, <2>4, <2>7, <3>1, <3>2
    <3> QED
      BY <1>1, <1>2, <1>3, <1>4, <3>3 DEF KeccakInv
  <2>8. CASE ~ FlipPassed /\ FlippedAt(k) = {}
    <3>1. expression = SetBits(next) /\ failed = FALSE
      BY <1>2, <1>5, <2>8
    <3>2. witness[k] = SetBits(next)
      BY <2>3, <2>5, <2>8
    <3>3. ~ FlipPassed' /\ failed' = FALSE /\ state' = SetBits(next)
      BY <2>2, <2>4, <2>8, <3>1, <3>2
    <3> QED
      BY <1>1, <1>2, <1>3, <1>4, <3>3 DEF KeccakInv
  <2> QED
    BY <2>6, <2>7, <2>8
<1> QED
  BY <1>7, <1>8

(* The invariant holds in every reachable state. *)
THEOREM KeccakInvariant == Spec => []KeccakInv
<1>1. ASSUME KeccakInv, [Next]_vars
      PROVE  KeccakInv'
  <2>1. CASE UNCHANGED vars
    <3>1. \A k : Committed(k)' = Committed(k) /\ FlippedAt(k)' = FlippedAt(k)
      BY <2>1 DEF vars, Committed, FlippedAt
    <3>2. FlipPassed' <=> FlipPassed
      BY <2>1, <3>1 DEF vars, FlipPassed
    <3> QED
      BY <1>1, <2>1, <3>1, <3>2 DEF KeccakInv, vars
  <2> QED
    BY <1>1, <2>1, WitnessStep, StartStep, CircuitStep DEF Next
<1> QED
  BY <1>1, KeccakInit, PTL DEF Spec

(* For every message, an honest witness satisfies every checkpoint assertion,
   and a witness with one wrong bit, in whichever checkpoint and at whichever
   position, fails one (circuit.rs shake_degree16). *)
THEOREM WitnessDecided == Spec => []CheckpointsDecide
<1>1. KeccakInv => CheckpointsDecide
  <2> SUFFICES ASSUME KeccakInv PROVE CheckpointsDecide
    OBVIOUS
  <2>1. ASSUME flip = None
        PROVE  ~ failed
    <3>1. ~ FlipPassed
      BY <2>1 DEF FlipPassed
    <3> QED
      BY <3>1 DEF KeccakInv
  <2>2. ASSUME CircuitDone, flip # None
        PROVE  failed
    <3>1. inCircuit /\ round = 24
      BY <2>2 DEF CircuitDone, ROUNDS
    <3>2. PICK k \in 1 .. 6, i \in StateBits : flip = <<k, i>>
      BY <2>2 DEF KeccakInv
    <3>3. i \in FlippedAt(k) /\ 4 * k <= 24
      BY <2>2, <3>2 DEF FlippedAt
    <3>4. FlipPassed
      BY <2>2, <3>1, <3>3 DEF FlipPassed
    <3> QED
      BY <3>1, <3>4 DEF KeccakInv
  <2> QED
    BY <2>1, <2>2 DEF CheckpointsDecide
<1> QED
  BY <1>1, KeccakInvariant, PTL

(* For every message and every number of target nibbles, a circuit without a
   failed assertion goes on with the target and the nullifier that the wallet
   computed from the native state (circuit.rs credential_target,
   derive_nullifier). *)
THEOREM OutputsDecided == Spec => []OutputsAgree
<1>1. KeccakInv /\ CheckpointsDecide => OutputsAgree
  <2> SUFFICES ASSUME KeccakInv, CheckpointsDecide, CircuitDone, ~ failed
               PROVE  /\ HiddenTarget(state) = Target(Squeezed(native))
                      /\ HiddenNullifier(state) = Nullifier(Squeezed(native))
    BY DEF OutputsAgree
  <2>1. inCircuit /\ round = ROUNDS
    BY DEF CircuitDone
  <2>2. state = SetBits(native)
    BY <2>1 DEF KeccakInv
  <2>3. ASSUME NEW i \in 0 .. 8 * RATE_BYTES - 1
        PROVE  i \in state <=> i \in Squeezed(native)
    BY <2>2 DEF SetBits, Squeezed, StateBits, RATE_BYTES
  <2>4. M \in Nat /\ 4 * M + 256 <= 8 * RATE_BYTES /\ 8 * RATE_BYTES = 1088
    BY OutputAssumption DEF RATE_BYTES
  <2>5. ASSUME NEW i \in 0 .. M - 1
        PROVE  HiddenTarget(state)[i] = Target(Squeezed(native))[i]
    <3>1. ASSUME NEW e \in 0 .. 3
          PROVE  4 * i + e \in state <=> 8 * (i \div 2) + 4 * (i % 2) + e \in Squeezed(native)
      <4>1. 8 * (i \div 2) + 4 * (i % 2) + e = 4 * i + e
        OBVIOUS
      <4>2. 4 * i + e \in 0 .. 8 * RATE_BYTES - 1
        BY <2>4
      <4> QED
        BY <2>3, <4>1, <4>2
    <3> QED
      BY <3>1 DEF HiddenTarget, Target
  <2>6. HiddenTarget(state) = Target(Squeezed(native))
    BY <2>5 DEF HiddenTarget, Target
  <2>7. ASSUME NEW j \in 0 .. 255
        PROVE  4 * M + j \in state <=> 4 * M + j \in Squeezed(native)
    <3>1. 4 * M + j \in 0 .. 8 * RATE_BYTES - 1
      BY <2>4
    <3> QED
      BY <2>3, <3>1
  <2>8. HiddenNullifier(state) = Nullifier(Squeezed(native))
    BY <2>7 DEF HiddenNullifier, Nullifier
  <2> QED
    BY <2>6, <2>8
<1> QED
  BY <1>1, KeccakInvariant, WitnessDecided, PTL

=============================================================================
