-------------------------------- MODULE GF16 --------------------------------
(***************************************************************************)
(* GF(16) = F_2[x] / (x^4 + x + 1) as binary-fields/src/gf16.rs computes   *)
(* it, one element at a time and Lanes elements in a machine word.         *)
(*                                                                         *)
(* Bits are the elements of a set: a nibble is the set of its exponents, a *)
(* word the set of its bit positions, XOR is SymDiff.  Elements travel     *)
(* between modules as numbers below 16.                                    *)
(***************************************************************************)
EXTENDS Integers, FiniteSetsExt

CONSTANT Lanes  (* Elements in a word, 8 in the code; a power of two.      *)

ASSUME LanesAssumption == Lanes \in {2, 4, 8}

GF == 0 .. 15
Indices(n) == 0 .. n - 1
BitsOf(x) == {e \in 0 .. 7 : (x \div 2^e) % 2 = 1}
Value(bits) == SumSet({2^e : e \in bits})

Shift(p, i) == {e + i : e \in p}
Modulus == {0, 1, 4}

XorFold(S, F(_)) == FoldSet(LAMBDA i, p : SymDiff(p, F(i)), {}, S)

(* One step of the reduction clears bit j of p. *)
Reduce(p, j) == IF j \in p THEN SymDiff(p, Shift(Modulus, j - 4)) ELSE p

MulInternal(a, b) ==
  LET Term(i) == Shift(a, i)
  IN Reduce(Reduce(Reduce(XorFold(b, Term), 6), 5), 4) \cap 0 .. 3

MulTable ==
  [x \in GF |-> [y \in GF |-> Value(MulInternal(BitsOf(x), BitsOf(y)))]]
AddTable ==
  [x \in GF |-> [y \in GF |-> Value(SymDiff(BitsOf(x), BitsOf(y)))]]

x ** y == MulTable[x][y]
x ++ y == AddTable[x][y]

(* x^14 as x^2 * x^4 * x^8, so that Inv(0) = 0. *)
Inv(x) ==
  LET x2 == x ** x
      x4 == x2 ** x2
  IN (x2 ** x4) ** (x4 ** x4)

(* F(0) + ... + F(n - 1). *)
GFSum(n, F(_)) ==
  LET upTo[k \in 0 .. n] == IF k = 0 THEN 0 ELSE upTo[k - 1] ++ F(k - 1)
  IN upTo[n]
-----------------------------------------------------------------------------
(***************************************************************************)
(* gf16::packed: lane l occupies bits 8l .. 8l+7 of a word.                *)
(***************************************************************************)
WordBits == 0 .. 8 * Lanes - 1
LaneLsb == {8 * l : l \in 0 .. Lanes - 1}

Left(w, i) == Shift(w, i) \cap WordBits
Right(w, i) == Shift(w, -i) \cap WordBits

(* hits.wrapping_mul(c) for hits with at most the lowest bit of each lane
   and c below 2^8: the partial products lie in different lanes. *)
Broadcast(hits, c) == UNION {Left(c, h) : h \in hits \cap LaneLsb}

ReduceLanes(p, j) ==
  SymDiff(p, Broadcast(Right(p, j) \cap LaneLsb, Shift(Modulus, j - 4)))

PackedReduce(p) == ReduceLanes(ReduceLanes(ReduceLanes(p, 6), 5), 4)

MulScalar8(w, s) ==
  LET Term(i) == Left(w, i)
  IN PackedReduce(XorFold(BitsOf(s), Term))

MulLanes8(a, b) ==
  LET Term(i) == Left(a, i) \cap Broadcast(Right(b, i) \cap LaneLsb, 0 .. 7)
  IN PackedReduce(XorFold(0 .. 3, Term))

(* The lanes are folded in halves: shifts by 32, 16, 8 for eight lanes. *)
Fold8(w) ==
  LET Halve(p, n) == SymDiff(p, Right(p, n))
      w4 == IF Lanes = 8 THEN Halve(w, 32) ELSE w
      w2 == IF Lanes >= 4 THEN Halve(w4, 16) ELSE w4
  IN Value(Halve(w2, 8) \cap 0 .. 3)

Lane(w, l) == Value({e \in 0 .. 3 : 8 * l + e \in w})
=============================================================================
