------------------------------ MODULE TagField ------------------------------
(***************************************************************************)
(* The VOLE tag field of binary-fields: GF(2^128) of gf2p128.rs with both   *)
(* of its multiplications, powers (lib.rs), and the embedding of GF(16)     *)
(* (embed.rs).                                                             *)
(*                                                                         *)
(* A machine word is the set of the positions of its one bits, so XOR is    *)
(* SymDiff; a field element is the word of its coefficients.  The width and *)
(* the polynomial are constants, so that algorithms above the field can be  *)
(* checked over a small one.                                               *)
(***************************************************************************)
EXTENDS Integers, Sequences, FiniteSetsExt

CONSTANTS
  Bits,      (* Width of an element, 128; even.                             *)
  PolyLow    (* POLY_LOW: the modulus without its leading term.             *)

Positions == 0 .. Bits - 1
Half == Bits \div 2

Elements == SUBSET Positions

XorOver(S, F(_)) == FoldSet(LAMBDA i, w : SymDiff(w, F(i)), {}, S)

(* Shifts of a word that has Bits bits. *)
ShiftLeft(w, n) == {e + n : e \in w} \cap Positions
ShiftRight(w, n) == {e - n : e \in {f \in w : f >= n}}

(* One reduction step. *)
MulX(v) == SymDiff(ShiftLeft(v, 1), IF Bits - 1 \in v THEN PolyLow ELSE {})

MulPortable(a, b) ==
  LET Iterate[s \in [acc : Elements, shifted : Elements, bit : Nat]] ==
        [acc |-> IF s.bit \in b THEN SymDiff(s.acc, s.shifted) ELSE s.acc,
         shifted |-> MulX(s.shifted),
         bit |-> s.bit + 1]
      after[i \in 0 .. Bits] ==
        IF i = 0 THEN [acc |-> {}, shifted |-> a, bit |-> 0] ELSE Iterate[after[i - 1]]
  IN after[Bits].acc

(* The carry-less multiplication instruction on two half words. *)
CarrylessProduct(a, b) ==
  {e \in 0 .. 2 * Bits - 2 : Cardinality({i \in b : e - i \in a}) % 2 = 1}

LowHalf(w) == w \cap 0 .. Half - 1
HighHalf(w) == ShiftRight(w, Half)

(* high * x^Bits is folded onto the low word; what that shifts out at the
   top is folded once more. *)
FoldLow(w) == XorOver(PolyLow, LAMBDA e : ShiftLeft(w, e))
ShiftedOut(w) == XorOver(PolyLow \ {0}, LAMBDA e : ShiftRight(w, Bits - e))

(* Mutant: the bits that the fold shifts out are lost. *)
ReduceProductOnce(low, high) == SymDiff(low, FoldLow(high))

ReduceProduct(low, high) ==
  SymDiff(low, SymDiff(FoldLow(high), FoldLow(ShiftedOut(high))))

ReduceKaratsuba(p0, p1, middle) ==
  ReduceProduct(
    LowHalf(p0) \cup ShiftLeft(SymDiff(HighHalf(p0), LowHalf(middle)), Half),
    SymDiff(HighHalf(middle), LowHalf(p1)) \cup ShiftLeft(HighHalf(p1), Half))

Karatsuba(p0, p1, mixed) == ReduceKaratsuba(p0, p1, SymDiff(mixed, SymDiff(p0, p1)))

(* mul_pclmul and mul_pmull: three products instead of four. *)
MulCarryless(a, b) ==
  Karatsuba(CarrylessProduct(LowHalf(a), LowHalf(b)),
            CarrylessProduct(HighHalf(a), HighHalf(b)),
            CarrylessProduct(SymDiff(LowHalf(a), HighHalf(a)),
                             SymDiff(LowHalf(b), HighHalf(b))))

Mul(a, b) == MulCarryless(a, b)
One == {0}

(* Square-and-multiply; the exponent is a word too. *)
Pow(x, exponent) ==
  LET Iterate[s \in [acc : Elements, base : Elements, bit : Nat]] ==
        [acc |-> IF s.bit \in exponent THEN Mul(s.acc, s.base) ELSE s.acc,
         base |-> Mul(s.base, s.base),
         bit |-> s.bit + 1]
      after[i \in 0 .. Bits] ==
        IF i = 0 THEN [acc |-> One, base |-> x, bit |-> 0] ELSE Iterate[after[i - 1]]
  IN after[IF exponent = {} THEN 0 ELSE Max(exponent) + 1].acc

(* x^(2^Bits - 2). *)
InvTag(x) == Pow(x, 1 .. Bits - 1)

-----------------------------------------------------------------------------
(* The embedding of GF(16) by a root of x^4 + x + 1.                        *)

(* (2^Bits - 1) / 15, for a width divisible by four. *)
CofactorExp == {4 * i : i \in 0 .. Bits \div 4 - 1}

(* The small elements 2 .. 7 in the order in which they are tried. *)
Candidates == << {1}, {0, 1}, {2}, {0, 2}, {1, 2}, {0, 1, 2} >>

HasOrder15(h) == h # One /\ Pow(h, {0, 1}) # One /\ Pow(h, {0, 2}) # One

(* c^4 + c + 1 = 0. *)
IsRoot(c) == SymDiff(Mul(Mul(c, c), Mul(c, c)), SymDiff(c, One)) = {}

RootNear(h) == IF IsRoot(h) THEN h ELSE Pow(h, {0, 1, 2})

ComputeBeta ==
  RootNear(Head(SelectSeq([i \in 1 .. Len(Candidates) |-> Pow(Candidates[i], CofactorExp)],
                          HasOrder15)))

SumsOf(basis) ==
  [x \in 0 .. 15 |->
     XorOver({bit \in 0 .. 3 : (x \div 2 ^ bit) % 2 = 1}, LAMBDA bit : basis[bit + 1])]

(* Mutant: the last basis element is the square of the one before it. *)
SquaredTwice(beta) == << One, beta, Mul(beta, beta), Mul(Mul(beta, beta), Mul(beta, beta)) >>

PowersOf(beta) == << One, beta, Mul(beta, beta), Mul(Mul(beta, beta), beta) >>

(* embed_table: sums of 1, beta, beta^2 and beta^3. *)
EmbedTable == SumsOf(PowersOf(ComputeBeta))

=============================================================================
