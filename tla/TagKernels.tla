----------------------------- MODULE TagKernels -----------------------------
(***************************************************************************)
(* The word-level kernels between the tag field and the proof system, at   *)
(* full width: field products (binary-fields/src/gf2p128.rs), bit-matrix   *)
(* transposes (voleith/src/bits.rs), the assembly of field elements from    *)
(* bit planes (vole.rs) and the folding of GF(16) coefficients             *)
(* (backend.rs).  One call is made and answered.                           *)
(***************************************************************************)
EXTENDS TagField, SequencesExt

CONSTANTS
  GF16Times(_, _), GF16Plus(_, _),  (* Arithmetic of GF(16) on 0 .. 15.     *)
  Products,      (* Pairs of elements to multiply.                          *)
  Inverses,      (* Elements to invert.                                     *)
  TileBits,      (* Row and column of the one bit of a 64 x 64 matrix.      *)
  SquareBits,    (* Row and column of the one bit of a 128 x 128 matrix.    *)
  PlaneBits,     (* Plane, coordinate and length of a VOLE with one bit.    *)
  Folds          (* Challenges and coefficients to fold.                    *)

VARIABLES
  table,         (* TABLE, the images of 0 .. 15, computed once.            *)
  call, answer
vars == <<table, call, answer>>

Rows64 == 0 .. 63

(* transpose64 exchanges, at distances j = 32, 16 .. 1, the bits selected by
   the mask m between rows k and k + j.  The rows k are visited in the order
   of the code: (k + j + 1) & !j. *)
NextRow(k, j) == LET n == k + j + 1 IN IF (n \div j) % 2 = 1 THEN n - j ELSE n

VisitedRows(j) ==
  LET row[i \in 0 .. 32] == IF i = 0 THEN 0 ELSE NextRow(row[i - 1], j)
  IN  {row[i] : i \in 0 .. 32} \cap Rows64

Shift64(w, n) == {e + n : e \in w} \cap Rows64

(* The exchanges of one distance touch disjoint pairs of rows. *)
ExchangeLevel(a, j, m) ==
  LET visited == VisitedRows(j)
      T(k) == SymDiff(ShiftRight(a[k], j), a[k + j]) \cap m
  IN  [k \in Rows64 |->
         IF k \in visited THEN SymDiff(a[k], Shift64(T(k), j))
         ELSE IF k - j \in visited THEN SymDiff(a[k], T(k - j))
         ELSE a[k]]

Distances == <<32, 16, 8, 4, 2, 1>>

(* Mutant: the mask is shifted before the distance is halved. *)
NextMaskEarly(m, j) == SymDiff(m, Shift64(m, j))

(* m ^= m << j, after j was halved. *)
NextMask(m, j) == SymDiff(m, Shift64(m, j \div 2))

(* The mask starts with the low half. *)
Transpose64(a) ==
  LET level[i \in 0 .. 6] ==
        IF i = 0 THEN [a |-> a, m |-> 0 .. 31]
        ELSE LET before == level[i - 1]
                 j == Distances[i]
             IN  [a |-> ExchangeLevel(before.a, j, before.m),
                  m |-> NextMask(before.m, j)]
  IN level[6].a

Word(high, low) == low \cup {e + 64 : e \in high}
LowWord(w) == w \cap Rows64
HighWord(w) == {e - 64 : e \in w \ Rows64}

(* Four 64 x 64 tiles; the off-diagonal ones change places. *)
Transpose128(rows) ==
  LET a == Transpose64([i \in Rows64 |-> LowWord(rows[i])])
      b == Transpose64([i \in Rows64 |-> HighWord(rows[i])])
      c == Transpose64([i \in Rows64 |-> LowWord(rows[64 + i])])
      d == Transpose64([i \in Rows64 |-> HighWord(rows[64 + i])])
  IN  [k \in 0 .. 127 |-> IF k < 64 THEN Word(c[k], a[k]) ELSE Word(d[k - 64], b[k - 64])]

(* BitVec::word64: 64 bits of a vector (the set of its one positions). *)
Word64(vector, w) == {t - 64 * w : t \in vector \cap 64 * w .. 64 * w + 63}

(* vole.rs assemble: 128 planes of lHat bits to lHat elements of 128 bits. *)
Assemble(planes, lHat) ==
  LET lo(w) == Transpose64([pos \in Rows64 |-> Word64(planes[pos], w)])
      hi(w) == Transpose64([pos \in Rows64 |-> Word64(planes[64 + pos], w)])
      block == [w \in 0 .. (lHat - 1) \div 64 |-> [lo |-> lo(w), hi |-> hi(w)]]
  IN  [t \in 0 .. lHat - 1 |-> Word(block[t \div 64].hi[t % 64], block[t \div 64].lo[t % 64])]

(* backend.rs fold_table and fold_coeff: one table for each challenge, four
   accumulators, the remainder of fewer than four into the first. *)
FoldTable(phi) == [nibble \in 0 .. 15 |-> Mul(phi, table[nibble])]

(* Mutant: the remainder starts at the last full chunk. *)
RestFromLastChunk(n) == {e \in 1 .. n : e > 4 * (n \div 4) - 4}

RestPositions(n) == {e \in 1 .. n : e > 4 * (n \div 4)}

FoldCoeff(phis, coeffs) ==
  LET n == Len(coeffs)
      tables == [e \in 1 .. n |-> FoldTable(phis[e])]
      Lookup(e) == tables[e][coeffs[e]]
      Chunked(lane) == {e \in 1 .. n : e <= 4 * (n \div 4) /\ (e - 1) % 4 = lane}
      first == SymDiff(XorOver(Chunked(0), Lookup), XorOver(RestPositions(n), Lookup))
  IN  SymDiff(SymDiff(first, XorOver(Chunked(1), Lookup)),
              SymDiff(XorOver(Chunked(2), Lookup), XorOver(Chunked(3), Lookup)))

-----------------------------------------------------------------------------
Call(op, argument) == [op |-> op, argument |-> argument]
Unanswered == <<>>

(* A matrix, or a list of planes, with a single one bit. *)
OneBit(n, row, column) == [k \in 0 .. n - 1 |-> IF k = row THEN {column} ELSE {}]

Init ==
  /\ table = EmbedTable
  /\ \/ \E p \in Products : call = Call("mul", p)
     \/ \E x \in Inverses : call = Call("inv", x)
     \/ \E x, y \in 0 .. 15 : call = Call("embed_gf16", <<x, y>>)
     \/ \E b \in TileBits : call = Call("transpose64", b)
     \/ \E b \in SquareBits : call = Call("transpose128", b)
     \/ \E b \in PlaneBits : call = Call("assemble", b)
     \/ \E f \in Folds : call = Call("fold_coeff", f)
  /\ answer = Unanswered

Answers(op, value) == answer = Unanswered /\ call.op = op /\ answer' = <<value>>

Multiply ==
  /\ Answers("mul", [portable |-> MulPortable(call.argument[1], call.argument[2]),
                     carryless |-> MulCarryless(call.argument[1], call.argument[2])])
  /\ UNCHANGED <<table, call>>
Invert == Answers("inv", InvTag(call.argument)) /\ UNCHANGED <<table, call>>
Embed ==
  /\ Answers("embed_gf16", <<table[call.argument[1]], table[call.argument[2]]>>)
  /\ UNCHANGED <<table, call>>
TransposeTile ==
  /\ Answers("transpose64", Transpose64(OneBit(64, call.argument[1], call.argument[2])))
  /\ UNCHANGED <<table, call>>
TransposeSquare ==
  /\ Answers("transpose128", Transpose128(OneBit(128, call.argument[1], call.argument[2])))
  /\ UNCHANGED <<table, call>>
AssemblePlanes ==
  /\ Answers("assemble", Assemble(OneBit(128, call.argument[1], call.argument[2]),
                                  call.argument[3]))
  /\ UNCHANGED <<table, call>>
FoldCoefficients ==
  /\ Answers("fold_coeff", FoldCoeff(call.argument.phis, call.argument.coeffs))
  /\ UNCHANGED <<table, call>>

Next ==
  \/ Multiply \/ Invert \/ Embed
  \/ TransposeTile \/ TransposeSquare \/ AssemblePlanes
  \/ FoldCoefficients

Spec == Init /\ [][Next]_vars

-----------------------------------------------------------------------------
Answered(op) == answer # Unanswered /\ call.op = op

(* Long division: the leading terms above the width are cancelled from the
   top by multiples of the modulus. *)
Modulus == PolyLow \cup {Bits}
Remainder(product) ==
  LET cancelled[e \in Bits .. 2 * Bits] ==
        IF e = 2 * Bits THEN product
        ELSE LET above == cancelled[e + 1] IN
             IF e \in above THEN SymDiff(above, {i + e - Bits : i \in Modulus}) ELSE above
  IN cancelled[Bits]

(* The portable loop and the three-product fast path compute the remainder of
   the polynomial product by the modulus, and inverses are inverses (gf2p128.rs;
   a unit test compares the two on random operands, on hosts that have the
   instruction). *)
MultipliersAgree ==
  /\ Answered("mul") =>
       LET product == Remainder(CarrylessProduct(call.argument[1], call.argument[2]))
       IN  answer[1] = [portable |-> product, carryless |-> product]
  /\ Answered("inv") =>
       Remainder(CarrylessProduct(call.argument, answer[1])) =
         IF call.argument = {} THEN {} ELSE One

(* embed_gf16 is an injective ring homomorphism, whatever root compute_beta
   finds (embed.rs). *)
EmbeddingIsHomomorphism ==
  Answered("embed_gf16") =>
    LET x == call.argument[1]
        y == call.argument[2]
    IN  /\ table[GF16Plus(x, y)] = SymDiff(answer[1][1], answer[1][2])
        /\ table[GF16Times(x, y)] = Mul(answer[1][1], answer[1][2])
        /\ (answer[1][1] = answer[1][2]) => x = y

(* Each single bit arrives where the definition puts it: transposes exchange
   row and column, and bit t of plane pos becomes bit pos of element t also
   where the length is not a multiple of the word.  The kernels only XOR and
   shift, so this decides them on every matrix. *)
TransposesExact ==
  /\ Answered("transpose64") =>
       answer[1] = OneBit(64, call.argument[2], call.argument[1])
  /\ Answered("transpose128") =>
       answer[1] = OneBit(128, call.argument[2], call.argument[1])
  /\ Answered("assemble") =>
       answer[1] = OneBit(call.argument[3], call.argument[2], call.argument[1])

(* The four accumulators and the remainder cover every equation once: the
   folded coefficient is the sum of challenge times embedded coefficient. *)
FoldsExact ==
  Answered("fold_coeff") =>
    answer[1] = XorOver(DOMAIN call.argument.coeffs, LAMBDA e :
      Remainder(CarrylessProduct(call.argument.phis[e], table[call.argument.coeffs[e]])))

=============================================================================
