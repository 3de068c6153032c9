--------------------------- MODULE PackedKernels ----------------------------
(***************************************************************************)
(* The matrix kernels of mayo/src/mat.rs, word by word.  A matrix is       *)
(* row-major bytes without padding, so a word that starts inside a row may *)
(* run into the next row or past the end.  mul_vec masks those lanes (the  *)
(* word of its vector is zero there as well), vec_mul and mul keep them    *)
(* because they never reach the output.                                    *)
(***************************************************************************)
EXTENDS GF16, Sequences

CONSTANTS
  Rows, Cols,   (* Shape of the matrix.                                     *)
  Entries,      (* Field elements that matrices are filled with.            *)
  Scalars       (* Field elements that vectors are filled with.             *)

ASSUME ShapeAssumption == Rows \in Nat \ {0} /\ Cols \in Nat \ {0}
ASSUME ElementsAssumption == Entries \subseteq GF /\ Scalars \subseteq GF

VARIABLES
  kernel,       (* The running kernel.                                      *)
  data,         (* The bytes of the matrix.                                 *)
  v,            (* The bytes of the vector.                                 *)
  row, word,    (* The row and word that come next.                         *)
  acc,          (* Accumulated words: one for mul_vec, a row for vec_mul.   *)
  out           (* The output so far.                                       *)

vars == <<kernel, data, v, row, word, acc, out>>

Words == (Cols + Lanes - 1) \div Lanes

(* word_at: Lanes bytes from a start, zero beyond the end. *)
WordAt(bytes, start) ==
  UNION {Shift(BitsOf(bytes[start + l]), 8 * l) :
           l \in {l \in Indices(Lanes) : start + l \in DOMAIN bytes}}

(* Mutant: rows are taken to be padded to whole words. *)
RowWordPadded(w) ==
  WordAt(data, (row * Words + w) * Lanes) \cap 0 .. 8 * (Cols - Lanes * w) - 1

(* mul_vec: only the lanes of the row survive. *)
RowWord(w) ==
  WordAt(data, row * Cols + Lanes * w) \cap 0 .. 8 * (Cols - Lanes * w) - 1

Init ==
  /\ kernel \in {"mul_vec", "vec_mul"}
  /\ data \in [Indices(Rows * Cols) -> Entries]
  /\ v \in [Indices(IF kernel = "mul_vec" THEN Cols ELSE Rows) -> Scalars]
  /\ row = 0
  /\ word = 0
  /\ acc = [w \in Indices(Words) |-> {}]
  /\ out = <<>>

(* acc ^= mul_lanes8(row word, word of v). *)
MulVecWord ==
  /\ kernel = "mul_vec" /\ row < Rows /\ word < Words
  /\ acc' = [acc EXCEPT ![0] =
               SymDiff(@, MulLanes8(RowWord(word), WordAt(v, Lanes * word)))]
  /\ word' = word + 1
  /\ UNCHANGED <<kernel, data, v, row, out>>

MulVecRow ==
  /\ kernel = "mul_vec" /\ row < Rows /\ word = Words
  /\ out' = Append(out, Fold8(acc[0]))
  /\ acc' = [acc EXCEPT ![0] = {}]
  /\ row' = row + 1
  /\ word' = 0
  /\ UNCHANGED <<kernel, data, v>>

(* The accumulated row gains the matrix row scaled by v[row]. *)
VecMulRow ==
  /\ kernel = "vec_mul" /\ row < Rows
  /\ acc' = [w \in Indices(Words) |->
               SymDiff(acc[w], MulScalar8(WordAt(data, row * Cols + Lanes * w), v[row]))]
  /\ row' = row + 1
  /\ UNCHANGED <<kernel, data, v, word, out>>

VecMulUnpack ==
  /\ kernel = "vec_mul" /\ row = Rows /\ out = <<>>
  /\ out' = [i \in 1 .. Cols |-> Lane(acc[(i - 1) \div Lanes], (i - 1) % Lanes)]
  /\ UNCHANGED <<kernel, data, v, row, word, acc>>

Next == MulVecWord \/ MulVecRow \/ VecMulRow \/ VecMulUnpack

Spec == Init /\ [][Next]_vars
-----------------------------------------------------------------------------
Entry(r, c) == data[r * Cols + c]

(* Multiplication in F_2[x] modulo x^4 + x + 1 without any algorithm: the
   product and the remainder differ by a multiple of the modulus. *)
IsProduct(x, y, z) ==
  LET Times(p, q) == XorFold(q, LAMBDA i : Shift(p, i))
  IN \E q \in SUBSET (0 .. 2) :
       Times(BitsOf(x), BitsOf(y)) = SymDiff(Times(Modulus, q), BitsOf(z))

(* Every product of an entry and a vector element, and the inverse that the
   solver divides by, is the field's (gf16.rs mul_internal, inv). *)
ProductsAreModular ==
  \A i \in DOMAIN data, j \in DOMAIN v :
    /\ IsProduct(data[i], v[j], data[i] ** v[j])
    /\ data[i] # 0 => IsProduct(data[i], Inv(data[i]), 1)

(* The packed kernels compute the definitional sums whatever the width of
   the matrix is modulo the width of a word: lanes of the next row and
   lanes past the end never reach an output. *)
KernelsExact ==
  /\ kernel = "mul_vec" =>
       \A r \in Indices(Len(out)) :
         out[r + 1] = GFSum(Cols, LAMBDA c : Entry(r, c) ** v[c])
  /\ kernel = "vec_mul" /\ out # <<>> =>
       \A c \in Indices(Cols) :
         out[c + 1] = GFSum(Rows, LAMBDA r : Entry(r, c) ** v[r])

(* Accumulated lanes are reduced elements at every step, so sums and shifts
   never carry from one lane into the next. *)
LanesStayReduced ==
  \A w \in DOMAIN acc : \A bit \in acc[w] : bit % 8 <= 3
=============================================================================
