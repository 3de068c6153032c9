------------------------------ MODULE MCKernels ------------------------------
(***************************************************************************)
(* The pure kernels of the library side by side: a behaviour runs one unit, *)
(* and the variables of the other units stay idle.  The instances and their *)
(* bounds are below each unit.                                              *)
(***************************************************************************)
EXTENDS PackedKernels, SolverSteps

VARIABLES
  unit,                               (* The kernel that is run.            *)
  table, call, answer,                (* TagKernels.                        *)
  shape, delta, u, tags, keys, hashKey, sent, verdict  (* ConsistencyHash.  *)

packedVars == <<kernel, data, v, row, word, acc, out>>
tagVars == <<table, call, answer>>
hashVars == <<shape, delta, u, tags, keys, hashKey, sent, verdict>>

-----------------------------------------------------------------------------
(* Three equations in four unknowns.  Every pattern of zero entries occurs in
   the first three columns, so pivots are found in any row, and one column is
   always free; a row and a column are scaled so that pivots must be inverted.
   The other values are scaled alike, which makes many systems solvable by
   probes. *)
RowScale(i) == IF i = 1 THEN 9 ELSE 1
ColumnScale(c) == IF c = 2 THEN 6 ELSE 1
ZeroPatterns ==
  {p \in [0 .. 2 -> [0 .. 3 -> {0, 1}]] : p[0][3] = 1 /\ p[1][3] # p[2][3]}

MCMatrices ==
  {[i \in 0 .. 2 |-> [c \in 0 .. 3 |-> p[i][c] ** (RowScale(i) ** ColumnScale(c))]] :
     p \in ZeroPatterns}
MCProbes == {[c \in 0 .. 3 |-> p[c] ** Inv(ColumnScale(c))] : p \in [0 .. 3 -> {0, 1}]}
MCRightSides == {[i \in 0 .. 2 |-> RowScale(i)]}
MCRandoms == {[c \in 0 .. 3 |-> IF c = 3 THEN 0 ELSE Inv(ColumnScale(c))]}

-----------------------------------------------------------------------------
(* Products of monomials at the word boundaries and of a few dense words, the
   single bits of every row and column of a tile near its borders, bits at the
   word boundaries of larger matrices, VOLEs of one coordinate and of a ragged
   length, foldings of zero to nine equations. *)
Times(x, z) == x ** z
Sum2(x, z) == x ++ z
Degrees == {0, 1, 2, 56, 57, 63, 64, 65, 120, 121, 122, 126, 127}
Dense == {0 .. 127, {e \in 0 .. 127 : e % 3 = 0}, 64 .. 127, {}}
Edges64 == {0, 1, 31, 32, 63}
Edges128 == {0, 31, 63, 64, 96, 127}

Tag == INSTANCE TagKernels WITH
  Bits <- 128,
  PolyLow <- {0, 1, 2, 7},
  GF16Times <- Times,
  GF16Plus <- Sum2,
  Products <- {<<{i}, {j}>> : i, j \in Degrees} \cup (Dense \X Dense)
                \cup {<<{i}, b>> : i \in Degrees, b \in Dense},
  Inverses <- {{}, {0}, {127}, 0 .. 127},
  TileBits <- ((0 .. 63) \X Edges64) \cup (Edges64 \X (0 .. 63)),
  SquareBits <- Edges128 \X Edges128,
  PlaneBits <- {<<p, t, n>> \in {0, 63, 64, 127} \X {0, 63, 64, 69} \X {1, 64, 70} : t < n},
  Folds <- {[phis |-> [e \in 1 .. n |-> {e, (5 * e) % 128, 127}],
             coeffs |-> [e \in 1 .. n |-> (7 * e + shift) % 16]] : n \in 0 .. 9, shift \in {0, 4}}

-----------------------------------------------------------------------------
(* GF(4): VOLEs of one and of two mask groups whose hashed part ends in a full
   and in a half chunk, and eight of the 256 hash keys. *)
Hash == INSTANCE ConsistencyHash WITH
  Bits <- 2,
  PolyLow <- {0, 1},
  Shapes <- {[l |-> 1, d |-> 2], [l |-> 2, d |-> 2], [l |-> 1, d |-> 3]},
  Fillings <-
    {[u |-> {0, 1, 4}, tags |-> [t \in 0 .. 7 |-> {e \in 0 .. 1 : (t + e) % 3 = 0}]],
     [u |-> {2, 3, 4, 6}, tags |-> [t \in 0 .. 7 |-> {e \in 0 .. 1 : t % (e + 2) = 1}]]},
  DrawnKeys <- [r0 : {{}, {0, 1}}, r1 : {{1}}, s : {{0}, {1}}, t : {{}, {0, 1}}],
  Trees <- {{0}, {1}}

-----------------------------------------------------------------------------
IdlePacked ==
  /\ kernel = "none" /\ data = <<>> /\ v = <<>> /\ row = <<>> /\ word = <<>> /\ acc = <<>> /\ out = <<>>
IdleSolver ==
  /\ a = <<>> /\ y = <<>> /\ r = <<>> /\ s = <<>> /\ column = <<>>
IdleTag ==
  /\ table = <<>> /\ call = <<>> /\ answer = <<>>
IdleHash ==
  /\ shape = <<>> /\ delta = <<>> /\ u = <<>> /\ tags = <<>> /\ keys = <<>>
  /\ hashKey = <<>> /\ sent = <<>> /\ verdict = <<>>

KernelsInit ==
  \/ unit = "packed" /\ Init /\ IdleSolver /\ IdleTag /\ IdleHash
  \/ unit = "solver" /\ SolverInit /\ IdlePacked /\ IdleTag /\ IdleHash
  \/ unit = "tag" /\ Tag!Init /\ IdlePacked /\ IdleSolver /\ IdleHash
  \/ unit = "hash" /\ Hash!Init /\ IdlePacked /\ IdleSolver /\ IdleTag

KernelsNext ==
  \/ unit = "packed" /\ Next /\ UNCHANGED <<unit, solverVars, tagVars, hashVars>>
  \/ unit = "solver" /\ SolverNext /\ UNCHANGED <<unit, packedVars, tagVars, hashVars>>
  \/ unit = "tag" /\ Tag!Next /\ UNCHANGED <<unit, packedVars, solverVars, hashVars>>
  \/ unit = "hash" /\ Hash!Next /\ UNCHANGED <<unit, packedVars, solverVars, tagVars>>

KernelsSpec == KernelsInit /\ [][KernelsNext]_<<unit, packedVars, solverVars, tagVars, hashVars>>

-----------------------------------------------------------------------------
(* The properties of the instances, in the behaviours that run them. *)

(* Packed products are the sums of field products that they stand for, lane
   by lane and whatever the width of a row (gf16.rs, mat.rs). *)
PackedProductsExact == ProductsAreModular /\ KernelsExact /\ LanesStayReduced

(* The swap-free elimination keeps reduced echelon form and the solutions in
   every column, and ends in a solution exactly when the rows are independent
   (mat.rs sample_solution). *)
SystemsSolved ==
  unit = "solver" => ReducedEchelon /\ SameSolutions /\ SolvesOrDeficient

(* Both multiplications are the remainder of the product (gf2p128.rs). *)
MultipliersAgree == unit = "tag" => Tag!MultipliersAgree

(* embed_gf16 is an injective ring homomorphism (embed.rs). *)
EmbeddingIsHomomorphism == unit = "tag" => Tag!EmbeddingIsHomomorphism

(* Transposition and assembly move each single bit to its place (bits.rs,
   vole.rs). *)
TransposesExact == unit = "tag" => Tag!TransposesExact

(* Folding covers each equation once (backend.rs fold_coeff). *)
FoldsExact == unit = "tag" => Tag!FoldsExact

(* An honest prover passes the consistency check, and few hash keys overlook a
   key that deviates (proof.rs). *)
ConsistencyDecides == unit = "hash" => Hash!ConsistentAccepted /\ Hash!DeviationsFound

(* No mask bit is used twice, and grouping bits to elements keeps the
   correlation (proof.rs). *)
MasksHide == unit = "hash" => Hash!MasksAreIndependent /\ Hash!MaskGroupsCorrelate

=============================================================================
