-------------------------------- MODULE Mayo --------------------------------
(***************************************************************************)
(* The trapdoor map of crates/mayo/src/scheme.rs: key generation, the      *)
(* whipped evaluation, its quadratic forms, the preimage sampler and the   *)
(* stored forms of the keys.                                               *)
(*                                                                         *)
(* Matrices are functions of rows of functions, indexed from 0.  A vector  *)
(* in F^{KN} is a function of its K blocks, since the code only ever cuts  *)
(* it at multiples of N.                                                   *)
(***************************************************************************)
EXTENDS LinearSolver, Sequences

CONSTANTS
  V, O, M, K,   (* Vinegar and oil variables, equations, whipping.          *)
  FTail         (* Nonzero tail coefficients of f(z), by degree.            *)

ASSUME ParamsAssumption ==
  /\ {V, O, M, K} \subseteq Nat \ {0}
  /\ DOMAIN FTail \subseteq 0 .. M - 1 /\ \A d \in DOMAIN FTail : FTail[d] \in GF

N == V + O
Equations == Indices(M)
Blocks == Indices(K)

Dot(x, y) == GFSum(Cardinality(DOMAIN x), LAMBDA i : x[i] ** y[i])
VecAdd(x, y) == [i \in DOMAIN x |-> x[i] ++ y[i]]
MatAdd(a, b) == [i \in DOMAIN a |-> VecAdd(a[i], b[i])]
Column(a, c) == [i \in DOMAIN a |-> a[i][c]]
Transpose(a) == [c \in DOMAIN a[0] |-> Column(a, c)]
VecMul(x, a) == [c \in DOMAIN a[0] |-> Dot(x, Column(a, c))]
MatMul(a, b) == [i \in DOMAIN a |-> VecMul(a[i], b)]

Upper(a) ==
  [i \in DOMAIN a |-> [j \in DOMAIN a |->
     IF i = j THEN a[i][i] ELSE IF i < j THEN a[i][j] ++ a[j][i] ELSE 0]]

Symmetrized(a) == MatAdd(a, Transpose(a))
-----------------------------------------------------------------------------
(***************************************************************************)
(* Keys.  Key material is the oil matrix and the random P1 (upper          *)
(* triangular) and P2 of every equation.                                   *)
(***************************************************************************)
P3Of(o, p1, p2) ==
  LET ot == Transpose(o)
  IN Upper(MatAdd(MatMul(ot, MatMul(p1, o)), MatMul(ot, p2)))

SecretKeyOf(k) ==
  [o |-> k.o, p1 |-> k.p1,
   l |-> [a \in Equations |-> MatAdd(MatMul(Symmetrized(k.p1[a]), k.o), k.p2[a])]]

TrapgenPublicKey(k) ==
  [p1 |-> k.p1, p2 |-> k.p2,
   p3 |-> [a \in Equations |-> P3Of(k.o, k.p1[a], k.p2[a])]]

(* SecretKey::public_key recovers P2 from L. *)
PublicKey(sk) ==
  LET p2 == [a \in Equations |->
               MatAdd(sk.l[a], MatMul(Symmetrized(sk.p1[a]), sk.o))]
  IN [p1 |-> sk.p1, p2 |-> p2,
      p3 |-> [a \in Equations |-> P3Of(sk.o, sk.p1[a], p2[a])]]

(* append_matrix: nibbles row by row, an upper triangle from its diagonal. *)
UpperEntries(n) == (n * (n + 1)) \div 2
RowStart(i, cols, upper) == IF upper THEN i * cols - (i * (i - 1)) \div 2 ELSE i * cols
Size(rows, cols, upper) == IF upper THEN UpperEntries(cols) ELSE rows * cols

Nibbles(a, upper) ==
  LET rows == Cardinality(DOMAIN a)
      cols == Width(a)
      At(n) ==
        LET i == Max({i \in Indices(rows) : RowStart(i, cols, upper) <= n})
        IN a[i][n - RowStart(i, cols, upper) + (IF upper THEN i ELSE 0)]
  IN [n \in 1 .. Size(rows, cols, upper) |-> At(n - 1)]

(* NibbleReader::matrix from a position; the lower triangle stays zero. *)
ReadMatrix(bytes, start, rows, cols, upper) ==
  [i \in Indices(rows) |-> [j \in Indices(cols) |->
     IF upper THEN IF j < i THEN 0 ELSE bytes[1 + start + RowStart(i, cols, TRUE) + j - i]
     ELSE bytes[1 + start + i * cols + j]]]

Concat(n, F(_)) ==
  LET upTo[k \in 0 .. n] == IF k = 0 THEN <<>> ELSE upTo[k - 1] \o F(k - 1)
  IN upTo[n]

SecretKeyBytes(sk) ==
  Nibbles(sk.o, FALSE)
    \o Concat(M, LAMBDA a : Nibbles(sk.p1[a], TRUE) \o Nibbles(sk.l[a], FALSE))

SecretKeyFromBytes(bytes) ==
  LET per == UpperEntries(V) + V * O
      start(a) == V * O + a * per
  IN [o |-> ReadMatrix(bytes, 0, V, O, FALSE),
      p1 |-> [a \in Equations |-> ReadMatrix(bytes, start(a), V, V, TRUE)],
      l |-> [a \in Equations |-> ReadMatrix(bytes, start(a) + UpperEntries(V), V, O, FALSE)]]

PublicKeyBytes(pk) ==
  Concat(M, LAMBDA a :
    Nibbles(pk.p1[a], TRUE) \o Nibbles(pk.p2[a], FALSE) \o Nibbles(pk.p3[a], TRUE))

PublicKeyFromBytes(bytes) ==
  LET per == UpperEntries(V) + V * O + UpperEntries(O)
      p2At(a) == a * per + UpperEntries(V)
  IN [p1 |-> [a \in Equations |-> ReadMatrix(bytes, a * per, V, V, TRUE)],
      p2 |-> [a \in Equations |-> ReadMatrix(bytes, p2At(a), V, O, FALSE)],
      p3 |-> [a \in Equations |-> ReadMatrix(bytes, p2At(a) + V * O, O, O, TRUE)]]
-----------------------------------------------------------------------------
(***************************************************************************)
(* The whipped map.                                                        *)
(***************************************************************************)

(* mul_z_pow: F^M as polynomials in z modulo f. *)
TimesZ(u) ==
  [i \in Equations |->
     (IF i = 0 THEN 0 ELSE u[i - 1])
       ++ (IF i \in DOMAIN FTail THEN u[M - 1] ** FTail[i] ELSE 0)]

MulZPow(u, shift) ==
  LET p[n \in 0 .. shift] == IF n = 0 THEN u ELSE TimesZ(p[n - 1])
  IN p[shift]

Zero == [a \in Equations |-> 0]

(* The pairs i <= j in loop order: i upwards, j downwards. *)
Pairs == {pair \in Blocks \X Blocks : pair[1] <= pair[2]}
Ell(i, j) == i * K - (i * (i - 1)) \div 2 + (K - 1 - j)

WhippedSum(U(_, _)) ==
  FoldSet(LAMBDA pair, y : VecAdd(y, MulZPow(U(pair[1], pair[2]), Ell(pair[1], pair[2]))),
          Zero, Pairs)

(* (P1 P2; 0 P3) s for one equation, blockwise. *)
Vinegar(s) == [i \in Indices(V) |-> s[i]]
Oil(s) == [i \in Indices(O) |-> s[V + i]]

FullMulVec(pk, a, s) ==
  LET top == VecAdd(MulVec(pk.p1[a], Vinegar(s)), MulVec(pk.p2[a], Oil(s)))
      bottom == MulVec(pk.p3[a], Oil(s))
  IN [i \in Indices(N) |-> IF i < V THEN top[i] ELSE bottom[i - V]]

Eval(pk, s) ==
  LET w == [a \in Equations |-> [j \in Blocks |-> FullMulVec(pk, a, s[j])]]
      U(i, j) == [a \in Equations |->
        IF i = j THEN Dot(s[i], w[a][i]) ELSE Dot(s[i], w[a][j]) ++ Dot(s[j], w[a][i])]
  IN WhippedSum(U)

(* Mutant: P2 is mirrored into the lower left block. *)
FullMatrixMirrored(pk, a) ==
  [r \in Indices(N) |-> [c \in Indices(N) |->
     IF r < V /\ c < V THEN pk.p1[a][r][c]
     ELSE IF r < V THEN pk.p2[a][r][c - V]
     ELSE IF c < V THEN pk.p2[a][c][r - V]
     ELSE pk.p3[a][r - V][c - V]]]

FullMatrix(pk, a) ==
  [r \in Indices(N) |-> [c \in Indices(N) |->
     IF r < V /\ c < V THEN pk.p1[a][r][c]
     ELSE IF r < V THEN pk.p2[a][r][c - V]
     ELSE IF c < V THEN 0
     ELSE pk.p3[a][r - V][c - V]]]

(* Block (i, j) of form G_a: E^ell mixes the equations, a diagonal block is
   the upper form of M_b, an off-diagonal one its symmetrisation. *)
WhippedForms(pk) ==
  LET full == [b \in Equations |-> FullMatrix(pk, b)]
      sym == [b \in Equations |-> Symmetrized(full[b])]
      e == [pair \in Pairs |-> [b \in Equations |->
              MulZPow([a \in Equations |-> IF a = b THEN 1 ELSE 0],
                      Ell(pair[1], pair[2]))]]
      block(i, j, b, r, c) ==
        IF i # j THEN sym[b][r][c]
        ELSE IF r = c THEN full[b][r][r] ELSE IF r < c THEN sym[b][r][c] ELSE 0
  IN [a \in Equations |-> [pair \in Pairs |->
        [r \in Indices(N) |-> [c \in Indices(N) |->
           GFSum(M, LAMBDA b :
             e[pair][b][a] ** block(pair[1], pair[2], b, r, c))]]]]

FormValue(form, s) ==
  FoldSet(LAMBDA pair, sum : sum ++ Dot(s[pair[1]], MulVec(form[pair], s[pair[2]])),
          0, Pairs)
-----------------------------------------------------------------------------
(***************************************************************************)
(* spre: one attempt with vinegar values and the solver's random vector.   *)
(***************************************************************************)

(* The quadratic values of the vinegar part, on the right-hand side. *)
RightSide(sk, t, vinegar) ==
  LET w == [a \in Equations |-> [j \in Blocks |-> MulVec(sk.p1[a], vinegar[j])]]
      U(i, j) == [a \in Equations |->
        IF i = j THEN Dot(vinegar[i], w[a][i])
        ELSE Dot(vinegar[i], w[a][j]) ++ Dot(vinegar[j], w[a][i])]
  IN VecAdd(t, WhippedSum(U))

(* Mutant: the block of the second vector of a pair is forgotten. *)
OilBlockOneSided(mats, i, c) ==
  FoldSet(LAMBDA j, sum : VecAdd(sum, MulZPow(Column(mats[j], c), Ell(i, j))),
          Zero, {j \in Blocks : i <= j})

(* Column c of the block of A for oil vector i: add_shifted_block from
   every pair that i occurs in. *)
OilBlock(mats, i, c) ==
  FoldSet(LAMBDA j, sum :
            VecAdd(sum, MulZPow(Column(mats[j], c), IF i <= j THEN Ell(i, j) ELSE Ell(j, i))),
          Zero, Blocks)

System(sk, vinegar) ==
  LET mats == [i \in Blocks |-> [a \in Equations |-> VecMul(vinegar[i], sk.l[a])]]
      columns == [n \in Indices(K * O) |-> OilBlock(mats, n \div O, n % O)]
  IN [b \in Equations |-> [n \in Indices(K * O) |-> columns[n][b]]]

(* s_i = (v_i + O x_i) || x_i. *)
Assembled(sk, vinegar, x) ==
  [i \in Blocks |->
     LET xi == [c \in Indices(O) |-> x[i * O + c]]
         ox == MulVec(sk.o, xi)
     IN [n \in Indices(N) |-> IF n < V THEN vinegar[i][n] ++ ox[n] ELSE xi[n - V]]]

Attempt(sk, t, vinegar, r) ==
  LET x == SampleSolution(System(sk, vinegar), RightSide(sk, t, vinegar), r)
  IN IF x = None THEN None ELSE Assembled(sk, vinegar, x)
=============================================================================
