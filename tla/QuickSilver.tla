----------------------------- MODULE QuickSilver ----------------------------
(***************************************************************************)
(* The circuit backends of voleith/src/backend.rs and the batched check of *)
(* proof.rs.  A circuit is any sequence of backend calls.  The code runs   *)
(* it three times, over values and tags (prover), over keys (verifier) and *)
(* over degrees (counter); here every call is executed on all three at     *)
(* once, and on the keys for every Delta that the verifier may draw.       *)
(*                                                                         *)
(* F is the tag field, of characteristic two; bits are its Zero and One.   *)
(* The VOLE correlations key = tag + u Delta are given (VoleCommitment).   *)
(***************************************************************************)
EXTENDS Integers, Sequences, SequencesExt, FiniteSets

CONSTANTS
  F, Plus(_, _), Times(_, _), Zero, One,
  MAX_DEGREE,   (* Largest degree of an expression, 16 in the code.         *)
  Voles,        (* Correlations: sequences of records of u and tag.         *)
  Witnesses,    (* Sequences of bits, as long as those.                     *)
  Scalars,      (* Public constants that circuits use.                      *)
  Coefficients, (* Coefficient vectors of a term of a quadratic system.     *)
  Streams,      (* Challenge streams: sequences over F.                     *)
  Masks,        (* Masks: sequences of records of value and tag.            *)
  Forgeries,    (* Coefficients that a cheating prover publishes.           *)
  MaxWires, MaxExprs, MaxConstraints   (* Bounds of the circuit.            *)

ASSUME FieldAssumption ==
  /\ Zero \in F /\ One \in F
  /\ \A x, y \in F :
       /\ Plus(x, y) \in F /\ Times(x, y) \in F
       /\ Plus(x, y) = Plus(y, x) /\ Times(x, y) = Times(y, x)
  /\ \A x, y, z \in F :
       /\ Plus(Plus(x, y), z) = Plus(x, Plus(y, z))
       /\ Times(Times(x, y), z) = Times(x, Times(y, z))
       /\ Times(x, Plus(y, z)) = Plus(Times(x, y), Times(x, z))
  /\ \A x \in F :
       /\ Plus(x, Zero) = x /\ Plus(x, x) = Zero
       /\ Times(x, Zero) = Zero /\ Times(x, One) = x
  /\ \A x, y \in F : Times(x, y) = Zero => x = Zero \/ y = Zero

ASSUME InputsAssumption ==
  /\ \A v \in Voles : v \in Seq([u : {Zero, One}, tag : F])
  /\ \A w \in Witnesses : w \in Seq({Zero, One})
  /\ Scalars \subseteq F
  /\ Coefficients \cup Streams \cup Forgeries \subseteq Seq(F)
  /\ Masks \subseteq Seq([value : F, tag : F])
  /\ MAX_DEGREE \in Nat \ {0, 1}

VARIABLES
  vole, witness,
  d,            (* Published corrections of the witness bits read so far.   *)
  wires,        (* Set of records of value, tag, and key for every Delta.   *)
  exprs,        (* Set of records of coefficients, evaluation at any Delta. *)
  constraints,  (* Recorded constraints, in order.                          *)
  phase,        (* "build", "refused", "unsatisfiable" or "proved".         *)
  proof         (* Coefficients, and the stream and masks they are for.     *)

vars == <<vole, witness, d, wires, exprs, constraints, phase, proof>>
circuit == <<vole, witness, d, wires, exprs, constraints>>

SumOf(n, f) ==
  LET upTo[k \in 0 .. n] == IF k = 0 THEN Zero ELSE Plus(upTo[k - 1], f[k])
  IN upTo[n]

Weighted(n, w, f) == SumOf(n, [k \in 1 .. n |-> Times(w[k], f[k])])

Power(x, n) ==
  LET p[k \in 0 .. n] == IF k = 0 THEN One ELSE Times(p[k - 1], x)
  IN p[n]

Evaluate(coefficients, x) ==
  LET n == Len(coefficients)
  IN SumOf(n, [k \in 1 .. n |-> Times(coefficients[k], Power(x, k - 1))])

(* Coefficients moved up so that there are n of them. *)
Aligned(coefficients, n) ==
  LET shift == n - Len(coefficients)
  IN [k \in 1 .. n |-> IF k <= shift THEN Zero ELSE coefficients[k - shift]]

Larger(m, n) == IF m > n THEN m ELSE n
Degree(expr) == Len(expr.coefficients) - 1
-----------------------------------------------------------------------------
Init ==
  /\ vole \in Voles
  /\ witness \in {w \in Witnesses : Len(w) = Len(vole)}
  /\ d = <<>>
  /\ wires = {}
  /\ exprs = {}
  /\ constraints = <<>>
  /\ phase = "build"
  /\ proof = <<>>

Building == phase = "build"
NewWire(wire) ==
  /\ Building /\ Cardinality(wires) < MaxWires
  /\ wires' = wires \cup {wire}
NewExpr(expr) ==
  /\ Building /\ Cardinality(exprs) < MaxExprs
  /\ exprs' = exprs \cup {expr}
  /\ UNCHANGED <<vole, witness, d, wires, constraints, phase, proof>>
NewConstraint(constraint) ==
  /\ Building /\ Len(constraints) < MaxConstraints
  /\ constraints' = Append(constraints, constraint)
  /\ UNCHANGED <<vole, witness, d, wires, exprs, phase, proof>>

(* d = u + w goes into the proof, and the verifier adds d Delta to its key. *)
WitnessBit ==
  LET t == Len(d) + 1
  IN /\ t <= Len(witness)
     /\ LET correction == Plus(vole[t].u, witness[t])
        IN /\ d' = Append(d, correction)
           /\ NewWire([value |-> witness[t], tag |-> vole[t].tag,
                key |-> [delta \in F |->
                  Plus(Plus(vole[t].tag, Times(vole[t].u, delta)),
                       Times(correction, delta))]])
     /\ UNCHANGED <<vole, witness, exprs, constraints, phase, proof>>

Constant(c) ==
  /\ NewWire([value |-> c, tag |-> Zero, key |-> [delta \in F |-> Times(c, delta)]])
  /\ UNCHANGED <<vole, witness, d, exprs, constraints, phase, proof>>

Add(a, b) ==
  /\ NewWire([value |-> Plus(a.value, b.value), tag |-> Plus(a.tag, b.tag),
              key |-> [delta \in F |-> Plus(a.key[delta], b.key[delta])]])
  /\ UNCHANGED <<vole, witness, d, exprs, constraints, phase, proof>>

Scale(c, a) ==
  /\ NewWire([value |-> Times(c, a.value), tag |-> Times(c, a.tag),
              key |-> [delta \in F |-> Times(c, a.key[delta])]])
  /\ UNCHANGED <<vole, witness, d, exprs, constraints, phase, proof>>

WireExpr(a) ==
  NewExpr([coefficients |-> <<a.tag, a.value>>, evaluation |-> a.key])

(* Mutant: the lower degree is not aligned on the verifier's side. *)
AlignedEvaluationAsIs(expr, degree) == [delta \in F |-> expr.evaluation[delta]]

AlignedEvaluation(expr, degree) ==
  [delta \in F |-> Times(expr.evaluation[delta], Power(delta, degree - Degree(expr)))]

ExprAdd(a, b) ==
  LET degree == Larger(Degree(a), Degree(b))
      p == Aligned(a.coefficients, degree + 1)
      q == Aligned(b.coefficients, degree + 1)
  IN NewExpr(
       [coefficients |-> [k \in 1 .. degree + 1 |-> Plus(p[k], q[k])],
        evaluation |-> [delta \in F |->
          Plus(AlignedEvaluation(a, degree)[delta], AlignedEvaluation(b, degree)[delta])]])

ExprMul(a, b) ==
  LET p == a.coefficients
      q == b.coefficients
      Term(k, i) == IF k + 1 - i \in 1 .. Len(q) THEN Times(p[i], q[k + 1 - i]) ELSE Zero
  IN /\ Degree(a) + Degree(b) <= MAX_DEGREE
     /\ NewExpr(
          [coefficients |-> [k \in 1 .. Degree(a) + Degree(b) + 1 |->
                               SumOf(Len(p), [i \in 1 .. Len(p) |-> Term(k, i)])],
           evaluation |-> [delta \in F |-> Times(a.evaluation[delta], b.evaluation[delta])]])

(* The counting pass rejects the circuit on both sides. *)
ExprMulTooHigh(a, b) ==
  /\ Building
  /\ Degree(a) + Degree(b) > MAX_DEGREE
  /\ phase' = "refused"
  /\ UNCHANGED <<circuit, proof>>
-----------------------------------------------------------------------------
(***************************************************************************)
(* A constraint has the coefficients that the prover folds in, the value   *)
(* that it claims to be zero and omits, and the verifier's check.          *)
(***************************************************************************)
Simple(published, error, check) ==
  [kind |-> "simple", published |-> published, error |-> error, check |-> check]

(* Mutant: the linear relation is checked in degree one, where the prover's
   coefficients leave nothing out. *)
ZeroConstraintLinear(a) == Simple(<<a.tag, a.value>>, a.value, a.key)

ZeroConstraint(a) ==
  Simple(<<Zero, a.tag>>, a.value, [delta \in F |-> Times(delta, a.key[delta])])

AssertZero(a) == NewConstraint(ZeroConstraint(a))

MulConstraint(a, b, c) ==
  Simple(
    <<Times(a.tag, b.tag),
      Plus(Plus(Times(a.value, b.tag), Times(b.value, a.tag)), c.tag)>>,
    Plus(Times(a.value, b.value), c.value),
    [delta \in F |-> Plus(Times(a.key[delta], b.key[delta]), Times(delta, c.key[delta]))])

AssertMul(a, b, c) == NewConstraint(MulConstraint(a, b, c))

AssertExprZero(expr) ==
  NewConstraint(Simple(Front(expr.coefficients), Last(expr.coefficients), expr.evaluation))

(* Terms are records of two wires and a coefficient per equation. *)
AssertQuadSystem(terms, linear) ==
  /\ \A t \in DOMAIN terms : Len(terms[t].coefficients) = Len(linear)
  /\ NewConstraint([kind |-> "system", terms |-> terms, linear |-> linear])

(* fold: the equations are summed up with challenges phi. *)
Folded(system, phi) ==
  LET n == Len(system.terms)
      m == Len(system.linear)
      c == [t \in 1 .. n |-> Weighted(m, phi, system.terms[t].coefficients)]
      A(t) == system.terms[t].a
      B(t) == system.terms[t].b
      Product(f) == Weighted(n, c, f)
      Linear(f) == Weighted(m, phi, f)
      L(e) == system.linear[e]
  IN Simple(
       <<Product([t \in 1 .. n |-> Times(A(t).tag, B(t).tag)]),
         Plus(Product([t \in 1 .. n |->
                Plus(Times(A(t).value, B(t).tag), Times(B(t).value, A(t).tag))]),
              Linear([e \in 1 .. m |-> L(e).tag]))>>,
       Plus(Product([t \in 1 .. n |-> Times(A(t).value, B(t).value)]),
            Linear([e \in 1 .. m |-> L(e).value])),
       [delta \in F |->
          Plus(Product([t \in 1 .. n |-> Times(A(t).key[delta], B(t).key[delta])]),
               Times(delta, Linear([e \in 1 .. m |-> L(e).key[delta]])))])

IsSystem(k) == constraints[k].kind = "system"

(* Challenges that constraint k takes from the stream: one per equation of
   a system, then one for the batch. *)
Draws(k) == IF IsSystem(k) THEN Len(constraints[k].linear) + 1 ELSE 1
Position(k) ==
  LET before[j \in 0 .. k - 1] == IF j = 0 THEN 0 ELSE before[j - 1] + Draws(j)
  IN before[k - 1]

Phi(k, stream) == SubSeq(stream, Position(k) + 1, Position(k) + Draws(k) - 1)
Chi(k, stream) == stream[Position(k) + Draws(k)]

(* The sum of the values f of the constraints, each with its challenge. *)
Batched(stream, f) ==
  Weighted(Len(constraints), [k \in 1 .. Len(constraints) |-> Chi(k, stream)], f)

Resolved(k, stream) ==
  IF IsSystem(k) THEN Folded(constraints[k], Phi(k, stream)) ELSE constraints[k]

ConstraintDegree(c) == Len(c.published)
CountedDegree(k) == IF IsSystem(k) THEN 2 ELSE ConstraintDegree(constraints[k])
MaxDegree ==
  LET upTo[k \in 0 .. Len(constraints)] ==
        IF k = 0 THEN 2 ELSE Larger(upTo[k - 1], CountedDegree(k))
  IN upTo[Len(constraints)]
-----------------------------------------------------------------------------
(***************************************************************************)
(* prove and verify, after the corrections and commitments are fixed.      *)
(***************************************************************************)
Satisfied(k) == ~IsSystem(k) => constraints[k].error = Zero

(* Mask j: its tag in coefficient j, its value in the next one. *)
MaskCoefficient(masks, i) ==
  Plus(IF i < MaxDegree THEN masks[i].tag ELSE Zero,
       IF i > 1 THEN masks[i - 1].value ELSE Zero)

ProvedCoefficients(stream, masks) ==
  [i \in 1 .. MaxDegree |->
     Plus(MaskCoefficient(masks, i),
          Batched(stream, [k \in 1 .. Len(constraints) |->
                             Aligned(Resolved(k, stream).published, MaxDegree)[i]]))]

CircuitBuilt == phase = "build" /\ Len(d) = Len(witness)

(* The stream goes on for as long as challenges are drawn, and the extended
   VOLEs hold a mask for every degree below the largest. *)
Supplied(stream, masks) ==
  /\ Position(Len(constraints) + 1) <= Len(stream)
  /\ MaxDegree - 1 <= Len(masks)

(* The circuit does not read the whole witness: WitnessMismatch. *)
RefuseMismatch ==
  /\ phase = "build" /\ Len(d) # Len(witness)
  /\ phase' = "refused"
  /\ UNCHANGED <<circuit, proof>>

Prove(stream, masks) ==
  /\ CircuitBuilt /\ Supplied(stream, masks)
  /\ IF \A k \in DOMAIN constraints :
          Satisfied(k) /\ Resolved(k, stream).error = Zero
     THEN /\ phase' = "proved"
          /\ proof' = [coefficients |-> ProvedCoefficients(stream, masks),
                       stream |-> stream, masks |-> masks, honest |-> TRUE]
     ELSE phase' = "unsatisfiable" /\ UNCHANGED proof
  /\ UNCHANGED circuit

(* A prover that publishes other coefficients for the same commitments. *)
Forge(stream, masks, offset) ==
  /\ CircuitBuilt /\ Supplied(stream, masks)
  /\ phase' = "proved"
  /\ proof' = [coefficients |-> [i \in 1 .. MaxDegree |->
                  Plus(ProvedCoefficients(stream, masks)[i], Aligned(offset, MaxDegree)[i])],
               stream |-> stream, masks |-> masks, honest |-> FALSE]
  /\ UNCHANGED circuit

(* Mutant: a check is added to the batch at its own degree. *)
CheckedAtOwnDegree(k, delta) == Resolved(k, proof.stream).check[delta]

(* The verifier's value of a check, moved up to the degree of the batch. *)
CheckedAt(k, delta) ==
  LET c == Resolved(k, proof.stream)
  IN Times(c.check[delta], Power(delta, MaxDegree - ConstraintDegree(c)))

Verifies(delta) ==
  LET maskKey(j) == Plus(proof.masks[j].tag, Times(proof.masks[j].value, delta))
      masked == SumOf(MaxDegree - 1,
                  [j \in 1 .. MaxDegree - 1 |-> Times(maskKey(j), Power(delta, j - 1))])
      checks == Batched(proof.stream, [k \in 1 .. Len(constraints) |-> CheckedAt(k, delta)])
  IN Plus(masked, checks) = Evaluate(proof.coefficients, delta)

Next ==
  \/ WitnessBit
  \/ \E c \in Scalars : Constant(c)
  \/ \E a, b \in wires : Add(a, b)
  \/ \E c \in Scalars, a \in wires : Scale(c, a)
  \/ \E a \in wires : WireExpr(a)
  \/ \E a, b \in exprs : ExprAdd(a, b)
  \/ \E a, b \in exprs : ExprMul(a, b)
  \/ \E a, b \in exprs : ExprMulTooHigh(a, b)
  \/ \E a \in wires : AssertZero(a)
  \/ \E a, b, c \in wires : AssertMul(a, b, c)
  \/ \E expr \in exprs : AssertExprZero(expr)
  \/ \E a, b, c \in wires, v \in Coefficients :
       AssertQuadSystem(<<[a |-> a, b |-> b, coefficients |-> v]>>, [e \in DOMAIN v |-> c])
  \/ RefuseMismatch
  \/ \E stream \in Streams, masks \in Masks : Prove(stream, masks)
  \/ \E stream \in Streams, masks \in Masks, offset \in Forgeries :
       Forge(stream, masks, offset)

Spec == Init /\ [][Next]_vars
-----------------------------------------------------------------------------
(* What the prover holds is what the verifier evaluates at Delta, after any
   circuit and for every Delta: key = tag + value Delta for wires, and the
   polynomial of an expression has the counted degree (backend.rs, "the
   invariant ... is preserved by every operation"). *)
WireKeysMatch ==
  \A a \in wires, delta \in F : a.key[delta] = Plus(a.tag, Times(a.value, delta))

KeysMatch ==
  /\ WireKeysMatch
  /\ \A expr \in exprs, delta \in F :
       expr.evaluation[delta] = Evaluate(expr.coefficients, delta)

(* A proof of a satisfied circuit verifies at every Delta, however simple
   constraints, systems and polynomials of different degrees are mixed in
   the batch with the masks (proof.rs prove, verify). *)
HonestProofsVerify ==
  phase = "proved" /\ proof.honest => \A delta \in F : Verifies(delta)

BatchedError ==
  Batched(proof.stream, [k \in 1 .. Len(constraints) |-> Resolved(k, proof.stream).error])

(* If the batched constraint values do not cancel, no published
   coefficients pass for more than degree many Delta, zero included: a
   linear relation is as binding as a product (proof.rs, the tests of false
   assertions). *)
FalseProofsFail ==
  phase = "proved" /\ BatchedError # Zero =>
    Cardinality({delta \in F : Verifies(delta)}) <= MaxDegree
=============================================================================
