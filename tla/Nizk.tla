-------------------------------- MODULE Nizk --------------------------------
(***************************************************************************)
(* The non-interactive proof: prove_impl and verify of voleith/src/proof.rs *)
(* with the transcript of voleith/src/transcript.rs and the parameters of   *)
(* vole.rs.  Provers publish proofs; a proof is damaged or assembled from  *)
(* parts of others in any shape the decoder lets through; the verifier may *)
(* be asked about it under any parameters, public input and circuit.       *)
(*                                                                         *)
(* Symbolic: a hash is the sequence of what was absorbed, and a component  *)
(* of a proof is named by the run of the prover that made it and by its    *)
(* place in it.  What the components are numerically is modelled in        *)
(* VoleCommitment (openings, keys), ConsistencyHash and QuickSilver; here  *)
(* each check accepts exactly the components one run made for the          *)
(* challenge the verifier derives.                                         *)
(***************************************************************************)
EXTENDS Integers, Sequences, SequencesExt, FiniteSets

CONSTANTS
  SecurityBits,   (* The only supported lambda, 128.                        *)
  MaxTrees,       (* Largest tau, 128.                                      *)
  MaxTreeDepth,   (* Largest k, 24.                                         *)
  MAX_DEGREE,     (* Largest degree of an expression, 16.                   *)
  Geometries,     (* Parameters callers pass: records of tau and k.         *)
  Publics,        (* Public inputs.                                         *)
  Circuits,       (* Circuits: sequences of backend calls.                  *)
  MaxRuns,        (* How many proofs are made.                              *)
  MaxAlterations  (* How often a proof is altered.                          *)

ASSUME BoundsAssumption == {SecurityBits, MAX_DEGREE, MaxRuns} \subseteq Nat \ {0}

(* Params::validate. *)
Lambda(params) == params.tau * params.k
Valid(params) ==
  /\ params.tau \in 1 .. MaxTrees
  /\ params.k \in 1 .. MaxTreeDepth
  /\ Lambda(params) = SecurityBits

-----------------------------------------------------------------------------
(* Circuits and CountingBackend.  Every call that makes an expression adds  *)
(* its degree to `degrees`; later calls name expressions by their place.    *)

Larger(m, n) == IF m > n THEN m ELSE n

NoCounts == [bits |-> 0, degrees |-> <<>>, constraints |-> 0,
             maxDegree |-> 0, maxBuilt |-> 0]

CountCall(c, call) ==
  CASE call.op = "witness_bit" ->
         [c EXCEPT !.bits = @ + 1, !.degrees = Append(@, 1)]
    [] call.op = "expr_mul" ->
         LET degree == c.degrees[call.a] + c.degrees[call.b]
         IN  [c EXCEPT !.degrees = Append(@, degree), !.maxBuilt = Larger(@, degree)]
    [] call.op = "expr_add" ->
         [c EXCEPT !.degrees = Append(@, Larger(c.degrees[call.a], c.degrees[call.b]))]
    [] call.op = "assert_expr_zero" ->
         [c EXCEPT !.constraints = @ + 1, !.maxDegree = Larger(@, c.degrees[call.a])]
    [] call.op = "assert_mul" ->
         [c EXCEPT !.constraints = @ + 1, !.maxDegree = Larger(@, 2)]

Count == [circuit \in Circuits |-> FoldLeft(CountCall, NoCounts, circuit)]

(* Parameters and counts are usize, and calls name expressions that exist. *)
ASSUME UsizeAssumption ==
  /\ Geometries \subseteq [tau : Nat, k : Nat]
  /\ \A circuit \in Circuits :
       Count[circuit] \in [bits : Nat, degrees : Seq(Nat), constraints : Nat,
                          maxDegree : Nat, maxBuilt : Nat]

WitnessLength(circuit) == Count[circuit].bits
MaxDegree(circuit) == Larger(Count[circuit].maxDegree, 2)
ExtendedLength(params, circuit) ==
  WitnessLength(circuit) + MaxDegree(circuit) * Lambda(params)

(* Mutant: only the degrees of asserted expressions are looked at. *)
AdmittedByAssertions(circuit) ==
  WitnessLength(circuit) > 0 /\ MaxDegree(circuit) <= MAX_DEGREE

(* The checks both sides make before any cryptography. *)
ProverAdmits(circuit) ==
  /\ WitnessLength(circuit) > 0
  /\ MaxDegree(circuit) <= MAX_DEGREE /\ Count[circuit].maxBuilt <= MAX_DEGREE
VerifierAdmits(circuit) ==
  /\ WitnessLength(circuit) > 0
  /\ MaxDegree(circuit) <= MAX_DEGREE /\ Count[circuit].maxBuilt <= MAX_DEGREE

(* ProverBackend::expr_mul asserts that the product fits its inline storage. *)
ExpressionsFit(circuit) == Count[circuit].maxBuilt <= MAX_DEGREE

-----------------------------------------------------------------------------
(* The transcript.                                                         *)

Entry(op, label, data) == [op |-> op, label |-> label, data |-> data]
Absorb(tr, label, data) == Append(tr, Entry("absorb", label, data))
AbsorbEach(tr, label, items) ==
  tr \o [j \in 1 .. Len(items) |-> Entry("absorb", label, items[j])]
Challenge(tr, label) == Append(tr, Entry("challenge", label, <<>>))
Ratchet(tr, label) == Append(tr, Entry("ratchet", label, <<>>))

(* A bit vector is named by run and tree; its bytes do not show its length. *)
CeilDiv(a, b) == (a + b - 1) \div b
AsBytes(bits) == Append(bits.id, CeilDiv(bits.len, 8))

(* A statement as one side sees it. *)
Dims(params, circuit) ==
  <<params.tau, params.k, WitnessLength(circuit), MaxDegree(circuit)>>

(* Mutant: the public input is not absorbed. *)
PrologueWithoutPublic(public, params, circuit, proof) ==
  LET salted == Absorb(Absorb(<<>>, "dims", Dims(params, circuit)), "salt", <<proof.salt>>)
      committed == AbsorbEach(salted, "com", proof.coms)
      corrected == AbsorbEach(committed, "correction",
                     [j \in 1 .. Len(proof.corrections) |-> AsBytes(proof.corrections[j])])
  IN  Absorb(corrected, "witness-d", AsBytes(proof.d))

(* absorb_prologue. *)
Prologue(public, params, circuit, proof) ==
  LET dims == Absorb(Absorb(<<>>, "public", <<public>>), "dims", Dims(params, circuit))
      committed == AbsorbEach(Absorb(dims, "salt", <<proof.salt>>), "com", proof.coms)
      corrected == AbsorbEach(committed, "correction",
                     [j \in 1 .. Len(proof.corrections) |-> AsBytes(proof.corrections[j])])
  IN  Absorb(corrected, "witness-d", AsBytes(proof.d))

Alpha(public, params, circuit, proof) ==
  Challenge(Prologue(public, params, circuit, proof), "alpha")

(* The state from which chi is drawn, and the one from which Delta is.  The
   elements of a message have one width, so its bytes are the sequence. *)
Consistency(public, params, circuit, proof) ==
  Absorb(Ratchet(Prologue(public, params, circuit, proof), "alpha"),
         "consistency", <<proof.u_tilde>> \o proof.v_tilde)

(* Mutant: the consistency message is absorbed only after chi is drawn. *)
ChiBeforeConsistency(public, params, circuit, proof) ==
  Challenge(Ratchet(Prologue(public, params, circuit, proof), "alpha"), "chi")

Chi(public, params, circuit, proof) ==
  Challenge(Consistency(public, params, circuit, proof), "chi")

Delta(public, params, circuit, proof) ==
  Challenge(Absorb(Ratchet(Consistency(public, params, circuit, proof), "chi"),
                   "quicksilver", proof.qs_coefficients), "delta")

-----------------------------------------------------------------------------
VARIABLES
  runs,         (* The successful runs of provers, in order.                *)
  refused,      (* The statement and outcome of the last unsuccessful run.  *)
  offered,      (* The proof the verifier is asked about.                   *)
  alterations   (* How often it was altered.                                *)

vars == <<runs, refused, offered, alterations>>

NoProof == [salt |-> 0, coms |-> <<>>, corrections |-> <<>>, d |-> [id |-> <<>>, len |-> 0],
            u_tilde |-> 0, v_tilde |-> <<>>, qs_coefficients |-> <<>>, openings |-> <<>>]
NotRefused == [params |-> [tau |-> 0, k |-> 0], circuit |-> <<>>, outcome |-> "none"]

(* What run r publishes. *)
ProofOf(r, params, circuit) ==
  [salt |-> r,
   coms |-> [j \in 1 .. params.tau |-> <<r, j>>],
   corrections |-> [j \in 1 .. params.tau - 1 |->
                      [id |-> <<r, j + 1>>, len |-> ExtendedLength(params, circuit)]],
   d |-> [id |-> <<r, 0>>, len |-> WitnessLength(circuit)],
   u_tilde |-> r,
   v_tilde |-> [row \in 1 .. Lambda(params) |-> <<r, row>>],
   qs_coefficients |-> [i \in 1 .. MaxDegree(circuit) |-> <<r, i>>],
   openings |-> [j \in 1 .. params.tau |-> [id |-> <<r, j>>, siblings |-> params.k]]]

(* How prove_impl ends, for a witness of that length that does or does not
   satisfy the circuit. *)
ProverOutcome(params, circuit, length, satisfies, enforce) ==
  IF ~Valid(params) \/ ~ProverAdmits(circuit) THEN "InvalidParameters"
  ELSE IF length # WitnessLength(circuit) THEN "WitnessMismatch"
  ELSE IF ~ExpressionsFit(circuit) THEN "panic"
  ELSE IF enforce /\ ~satisfies THEN "Unsatisfiable"
  ELSE "proof"

Prove(params, public, circuit, length, satisfies, enforce) ==
  LET outcome == ProverOutcome(params, circuit, length, satisfies, enforce) IN
  /\ Len(runs) < MaxRuns
  /\ offered = NoProof
  /\ IF outcome = "proof"
     THEN /\ runs' = Append(runs, [params |-> params, public |-> public, circuit |-> circuit,
                                   satisfies |-> satisfies,
                                   proof |-> ProofOf(Len(runs) + 1, params, circuit)])
          /\ refused' = NotRefused
     ELSE /\ refused' = [params |-> params, circuit |-> circuit, outcome |-> outcome]
          /\ UNCHANGED runs
  /\ UNCHANGED <<offered, alterations>>

Offer(r) ==
  /\ offered = NoProof
  /\ offered' = runs[r].proof
  /\ refused' = NotRefused
  /\ UNCHANGED <<runs, alterations>>

-----------------------------------------------------------------------------
(* Alterations between prover and verifier: a component of another proof, a *)
(* list that is shorter, longer or in another order, a bit vector of        *)
(* another length with the same bits.                                       *)

Lists == {"coms", "corrections", "v_tilde", "qs_coefficients", "openings"}

Alter(proof) ==
  /\ offered # NoProof
  /\ alterations < MaxAlterations
  /\ proof # offered
  /\ offered' = proof
  /\ alterations' = alterations + 1
  /\ UNCHANGED <<runs, refused>>

Exchange(f, r) == Alter([offered EXCEPT ![f] = runs[r].proof[f]])
Shorten(f) == offered[f] # <<>> /\ Alter([offered EXCEPT ![f] = Front(@)])
Lengthen(f) == offered[f] # <<>> /\ Alter([offered EXCEPT ![f] = Append(@, Last(@))])
Reorder(f) == Alter([offered EXCEPT ![f] = Reverse(@)])
ResizeWitness(n) == Alter([offered EXCEPT !.d.len = n])
ResizeCorrection(j, n) == Alter([offered EXCEPT !.corrections[j].len = n])
ShortenOpening(j) == Alter([offered EXCEPT !.openings[j].siblings = @ - 1])

Alterations ==
  \/ \E f \in DOMAIN NoProof, r \in DOMAIN runs : Exchange(f, r)
  \/ \E f \in Lists : Shorten(f)
  \/ \E f \in Lists : Lengthen(f)
  \/ \E f \in Lists : Reorder(f)
  \/ \E n \in {offered.d.len - 1, offered.d.len + 1} : ResizeWitness(n)
  \/ \E j \in DOMAIN offered.corrections :
       \E n \in {offered.corrections[j].len - 1, offered.corrections[j].len + 1} :
         ResizeCorrection(j, n)
  \/ \E j \in DOMAIN offered.openings : ShortenOpening(j)

-----------------------------------------------------------------------------
(* The verifier.                                                           *)

(* Mutant: the number of consistency rows is not compared. *)
ShapeWithoutRows(params, circuit, proof) ==
  /\ proof.d.len = WitnessLength(circuit)
  /\ Len(proof.coms) = params.tau
  /\ Len(proof.corrections) = params.tau - 1
  /\ Len(proof.openings) = params.tau
  /\ Len(proof.qs_coefficients) = MaxDegree(circuit)
  /\ \A j \in DOMAIN proof.corrections :
       proof.corrections[j].len = ExtendedLength(params, circuit)

ShapeValid(params, circuit, proof) ==
  /\ proof.d.len = WitnessLength(circuit)
  /\ Len(proof.coms) = params.tau
  /\ Len(proof.corrections) = params.tau - 1
  /\ Len(proof.openings) = params.tau
  /\ Len(proof.v_tilde) = Lambda(params)
  /\ Len(proof.qs_coefficients) = MaxDegree(circuit)
  /\ \A j \in DOMAIN proof.corrections :
       proof.corrections[j].len = ExtendedLength(params, circuit)

(* The run whose salt the proof carries, and its challenges. *)
RunOf(proof) == runs[proof.salt]
RunAlpha(r) == Alpha(r.public, r.params, r.circuit, r.proof)
RunChi(r) == Chi(r.public, r.params, r.circuit, r.proof)
RunDelta(r) == Delta(r.public, r.params, r.circuit, r.proof)

(* reconstruct_keys: each tree is opened as committed.  Under another Delta
   an opening still passes if the tree's few bits of it happen to agree. *)
OpeningsVerify(params, proof, delta, agree) ==
  LET r == RunOf(proof) IN
  \A j \in 1 .. params.tau :
    /\ proof.openings[j] = [id |-> <<proof.salt, j>>, siblings |-> params.k]
    /\ proof.coms[j] = <<proof.salt, j>>
    /\ r.params.k = params.k
    /\ delta = RunDelta(r) \/ agree

(* A row of the consistency check holds for what the run itself hashed. *)
RowHolds(proof, alpha, row) ==
  LET r == RunOf(proof) IN
  /\ alpha = RunAlpha(r)
  /\ proof.coms = r.proof.coms /\ proof.corrections = r.proof.corrections
  /\ proof.u_tilde = proof.salt /\ proof.v_tilde[row] = <<proof.salt, row>>

(* The final check: the run's own coefficients for a circuit that its witness
   satisfies.  Of the circuit the transcript has only the dimensions, so the
   verifier may check another one of those over the run's keys; when its
   batched coefficients come out the same the committed witness `fits` it. *)
WitnessFits(circuit, r, fits) == IF circuit = r.circuit THEN r.satisfies ELSE fits
QuickSilverHolds(circuit, proof, chi, fits) ==
  LET r == RunOf(proof) IN
  /\ chi = RunChi(r)
  /\ WitnessFits(circuit, r, fits)
  /\ proof.d = r.proof.d /\ proof.qs_coefficients = r.proof.qs_coefficients

Verdict(params, public, circuit, proof, agree, fits) ==
  LET rows == 1 .. Lambda(params)
      alpha == Alpha(public, params, circuit, proof)
      present == {row \in rows : row <= Len(proof.v_tilde)}
  IN
  IF ~Valid(params) \/ ~VerifierAdmits(circuit) THEN "InvalidParameters"
  ELSE IF ~ShapeValid(params, circuit, proof) THEN "InvalidProof"
  ELSE IF ~OpeningsVerify(params, proof, Delta(public, params, circuit, proof), agree)
  THEN "InvalidProof"
  ELSE IF \E row \in present : ~RowHolds(proof, alpha, row) THEN "InvalidProof"
  ELSE IF present # rows THEN "panic"                    (* v_tilde[row] *)
  ELSE IF proof.d.len < WitnessLength(circuit) THEN "panic"  (* d.get(t) *)
  ELSE IF ~QuickSilverHolds(circuit, proof, Chi(public, params, circuit, proof), fits)
  THEN "InvalidProof"
  ELSE "accepted"

-----------------------------------------------------------------------------
Init ==
  /\ runs = <<>>
  /\ refused = NotRefused
  /\ offered = NoProof
  /\ alterations = 0

Next ==
  \/ \E params \in Geometries, public \in Publics, circuit \in Circuits :
       \E length \in {0, WitnessLength(circuit), WitnessLength(circuit) + 1},
          satisfies, enforce \in BOOLEAN :
         Prove(params, public, circuit, length, satisfies, enforce)
  \/ \E r \in DOMAIN runs : Offer(r)
  \/ Alterations

Spec == Init /\ [][Next]_vars

-----------------------------------------------------------------------------
(* Properties.                                                             *)

(* What the verifier is asked about, and how its numerical checks come out where
   neither the run nor the transcript decides them. *)
Statements == [params : Geometries, public : Publics, circuit : Circuits,
               agree : BOOLEAN, fits : BOOLEAN]
VerdictOn(s, proof) == Verdict(s.params, s.public, s.circuit, proof, s.agree, s.fits)

(* A run's public input, parameters and dimensions, as the verifier has them. *)
IsStatementOf(s, r) ==
  s.public = r.public /\ Dims(s.params, s.circuit) = Dims(r.params, r.circuit)

(* Whatever is exchanged, cut, repeated or reordered, and whatever statement
   it is offered for: what is accepted is a proof some prover made, unaltered,
   for exactly that public input, those parameters and dimensions, and its
   committed witness satisfies the circuit that the verifier checks.  That this
   is the prover's circuit is not promised: absorb_prologue binds no more of
   it than its dimensions, the rest is for the public input to name. *)
AcceptedIsIntact ==
  offered # NoProof =>
    \A s \in Statements : VerdictOn(s, offered) = "accepted" =>
      \E n \in DOMAIN runs :
        /\ offered = runs[n].proof /\ IsStatementOf(s, runs[n])
        /\ WitnessFits(s.circuit, runs[n], s.fits)

(* Challenges bind: if a proof of admissible shape has a run's challenge, it
   agrees with the run in everything that must be fixed before that challenge
   is drawn (for alpha the statement and the commitments, for chi the answer to
   alpha too, for Delta all but the openings), lengths that the absorbed bytes
   do not show included (the order of absorbing and drawing in prove_impl and
   verify). *)
PrologueFields == {"salt", "coms", "corrections", "d"}
ChallengesBind ==
  offered # NoProof =>
    \A s \in Statements, n \in DOMAIN runs :
      LET r == runs[n]
          Agree(fields) == \A f \in fields : offered[f] = r.proof[f]
      IN  (Valid(s.params) /\ VerifierAdmits(s.circuit)
            /\ ShapeValid(s.params, s.circuit, offered)) =>
            /\ Alpha(s.public, s.params, s.circuit, offered) = RunAlpha(r) =>
                 s.public = r.public /\ s.params = r.params /\ Agree(PrologueFields)
            /\ Chi(s.public, s.params, s.circuit, offered) = RunChi(r) =>
                 Agree(PrologueFields \cup {"u_tilde", "v_tilde"})
            /\ Delta(s.public, s.params, s.circuit, offered) = RunDelta(r) =>
                 Agree(DOMAIN NoProof \ {"openings"})

(* No proof that can be decoded makes the verifier index out of range, and no
   circuit makes the prover overflow an expression. *)
NeverPanics ==
  /\ refused.outcome # "panic"
  /\ offered # NoProof => \A s \in Statements : VerdictOn(s, offered) # "panic"

(* Both sides agree: every proof of a satisfied circuit is accepted for its own
   statement, and a circuit or a geometry is refused by both or by neither. *)
SidesAgree ==
  /\ \A n \in DOMAIN runs, agree, fits \in BOOLEAN :
       LET r == runs[n]
       IN  r.satisfies =>
             Verdict(r.params, r.public, r.circuit, r.proof, agree, fits) = "accepted"
  /\ refused # NotRefused =>
       \A public \in Publics, agree, fits \in BOOLEAN :
         (Verdict(refused.params, public, refused.circuit, NoProof, agree, fits)
            = "InvalidParameters")
           <=> (refused.outcome = "InvalidParameters")

=============================================================================
