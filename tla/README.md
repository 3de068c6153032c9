# VOLE-ACT: a TLA+ verification project

VOLE-ACT is an anonymous credit system: an issuer signs hidden balances, a
client spends part of a balance by revealing a nullifier and proving the rest
in zero knowledge, and the issuer signs the change, optionally with a return.
This directory models the protocol and the algorithms below it, checks the
models with TLC on small instances and proves theorems about them with TLAPS.
Paths are relative to the repository root (`src/` is the repository).

## 1. The system

| Component | Code | State | Operations |
|---|---|---|---|
| Issuer service | `protocol/issuer.rs` | key, `NullifierStore` | `issue`, `spend`, `spend_with_deferred_return`, `from_key_bytes_with_store` |
| Nullifier store | `protocol/store.rs` | nullifier -> `RetryRecord` | `get`, `insert_if_absent` (linearizable, durable), record codec |
| Wallet, issuance | `protocol/issue.rs`, `public_key.rs` | `PendingIssue` | `prepare_issue`, `finish`, `to_bytes`/`from_bytes`, `verify_token` |
| Wallet, spending | `protocol/spend.rs` | `Token`, `TypedPendingSpend` | `prepare_typed_spend`, `finish` (two modes), `balance`, codecs |
| Wire format | `wire.rs` | none | header, nibble packing, `Decoder` |
| Circuits | `circuit.rs`, `keccak.rs` | constraint lists | issue and spend relations, 64-bit sums, Keccak rounds, message layout |
| MAYO signature | `mayo/src` | secret key | `trapgen`, `spre` (sign), `eval` (verify), linear solver, key codecs |
| VOLE | `voleith/src/vole.rs` | accumulator, trees | `commit`, `open`, `reconstruct_keys`, `split_delta` |
| Vector commitment | `vector-commit/src` | GGM tree | `commit`, `open_all_but_one`, `verify` |
| Proof and QuickSilver | `voleith/src/{proof,backend,transcript}.rs` | transcript | `prove`, `verify`, consistency hash, folding, proof codec |
| Bit kernels | `voleith/src/{bits,vole}.rs` | none | 64- and 128-row transposes, assembly of field elements, packing |
| Binary fields | `binary-fields/src` | none | GF(16) arithmetic and packed reduction, GF(2^128), embedding |

The issuer and the wallets exchange messages through the application; several
issuer processes may share one store. Everything below the protocol is called
synchronously. `Issuer` methods take `&mut self`, so a process runs one call at
a time, and concurrency exists between issuer processes (at the store), between
clients, and between the trees of a VOLE commitment when the `parallel`
feature is on.

What is hard here: two processes that both miss the nullifier lookup and both
sign; crashes between signing, insertion and answer; retries after lost
answers, with the same or another return; a token that backs several competing
requests; a pending state that `finish` consumes even when it fails; amounts at
the edge of u64; and, below the protocol, index arithmetic (tree paths, bit
planes, nibbles, field reduction, pivots), the order in which a transcript
absorbs what its challenges must bind, and decoders of bytes that nobody wrote,
whose errors random tests meet rarely.
`PROJECT.json` lists each hazard at its line with the properties that watch it.

What makes each component correct:

* issuer and store: a nullifier has one record for ever, only the durable
  winner's response leaves, a retry that finds it obtains exactly that and no
  refusal (one whose lookup came before the insertion may be refused for its
  return amount, until it is repeated);
* wallets: a wallet never accepts a token the issuer did not sign, the change
  of a consumed token stays obtainable;
* system: no order of operations creates or destroys credits;
* circuits: the constraints have a witness exactly for true statements;
* MAYO: what is signed evaluates to the target, whatever representation of the
  key is used;
* vector commitment and VOLE: every opened leaf is recomputed, the hidden one
  is not computable, and keys, tags and bits satisfy K = V + uΔ;
* proof system: a proof passes only unaltered, for the statement it was made
  for; prover and verifier admit the same circuits; no decoded shape is indexed
  out of range;
* kernels: every fast path computes what its field or its matrix defines;
* wire: decoding accepts exactly what encoding produces, under no other type,
  and allocates no more than the input justifies.

## 2. Modules

Every module names in its header the files it models; `PROJECT.json` "map"
gives the lines of each definition. MC modules only give constants their values.

| Module | Models | State and actions |
|---|---|---|
| `ActTypes` | values of the protocol: requests, digests, targets, signatures, retry records | none |
| `SpendOnce` | abstract: what the spend service promises, one acceptance per nullifier for ever | `Accept`, `Answer` |
| `SpendIssuer` | `protocol/issuer.rs` over the `NullifierStore` contract | one call in flight per replica (`pc`, `request`, `record`), the durable `store`, everything released (`replies`); a call is cut where it touches the store: `Begin`, `GetHit`/`GetMiss`, `RefuseReturn`, `RefuseProof`, `Sign`, `Insert`, `Respond`, and the failures `GetFails`, `SigningFails`, `InsertFails`, `Crash` |
| `CreditLedger` | abstract: credits as money, each step mints or settles one lineage | `Mint`, `Settle` |
| `CreditSystem` | wallets (`public_key.rs`, `issue.rs`, `spend.rs`) with the issuer, whose spend service is `SpendOnce` | tokens, pending states in memory and on disk, sets of all messages; `PrepareIssue`, `Issue`, `FinishIssue`, `PrepareSpend`, `AcceptSpend`, `AnswerSpend`, `FinishSpend`, `Save`, `Restore`, `Crash` |
| `SeedTree` | `vector-commit`: tree expansion, opening of all leaves but one, reconstruction | operators |
| `VoleCommitment` | `voleith/src/vole.rs`: accumulator, `commit`, `open`, `reconstruct_keys` | one task per tree on both sides, the pending levels of the accumulator, vectors as symmetric differences of symbols |
| `GF16` | `gf16.rs`: products, inverse, packed products on machine words | operators |
| `PackedKernels` | the matrix kernels of `mat.rs` word by word | one kernel call |
| `LinearSolver`, `SolverSteps` | `sample_solution`: elimination on a fixed schedule, one column a step | the augmented matrix, pivots |
| `Mayo`, `MayoSigner` | `scheme.rs`: whipped map, forms, preimage attempts, key codecs; a signer that is restarted and retries | key, attempt counter, signature |
| `BalanceCircuit` | the two 64-bit additions of the spend circuit, for any witness | bits read so far |
| `SpendCircuit` | `circuit.rs` above the backend: the statement of both circuits in the order of its allocations, and what `prepare_spend` computes for it | an honest wallet's `witness` bits and native `request`, or none; the wires allocated so far, cut from that witness or arbitrary; one action per stage (balances, credential, token, signature, nullifier, fresh commitment), the verdict |
| `KeccakCircuit` | `keccak.rs` natively and `circuit.rs` at bit level, with the committed checkpoints | both states, the checkpoints |
| `QuickSilver` | `backend.rs` and the batched check of `proof.rs` | wires and expressions with their values on both sides, recorded constraints, the proof; one action per backend call, `Prove`, `Forge` |
| `Nizk` | `prove` and `verify` of `proof.rs`, `transcript.rs`, `Params`, `CountingBackend`: refusals, shapes, the order of the transcript | proofs made, the proof offered; `Prove`, `Offer`, and the alterations in between |
| `ConsistencyHash` | the wide hash of `proof.rs` over bits and over rows, the verifier's comparison, the mask groups of QuickSilver | both sides of a VOLE, a wrong correction bit, the hash key, the message; `WrongCorrection`, `Send`, `Verify` |
| `TagField` | `gf2p128.rs`, `embed.rs`, `BinaryField::pow`: both multipliers, powers, the search for the embedding | operators, over a word width and a polynomial |
| `TagKernels` | those at 128 bits, the transposes, `assemble`, `fold_coeff` | one call and its answer |
| `MCKernels` | runs `PackedKernels`, `SolverSteps`, `TagKernels` and `ConsistencyHash` side by side, one unit per behaviour | the unit |
| `WireFormat` | `wire.rs`, the `to_bytes`/`from_bytes` of the ten artifacts, the proof and MAYO key codecs, bit vectors | the artifact written and the bytes of a medium; `Write`, and the damage of a medium (`Truncate`, `Overwrite`, `Extend`, `SetByte`) |

How they compose: `SpendIssuer` is shown to implement `SpendOnce`, and
`CreditSystem` INSTANCEs `SpendOnce` as its issuer and is shown to implement
`CreditLedger`. `PackedKernels` and `LinearSolver` extend `GF16`, and
`Mayo` extends `LinearSolver`. `VoleCommitment` uses `SeedTree` for its trees.
`TagKernels` and `ConsistencyHash` extend `TagField`, the one at 128 bits and the
other over GF(4), and `SpendCircuit` extends `BalanceCircuit` and `GF16`.
`QuickSilver` takes the correlations that `VoleCommitment` establishes as a
constant. In `Nizk`, each numerical check of the verifier accepts what one run
of the prover made for the challenge the verifier derives; that the checks do so
is the subject of `VoleCommitment` (openings), `ConsistencyHash` (rows) and
`QuickSilver` (the batch). `CreditSystem` takes what the circuit models
establish, that a spend proof exists exactly for a balanced spend about a signed
credential, as the validity condition of a request.

## 3. Idealisations

* A hash is the tuple of what it absorbs; different inputs have different
  outputs. Domain tags of one crate are distinct, so a tag is a constant of the
  tuple.
* A signature is the target it is a preimage of. `SpendIssuer` keeps
  `SigningFailed` as a possible outcome.
* A proof is the statement it was made for, and verifies for that statement
  only. Clients build requests with the library: no forged messages occur, but
  any request and response of matching types may meet in `finish`.
* In `SpendCircuit`, SHAKE256 is a function of domain and message bits (the
  bit-exact permutation is in `KeccakCircuit`); the instance mixes the bits so
  that different messages seldom meet.
* In `Nizk`, a challenge is the transcript before it. A component of a proof is
  named by its run and place, a bit vector shows the transcript its bytes and
  not its length, and lists are absorbed without their lengths, as in the code.
  A verifier may check another circuit than the prover's: the transcript binds only
  its dimensions, so the final check then passes or not as the committed witness
  happens to fit it, a free choice of the model.
* Widths that are only factors are scaled: a wire format keeps the proportions
  of its lengths, not their values. The shipped parameter sets have even M and
  K * N; the code is generic in them, so odd counts are instances too.
* Randomness that the code relies on never to repeat (openings) is modelled by
  a set of secrets already used; salts may repeat, which is worse than the code.

## 4. Runs

Twelve runs, each a question of its own; each ends within three minutes with
two workers. For every property `PROJECT.json` names a plausible bug (an
operator in the module, marked "Mutant") with which the same run violates it.

| Run | Instance | Why these bounds |
|---|---|---|
| `issuer_safety` | two replicas, two nullifiers, four requests, two salts, amounts 0..2, two faults; symmetric in replicas and salts | two replicas are enough for every race, because calls meet only in the store and each store access is atomic; the first nullifier is claimed three ways (ordinary, deferred, other context); amount 2 makes return < spend, = spend and > spend distinct; two faults allow a failed retry after a crash |
| `issuer_liveness` | two replicas, one nullifier, two conflicting requests that differ in the mode alone, two faults | the competitor can take a replica whenever it is idle; a second nullifier would only add independent calls |
| `credit_value` | three secrets (hence three lineages), amounts 0..2, one salt, one context | a chain issue, spend with change, spend of the change needs three; amount 2 allows partial spends with partial returns and meets `U64Max` on every sum |
| `credit_tokens` | three secrets, two contexts, one salt, amounts 0..1, under fairness | a pending state meets the answer of a competing request and another issuer's key, and recovery has a competitor |
| `vole_correlation` | two trees of depth three, every pair of challenges on both sides | trees are independent, so two show their interleaving; depth three meets each branch of the accumulator (merge at level 0, chains of merges, a hole in the middle) and a path with left and right turns twice |
| `mayo_signer` | m = 3, o = 2, v = 2, k = 3, three keys, 64 vinegar draws, two attempts | k = 3 gives the exponents 0..5 and all orders of pairs; zero vinegars give deficient systems and hence retries |
| `keccak_circuit` | all 24 rounds, real constants, an empty and a 135-byte message, flips in three checkpoints | both ends of the padding; an end-to-end comparison of two implementations on full-size data |
| `quicksilver` | GF(4), up to two wires, three expressions, two constraints, degree up to 3 | two constraints of different degree are needed to see alignment, three expressions to build x, x^2, x^3; a nonzero polynomial of degree 3 cannot vanish on all of GF(4), so soundness is counted exactly |
| `nizk` | lambda 4, degree up to 3, three geometries (one invalid), six circuits, two public inputs (symmetric), two proofs, one alteration | two proofs are needed to mix components; the circuits are one for each way a degree arises (sum, product, gate, never asserted, no witness); one alteration reaches every field, list and length, in either direction |
| `spend_circuit` | three-bit balances with every assignment of base, top-up, effective, fresh and carry wires; M = 3, four variables, six nullifier bits | three bits have a first, a middle and a last carry; M odd makes the last nibble of a packed target stand alone; some entries of the forms are zero, so terms are left out |
| `wire_format` | every artifact type in two parameter sets, one odd and one even; one byte for u32, salt and element, two for u64 and hashes; one damage of any kind, seven byte values | the values are 0, small identifiers, a high nibble, a high bit and all ones, so lengths lie in both directions and each padding bit is hit; a proof holds two of everything that is counted, or nothing |
| `kernels` | packed: words of two lanes, 2 x 3 matrices. Solver: 3 x 4, all zero patterns. Tag field, transposes, assembly, folds: full width. Hash: GF(4), three shapes, eight drawn keys | a row is a word and a half, so words straddle rows; entries 8 and 15 reach every reduction bit; pivots occur in first, later and no row; the bit kernels are linear, so single bits decide them, and products are bilinear, so monomials at the word boundaries are chosen with a few dense words; folds of zero to nine equations meet every remainder of four |

`kernels` joins four units in one run because they share nothing but the bound on
its time: a behaviour picks a unit and the variables of the others stay idle.

What they show:

* `issuer_safety`: `ImplementsSpendOnce` (racing, crashing replicas implement
  the atomic service, so no step replaces or removes a record),
  `ReleasedIsDurable` (losing candidates never leave), `RecordsAreEarned` (each
  record stems from a verified request with its return in range),
  `RefusalsAreJustified` (a nullifier is reported spent, or a request of the wrong
  kind, only to a request that the durable record is not for, and a proof is
  called invalid only when no record was made with it; the wrong-variant arms
  of the code are dead), `RetriesAreReplayed` (a call that looks up, inserts or
  answers while the record of its own request is durable ends, but for a crash
  or a failing store, in the answer of that record, whatever return amount
  it carries; only a duplicate whose lookup missed may still be refused where a
  first call would be), and `TypeOK`.
* `issuer_liveness`: `ConsumedIsAnswered`.
* `credit_value`: `ImplementsLedger`, `ValueConserved` (spendable value, value
  in flight and redeemed value balance what was issued, whatever is re-issued,
  lost or replayed), `AnswersFinish` (the client's own checks never strand the
  change of a consumed token, full refunds included).
* `credit_tokens`: `TokensAreBacked` (a wallet holds only what the issuer
  durably signed), `ChangeIsRecoverable` (a pending spend on disk whose request
  consumed the nullifier yields its change).
* `vole_correlation`: `Correlation` (the streaming sums are exact and keys =
  tags + u Delta, for every interleaving of tree tasks), `ChallengeIsBound`
  (openings for another challenge are rejected), `HiddenLeafOnly` (everything
  but one leaf is recomputed).
* `mayo_signer`: `SignaturesVerify` (under the original key and the one restored
  from its encoding), `WhippedFormsAgree` (the circuit's quadratic forms are
  those of `eval`).
* `keccak_circuit`: `CheckpointsDecide` (exactly the honest checkpoints satisfy
  the constraints), `OutputsAgree` (native and in-circuit target and nullifier
  are the same bits).
* `quicksilver`: `KeysMatch`, `HonestProofsVerify`, `FalseProofsFail` (an
  unsatisfied circuit passes for no more Delta than its degree).
* `nizk`: `AcceptedIsIntact` (what passes is a proof somebody made, offered
  unaltered for its own public input, parameters and circuit dimensions, and its witness
  satisfies the verifier's circuit; that this is the prover's circuit is not
  promised, because the prologue binds only its dimensions), `ChallengesBind`
  (alpha, chi and Delta each fix all that must be fixed before them, lengths that
  the bytes do not show included), `NeverPanics` (no decoded shape is indexed out of range and no
  admitted circuit overflows an expression), `SidesAgree` (honest proofs pass;
  prover and verifier refuse the same circuits).
* `spend_circuit`: `AcceptedBalances` (no wrapping witness), `StatementsHold` (an
  accepted spend is about one credential, signed with its top-up, revealed by
  its own nullifier and continued by the public commitment),
  `HonestSpendVerifies` (no constraint refuses a wallet. Its wires are cut from the
  witness at the places of the allocations, its nullifier, fresh commitment and
  stored signature were computed natively before; what does not fit is
  rejected and nothing waits for the right value, so two fields of one width in
  another order, a missing padding wire of an odd commitment or a wrong carry show).
* `wire_format`: `RoundTrip` (what was written reads back as itself and every
  other reader refuses it by name), `Canonical` (what is accepted has no second
  encoding and no proper prefix that is accepted), `ReservationBounded` (lying
  counts do not make a decoder allocate more than twice the input's size).
* `kernels`: `PackedProductsExact`, `SystemsSolved` (reduced echelon form, same
  solutions, and a solution exactly when the rows are independent),
  `MultipliersAgree` (portable and carry-less product are the remainder of the
  product), `EmbeddingIsHomomorphism`, `TransposesExact`, `FoldsExact`,
  `ConsistencyDecides` (honest VOLEs pass, few keys overlook a deviating one),
  `MasksHide` (no mask bit is used twice).

Runs of programs that end (a commitment, a kernel, a proof) switch the deadlock
check off and say why in the `.cfg`; the issuer and the system never stop, and
there it is on. Bounds in guards: `MaxFaults` (crashes and storage failures, or
damages of a medium), `MaxRuns`, `MaxAlterations`,
`U64Max` (the largest amount; a sum beyond it is the code's overflow),
`MaxAttempts`, `MaxWires`, `MaxExprs`, `MaxConstraints`, and the secrets, which
are used once each and so bound the operations of the wallets.

## 5. Fairness

* `SpendIssuer!FairSpec`: weak fairness of each replica's running call, because
  handlers are synchronous code that nothing in the program can block; strong
  fairness of the retries of an unanswered request, because the documentation
  requires a client to repeat the exact request until it is answered and a
  retry is not refused for ever by an application queue. Crashes and storage
  failures are bounded by `MaxFaults`: with unbounded failures no answer could
  be promised.
* `CreditSystem!FairSpec`: weak fairness of answering what was accepted (the
  previous result) and of restoring a saved pending state; strong fairness of
  finishing it with the answer to its own request. `FinishSpend` with a wrong
  response and `Crash` have no fairness and may destroy the state in memory any
  number of times, so recovery is enabled again and again and never for good,
  hence the strong form.

## 6. Proofs

`SpendIssuerProofs`, from `ContextAssumption`, `RequestsAssumption`,
`U64MaxAssumption`, `MaxFaultsAssumption` and `NoRecordAssumption`, so for any
number of replicas, requests, amounts and faults:

* `TypeCorrect`. `TypeOK` is not inductive: a call that has signed must hold a
  record, which `CallsAreTyped` adds.
* `SafetyInvariant`, the conjunction of the types, of what each call knows
  between two accesses to the store (a candidate is earned by the call's
  request; the record it answers from is the durable one of its nullifier) and
  of the promises. `ReleasedIsDurable` alone is not inductive because `Respond`
  answers from a local variable: the step needs that the variable equals the
  store, which `Insert` and `GetHit` establish and which stays true since no
  step replaces a record (`StoreGrowsStep`).
* `ReleaseAfterPersistence`, `RecordsEarned`, `RefusalsJustified` follow from it, and
  `RecordsAreForever` (`SpentForever`: no step removes or replaces a durable
  record) from `StoreGrowsStep`.
* `RetriesReplayed`: what a call holds after `GetHit` or a lost `Insert` is the
  durable record of its nullifier, so when that was made for the call's own request
  no step from there refuses the call, and the answer it gives is the record's.
* `Refinement`: `Spec => ImplementsSpendOnce`. `Insert` that wins is `Accept`,
  `Respond` that succeeds is `Answer`, all else stutters.

`CreditSystemProofs` and `SumTheorems`, from `OpeningsAssumption`, `NoRecordAssumption` and
`U64MaxAssumption`, so for any number of secrets, salts and contexts, any largest
amount and any sequence of crashes, repeats, misdeliveries and competing spends:

* `WalletInvariant`. Besides the types it says what one part knows of another:
  a pending operation belongs to this context and, when it is a spend, was
  prepared with one request that leaves room for the whole spend to come back
  (`PendingKnown`); a durable record was made for one request about its
  nullifier with a return its mode admits (`RecordsKnown`); an answer is the
  response of the record that its own request made (`AnswersKnown`).
* `TokensBacked`. `TokensAreBacked` alone is not inductive: `FinishSpend` makes a
  token from an answer, so the step needs `AnswersKnown` to find the signature
  among the durable ones, and `RecordsKnown` to know whose it is.
* `AnswersAlwaysFinish`: with an answer to its own request, none of the checks of
  the finish functions refuses a pending spend, and no balance overflows. This is
  where `PendingKnown` is used.

* `ValueIsConserved`. The sums need `SumTheorems` (a sum over a finite set grows
  by the value of a new element and changes by the difference of a changed one),
  and the invariant `ValueInv` needs lineages: every opening belongs to one
  request (`LineageInv`), so that no balance is counted twice however often a
  request is signed or an answer repeated.
* `LedgerImplemented`: `Spec => ImplementsLedger`. An `Issue` of a new opening is
  `Mint`, an `AcceptSpend` that makes a record is `Settle`, all else stutters; that
  these steps add up is `ValueInv` again.

`NizkProofs`, from `BoundsAssumption` and `UsizeAssumption` (parameters and counts
are natural numbers: what `CountingBackend` computes is a fold over a circuit, so
that its counts are natural numbers would need induction), so for every set of
circuits, geometries and public inputs, any lambda and degree, any number of
proofs and of alterations, where the run of TLC has one:

* `OrderBinds`. The transcript is readable from its end: a challenge, a ratchet
  and an absorbed message each leave the state before them (`CallsReadable`), and
  the dimensions in the prologue say where each of its parts lies
  (`PrologueReadable`, `Located`). Two admissible proofs with one prologue then
  agree in statement and commitments (`PrologueBinds`); the shape check is needed
  because the bytes of a bit vector do not show its length. For chi and Delta the
  consistency message and the coefficients are read off before the prologue.
* `AcceptedAreIntact`. The invariant `ProofInv` says that an offered proof can be
  decoded and carries the salt of a run, and what that run published; each check
  of the verifier returns some components to the run's, and the lemma of `OrderBinds`
  returns the public input and the geometry, which no numerical check fixes; the
  shape check then makes the circuit's dimensions those of the run.
* `NoPanics` and `BothSidesAgree`, from the same invariant.

`SpendCircuitProofs`, from `BitsAssumption`, `KeyAssumption`, `SignAssumption`,
`ShakeAssumption` and `WalletAssumption` (sizes of a key, a signature and an output;
whipped forms are zero below the diagonal; a shorter output of the same message begins
a longer one; secrets have one length and, as `prepare_spend` checks, the token that
a wallet spends carries a signature that verifies), for
every key, number of equations and variables, width of a balance and length of a
nullifier, where TLC has three equations in four variables and three bits:

* `SpendsBalance`. The invariant is the school-book one: the prefixes read so far
  and the carry, weighted by the next power of two, add up (`PrefixSums`); one bit is
  `FullAdder`, from the two equations over GF(2). `SpendRunsBalances` carries it to
  the whole circuit.
* `SystemIsForm`. The circuit asserts a table of terms whose coefficients lie in one
  flat list, without the pairs that are zero in every form, and the issuer evaluates
  M matrices. An entry leaves what the earlier ones mean unchanged and adds one
  product (`EntryAdds`), the rows of the upper triangle one after the other are the
  double sum (`PairsTotal`), and what is below the diagonal is zero. Sums are shown
  to be those of a recursive function (`TotalsSolve`), since the library's fold is a
  CHOOSE of its equation.
* `SpendStatements`. `StageInvariant` says what each stage has put on the wires and how
  it is connected with the stages before it. The steps need that wires hash like
  native messages: four wires and an element of GF(16) determine each other
  (`NibblesInvert`), and packing elements into bytes gives their wires and, after an odd
  number, four zero wires (`PackedElements`, `PaddingFills`); so the token that
  is verified wraps the credential whose nullifier is revealed (`TokenWiresHash`), and
  an asserted output decides about the commitment (`OutputDecides`).
* `HonestSpends`. The witness is joined from twelve pieces in one place and cut at
  twelve widths in another; pieces of those widths come back whole (`PiecesFit`,
  `JoinsKeep`, `WitnessIsCut`), so that what an honest prover offers to each stage is
  what the wallet drew or stored (`HonestOffers`). `HonestRun` says what an honest
  spend has done at each stage. In the additions (`HonestBalances`) the bits read so
  far and, weighted by the
  next power of two, what is left make up the wallet's number, and the carry
  in its witness is the one that the next bit needs (`HonestSum`, `CutBitIsHonest`);
  since no sum overflows, the last carry is zero. The later stages hash from wires
  what the wallet and the issuer hashed natively: the signature was made for the native
  target and satisfies the table of terms by `SystemIsForm`, the native nullifier is
  the tail of the hidden output (`NullifierOfOutput`), the native commitment its own
  hash (`OutputDecides`).

`QuickSilverProofs`, from `FieldAssumption` (an integral domain of characteristic
two) and `InputsAssumption`, for every circuit of any length, not only over GF(4):

* `CircuitInvariant`. `KeysMatch` is not enough to be kept: `AssertExprZero` records
  whatever expression it is given, so the invariant says what each recorded
  constraint promises (`Sound`: its check at Delta is the polynomial of the published
  coefficients, plus its error at the next power), for systems before any challenge
  is drawn, and what a proof was computed from (`ProofInv`).
* `AllKeysMatch`, with one lemma per call; `ExprProductMatches` is that the
  convolution of two coefficient vectors evaluates to the product.
* `ZeroCheckBinds` and `MulCheckBinds`: a false assertion leaves a term nobody
  published.
* `BatchEvaluates`: what the verifier adds up is the polynomial that the prover
  computes, and the batched error above its last coefficient. From it follow
  `HonestProofsAlwaysVerify` and, since a nonzero polynomial has no more roots than
  its degree (`RootBound`), `FalseProofsAlwaysFail`.

`VoleCommitmentProofs`, from `ParamsAssumption` (at least one tree, at least one
level), for trees of any number and depth, any challenge of the prover and of the
verifier and any interleaving of the tasks, where TLC has two trees of depth 3:

* `Invariant`. `Correlation` speaks of finished accumulators, so the invariant says
  what one holds after any number of leaves (`Exact`): a pending subtree for each
  bit of the count and, per plane, the completed leaves with that bit. `PushExact`
  keeps it: a new leaf is carried up to the lowest clear bit of the count (`Carry`,
  `CarriedSums`), which completes exactly the subtrees the planes gain
  (`OddLeavesGrow`). It also says that the verifier only goes on with a tree that
  was opened at its own leaf; `Reject` in one task may come after other trees are
  half done.
* `Correlated`. The verifier visits leaf e ^ Delta_j at step e, which is a bijection
  that keeps a bit or flips it (`XorIndexFacts`), so a key plane is the tag plane or
  the rest of the tree (`KeyPlane`), and the correction replaces that tree's sum by
  the first one's (`CorrectedKeyPlane`).
* `ChallengeBound`. The one leaf the verifier cannot recompute carries the hidden
  commitment, whose index must therefore be its own (`OpeningVerifies`); challenges
  with the same chunks are the same (`ChunksDetermine`).
* `OneLeafHidden`. Every leaf but the hidden one lies below a revealed sibling
  (`CoveringFacts`) from which the tree's own seed is reached
  (`DescendFollowsTree`); a seed holds the level and the side it was expanded for,
  and no revealed one has those of a node on the path (`PathNotRevealed`).

The first part of the module is what these need of bits and of sums of vectors, and
may be used elsewhere; powers of two are in `SumTheorems`.

`KeccakCircuitProofs`, from `MessagesAssumption`, `OutputAssumption` and
`FlipsAssumption` (what the instance gives and may flip is of the sizes of the code), for
every message of at most one block and every wire of every checkpoint, where TLC flips
two wires:

* `RoundsAgree`. The native round works on lanes and rotates them, the circuit reads
  single wires at computed places; on the wires of a state both are the same
  permutation, with any round constant. A column's parity is that of its five wires
  (`ParityOfFive`), the place from which pi reads is the inverse of the place to which the native loop
  writes (`PiInverse`), and a bit of a rotated lane is one of the two halves that the
  shifts leave (`Rotated`, `RotationInLane`).
* `KeccakInvariant`. A committed checkpoint is the native state after its four rounds
  (`NativeAfter`), but for the flipped wire; the circuit follows the native states
  as long as it has not read that wire, and has failed since. `CheckpointsDecide`
  alone is not kept by a step: it says nothing of the states in between.
* `WitnessDecided` and `OutputsDecided`: a witness with a wrong wire anywhere is
  refused, the right one accepted, and what the circuit takes as target and as
  nullifier are the bits that native code takes.

Induction. The library's induction theorems take an operator and cannot be used
here, but they are not needed: `NumbersInductive` of `SumTheorems` speaks of a *set*
of numbers, and is proved from the well-foundedness of Nat by the least number
missing from the set. With it, what a recursive function computes can be proved for
every length (`RecursionExists`, `RecursionUnique`): the function is the CHOOSE of its
defining equation, so one shows that a function with that equation exists and that
it is the only one.

Only model-checked: everything else in section 4. In particular liveness
(under fairness), the algorithms of MAYO, the decoders (recursive over their inputs;
`WireFormat` declares the project's only RECURSIVE operators), the kernels
(computations), and that counts of `CountingBackend` are natural numbers,
which `NizkProofs` assumes.

## 7. Not modelled

* That SHAKE256 is collision resistant, that MAYO cannot be forged, and the
  probability that a cheating prover guesses Delta or a hash key: cryptographic
  assumptions and not properties of the code. The models count instead, over
  small fields, how many challenges overlook a deviation.
* A restart with the wrong store. `from_key_bytes_with_store` documents it as the
  caller's obligation to pass the old one, and the code cannot tell.
* The refusal of a fresh commitment of another length in the circuit, of
  malformed keys in `mayo`, of out-of-range parameters in `vector-commit`.
* Allocation failures, zeroization, constant-time selection and error texts.
* Tests, benches, examples, fuzz targets and the research designs: they drive the
  library and keep no state of the system.

## 8. Plan

Done: the modules of section 2, from the protocol down. Every component with state
or arithmetic is modelled. Left:

1. Proofs about MAYO: one column of the solver, `WhippedFormsAgree`.
2. A composition of `SpendIssuer` with `WireFormat`, in which a restarted replica
   reads encoded rows. At present the store keeps records and `RoundTrip` and
   `Canonical` justify that.
