---------------------------- MODULE SpendCircuit ----------------------------
(***************************************************************************)
(* The statements of the issue and spend circuits (vole-act/src/circuit.rs) *)
(* over bit wires: the order of the witness, the layout of messages, the     *)
(* MAYO equations as a table of terms, and the equalities that connect       *)
(* credential, signed token, nullifier and fresh commitment.  The balance    *)
(* equations are those of BalanceCircuit, bit by bit; SHAKE256 and its       *)
(* checkpoint wires are a function here (KeccakCircuit).                     *)
(*                                                                         *)
(* A prover is honest, cutting its wires from the witness that the code      *)
(* generates, or arbitrary, putting anything on the wires of a stage.        *)
(***************************************************************************)
EXTENDS BalanceCircuit, GF16, SequencesExt

CONSTANTS
  M, KN,         (* Equations of a MAYO key, variables of its whipped map.  *)
  Forms,         (* Its whipped forms: M matrices of KN x KN elements.      *)
  Shake(_, _),   (* SHAKE256: the first bits of the output of a message.    *)
  Sign(_),       (* The issuer's preimage of a target.                      *)
  Secrets,       (* Bits of a key, of a nonce or of a salt.                 *)
  Draws,         (* What a wallet draws: records [opening, fresh, salt].    *)
  NullifierBits  (* 256 in the code.                                        *)

(* Whipped forms are upper triangular.                                     *)
ASSUME KeyAssumption ==
  /\ M \in Nat \ {0} /\ KN \in Nat \ {0} /\ NullifierBits \in Nat
  /\ Forms \in [1 .. M -> [0 .. KN - 1 -> [0 .. KN - 1 -> GF]]]
  /\ \A i \in 1 .. M, r, c \in 0 .. KN - 1 : c < r => Forms[i][r][c] = 0

ASSUME SignAssumption == \A t \in [1 .. M -> GF] : Sign(t) \in [1 .. KN -> GF]

VARIABLES
  witness,       (* Bits that an honest prover has generated, or None.      *)
  request,       (* What its wallet has put into the request natively.      *)
  opening,       (* Key and nonce of the presented credential.              *)
  oldOutput,     (* Wires of the hidden hash of the credential.             *)
  salt, signedTarget, signature,
  public,        (* The nullifier and the fresh commitment of the statement.*)
  fresh,         (* Key and nonce of the fresh credential.                  *)
  stage          (* The wires that are allocated next, or the verdict.      *)

statementVars ==
  <<witness, request, opening, oldOutput, salt, signedTarget, signature, public, fresh,
    stage>>

BitsOfNumber(x, width) == [i \in 1 .. width |-> (x \div 2 ^ (i - 1)) % 2]
BalanceBits(x) == BitsOfNumber(x, BALANCE_BITS)
Nibbles(values) == FlattenSeq([i \in 1 .. Len(values) |-> BitsOfNumber(values[i], 4)])

-----------------------------------------------------------------------------
(* Native messages, hashed by the wallet and the issuer.                    *)
Zeros(n) == [i \in 1 .. n |-> 0]

CredentialMessage(o, balance) ==
  [domain |-> "CRED_DOMAIN", bits |-> o.key \o BalanceBits(balance) \o o.nonce]

(* Two elements in a byte, the high half of a last single one is zero. *)
PackGF16(values) ==
  FlattenSeq([b \in 1 .. (Len(values) + 1) \div 2 |->
     BitsOfNumber(values[2 * b - 1], 4) \o
     IF 2 * b <= Len(values) THEN BitsOfNumber(values[2 * b], 4) ELSE Zeros(4)])

(* The first n elements that bits stand for. *)
Lifted(bits, n) ==
  [i \in 1 .. n |-> SumSet({2 ^ b * bits[4 * (i - 1) + b + 1] : b \in 0 .. 3})]
Unnibbled(bits) == Lifted(bits, M)

CredentialTarget(o, balance) == Unnibbled(Shake(CredentialMessage(o, balance), 4 * M))

TokenMessage(commitment, topup, s) ==
  [domain |-> "SIGNED_TOKEN_DOMAIN", bits |-> PackGF16(commitment) \o BalanceBits(topup) \o s]

SignedTokenTarget(commitment, topup, s) ==
  Unnibbled(Shake(TokenMessage(commitment, topup, s), 4 * M))

DeriveNullifier(o, balance) ==
  SubSeq(Shake(CredentialMessage(o, balance), 4 * M + NullifierBits), 4 * M + 1, 4 * M + NullifierBits)

(* What is hashed has that many bits of output, the fewer the first of the more. *)
Openings == [key : Secrets, nonce : Secrets]
Amounts == 0 .. 2 ^ BALANCE_BITS - 1
ASSUME ShakeAssumption ==
  \A o \in Openings, balance \in Amounts :
    LET output == Shake(CredentialMessage(o, balance), 4 * M + NullifierBits)
        target == CredentialTarget(o, balance)
    IN  /\ output \in [1 .. 4 * M + NullifierBits -> Bit]
        /\ Shake(CredentialMessage(o, balance), 4 * M) = SubSeq(output, 1, 4 * M)
        /\ \A topup \in Amounts, s \in Secrets :
             Shake(TokenMessage(target, topup, s), 4 * M) \in [1 .. 4 * M -> Bit]

-----------------------------------------------------------------------------
(* The MAYO equations: coefficients of the upper triangle in row-major order,
   without the terms that are zero in every equation. *)
Pairs == FlattenSeq([r \in 1 .. KN |-> [c \in 1 .. KN - r + 1 |-> <<r - 1, r + c - 2>>]])
Coefficients(pair) == [i \in 1 .. M |-> Forms[i][pair[1]][pair[2]]]

TermTable ==
  LET Entry(table, n) ==
        [terms |-> Append(table.terms, [r |-> Pairs[n][1], c |-> Pairs[n][2],
                                        offset |-> Len(table.coeffs)]),
         coeffs |-> table.coeffs \o Coefficients(Pairs[n])]
      after[n \in 0 .. Len(Pairs)] ==
        IF n = 0 THEN [terms |-> <<>>, coeffs |-> <<>>]
        ELSE IF Coefficients(Pairs[n]) = Zeros(M) THEN after[n - 1]
        ELSE Entry(after[n - 1], n)
  IN  after[Len(Pairs)]

Terms == TermTable.terms
Arena == TermTable.coeffs

MayoSystem(s, i) ==
  GFSum(Len(Terms), LAMBDA t :
    LET term == Terms[t + 1]
    IN  Arena[term.offset + i] ** (s[term.r + 1] ** s[term.c + 1]))

-----------------------------------------------------------------------------
(* Wires of messages.                                                       *)

CredentialWires(key, balance, nonce) ==
  [domain |-> "CRED_DOMAIN", bits |-> key \o balance \o nonce]

(* Mutant: the last byte of an odd commitment is not filled up. *)
TokenWiresUnpadded(commitment, topup, s) ==
  [domain |-> "SIGNED_TOKEN_DOMAIN", bits |-> commitment \o topup \o s]

(* Domain tags are whole bytes, so only the commitment needs padding. *)
TokenWires(commitment, topup, s) ==
  [domain |-> "SIGNED_TOKEN_DOMAIN",
   bits |-> commitment \o Zeros((8 - (Len(commitment) % 8)) % 8) \o topup \o s]

(* The witness that the wallet generates, without the checkpoints. *)
Carried(a, b) ==
  LET carryIn[i \in 0 .. BALANCE_BITS] ==
        IF i = 0 THEN 0 ELSE WitnessCarry(BalanceBits(a)[i], BalanceBits(b)[i], carryIn[i - 1])
  IN  [i \in 1 .. BALANCE_BITS |-> carryIn[i]]

Witness(x) ==
  Nibbles(x.signature) \o x.opening.key \o BalanceBits(x.base) \o x.opening.nonce
    \o BalanceBits(x.topup) \o BalanceBits(x.base + x.topup) \o x.salt
    \o x.fresh.key \o BalanceBits(x.freshBase) \o x.fresh.nonce
    \o Carried(x.base, x.topup) \o Carried(x.freshBase, x.spend)

SecretBits == Len(CHOOSE secret \in Secrets : TRUE)

(* Mutant: the circuit takes the nonce where the witness has the key. *)
AllocationsKeyNonceSwapped ==
  << <<"signature", 4 * KN>>, <<"nonce", SecretBits>>, <<"base", BALANCE_BITS>>,
     <<"key", SecretBits>>, <<"topup", BALANCE_BITS>>, <<"effective", BALANCE_BITS>>,
     <<"salt", SecretBits>>, <<"freshKey", SecretBits>>, <<"fresh", BALANCE_BITS>>,
     <<"freshNonce", SecretBits>>, <<"old", BALANCE_BITS>>, <<"new", BALANCE_BITS>> >>

(* The allocations of build, in order: name and number of wires. *)
Allocations ==
  << <<"signature", 4 * KN>>, <<"key", SecretBits>>, <<"base", BALANCE_BITS>>,
     <<"nonce", SecretBits>>, <<"topup", BALANCE_BITS>>, <<"effective", BALANCE_BITS>>,
     <<"salt", SecretBits>>, <<"freshKey", SecretBits>>, <<"fresh", BALANCE_BITS>>,
     <<"freshNonce", SecretBits>>, <<"old", BALANCE_BITS>>, <<"new", BALANCE_BITS>> >>

(* The wires that witness bits become. *)
AllocBits(bits, name) ==
  LET n == CHOOSE i \in DOMAIN Allocations : Allocations[i][1] = name
      first == SumFunction([i \in 1 .. n - 1 |-> Allocations[i][2]])
  IN  SubSeq(bits, first + 1, first + Allocations[n][2])

-----------------------------------------------------------------------------
None == <<>>
Honest == witness # None

(* The map that the issuer's key publishes. *)
Eval(s, i) ==
  GFSum(KN, LAMBDA r : GFSum(KN, LAMBDA c : Forms[i][r][c] ** (s[r + 1] ** s[c + 1])))

(* A wallet draws secrets of one length, and the tokens that it spends are those
   whose signature it has verified, of amounts that do not overflow. *)
ASSUME WalletAssumption ==
  /\ SecretBits \in Nat /\ Secrets \subseteq [1 .. SecretBits -> Bit]
  /\ Draws \subseteq [opening : Openings, fresh : Openings, salt : Secrets]
  /\ \A d \in Draws, balance, topup \in Amounts :
       LET target == SignedTokenTarget(CredentialTarget(d.opening, balance), topup, d.salt)
       IN  balance + topup \in Amounts =>
             \A i \in 1 .. M : Eval(Sign(target), i) = target[i]

(* An arbitrary prover has no witness.  An honest one is a wallet: it computes
   the nullifier and the fresh commitment of its request from its own secrets,
   and the witness from those and the signature stored with its token. *)
SpendInit ==
  /\ Init
  /\ \/ witness = None /\ request = None
     \/ \E d \in Draws, base, topup, spend \in Amounts :
          LET change == base + topup - spend
              commitment == CredentialTarget(d.opening, base)
          IN  /\ kind = "direct" => topup = 0
              /\ base + topup \in Amounts /\ change \in Amounts
              /\ request = [spend |-> spend,
                            nullifier |-> DeriveNullifier(d.opening, base),
                            commitment |-> CredentialTarget(d.fresh, change)]
              /\ witness = Witness(
                   [opening |-> d.opening, base |-> base, topup |-> topup, salt |-> d.salt,
                    fresh |-> d.fresh, freshBase |-> change, spend |-> spend,
                    signature |-> Sign(SignedTokenTarget(commitment, topup, d.salt))])
  /\ opening = None /\ oldOutput = None /\ salt = None /\ signedTarget = None
  /\ signature = None /\ public = None /\ fresh = None
  /\ stage = "balances"

(* What is on the wires that a stage allocates: an honest prover cuts them from
   its witness and uses the public values of its request, and whether they fit
   is for the assertions to say; any other prover offers the right values and
   those of other openings, balances and targets. *)
CutBit ==
  [w \in Wires |->
     IF w = "spend" THEN BalanceBits(request.spend)[bit + 1]
     ELSE AllocBits(witness, w)[bit + 1]]
OfferedBits == IF Honest THEN {CutBit} ELSE [Wires -> Bit]
OfferedOpenings(key, nonce) ==
  IF Honest THEN {[key |-> AllocBits(witness, key), nonce |-> AllocBits(witness, nonce)]}
  ELSE Openings
OfferedSalts == IF Honest THEN {AllocBits(witness, "salt")} ELSE Secrets
OfferedSignatures ==
  IF Honest THEN {Lifted(AllocBits(witness, "signature"), KN)}
  ELSE {Sign(Unnibbled(signedTarget)), Sign(Unnibbled(SubSeq(oldOutput, 1, 4 * M)))}
OfferedNullifiers ==
  IF Honest THEN {request.nullifier}
  ELSE {DeriveNullifier(o, value["base"]) : o \in Openings}
OfferedTargets(o, balance) ==
  {CredentialTarget(o, balance), CredentialTarget(o, (balance + 1) % 2 ^ BALANCE_BITS)}
OfferedCommitments(o) ==
  IF Honest THEN {request.commitment} ELSE OfferedTargets(o, value["fresh"])

-----------------------------------------------------------------------------
(* One action per stage of the statement, for whatever is on its wires. *)
Balances ==
  /\ stage = "balances"
  /\ (MoreBits /\ \E w \in OfferedBits : ReadBit(w)) \/ Finish
  /\ UNCHANGED statementVars

HashCredential(o) ==
  /\ stage = "balances" /\ outcome = "accepted"
  /\ opening' = o
  /\ oldOutput' = Shake(CredentialWires(o.key, BalanceBits(value["base"]), o.nonce),
                        4 * M + NullifierBits)
  /\ stage' = "token"
  /\ UNCHANGED <<vars, witness, request, salt, signedTarget, signature, public, fresh>>

HashToken(s) ==
  /\ stage = "token"
  /\ salt' = s
  /\ signedTarget' = Shake(TokenWires(SubSeq(oldOutput, 1, 4 * M),
                                      BalanceBits(value["topup"]), s), 4 * M)
  /\ stage' = "signature"
  /\ UNCHANGED <<vars, witness, request, opening, oldOutput, signature, public, fresh>>

(* assert_quad_system on the lifted signature and target. *)
CheckSignature(sig) ==
  /\ stage = "signature"
  /\ signature' = sig
  /\ stage' = IF \A i \in 1 .. M : MayoSystem(sig, i) = Unnibbled(signedTarget)[i]
              THEN "nullifier" ELSE "rejected"
  /\ UNCHANGED <<vars, witness, request, opening, oldOutput, salt, signedTarget, public, fresh>>

NullifierMatches(output, expected) ==
  \A i \in 1 .. NullifierBits : output[4 * M + i] = expected[i]

CheckNullifier(nullifier) ==
  /\ stage = "nullifier"
  /\ public' = [nullifier |-> nullifier]
  /\ stage' = IF NullifierMatches(oldOutput, nullifier) THEN "fresh" ELSE "rejected"
  /\ UNCHANGED <<vars, witness, request, opening, oldOutput, salt, signedTarget, signature, fresh>>

(* shake_assert_output: only as many bits as are expected. *)
OutputIs(message, expected) == Shake(message, Len(expected)) = expected

CheckFresh(o, commitment) ==
  /\ stage = "fresh"
  /\ fresh' = o
  /\ public' = [nullifier |-> public.nullifier, commitment |-> commitment]
  /\ stage' = IF OutputIs(CredentialWires(o.key, BalanceBits(value["fresh"]), o.nonce),
                          Nibbles(commitment))
              THEN "accepted" ELSE "rejected"
  /\ UNCHANGED <<vars, witness, request, opening, oldOutput, salt, signedTarget, signature>>

(* IssueCircuit: a public balance, hidden key and nonce. *)
Issue(o, balance, target) ==
  /\ stage = "balances" /\ bit = 0 /\ ~Honest
  /\ opening' = o
  /\ public' = [balance |-> balance, commitment |-> target]
  /\ stage' = IF OutputIs(CredentialWires(o.key, BalanceBits(balance), o.nonce), Nibbles(target))
              THEN "issued" ELSE "refused"
  /\ UNCHANGED <<vars, witness, request, oldOutput, salt, signedTarget, signature, fresh>>

SpendNext ==
  \/ Balances
  \/ stage = "balances" /\ \E o \in OfferedOpenings("key", "nonce") : HashCredential(o)
  \/ stage = "token" /\ \E s \in OfferedSalts : HashToken(s)
  \/ stage = "signature" /\ \E sig \in OfferedSignatures : CheckSignature(sig)
  \/ stage = "nullifier" /\ \E n \in OfferedNullifiers : CheckNullifier(n)
  \/ stage = "fresh" /\ \E o \in OfferedOpenings("freshKey", "freshNonce") :
       \E c \in OfferedCommitments(o) : CheckFresh(o, c)
  \/ \E o \in Openings, b \in Amounts :
       \E t \in OfferedTargets(o, b) : Issue(o, b, t)

SpendSpec == SpendInit /\ [][SpendNext]_<<vars, statementVars>>

-----------------------------------------------------------------------------
(* Whatever is on the wires, an accepted spend proof is about one credential:
   the signature is one for the native target of the wrapped commitment to
   that key, base balance and nonce with that top-up and salt, the nullifier is
   the one of that credential, and the fresh commitment opens to the change.
   An issue proof is accepted exactly for the target of a credential with the
   public balance (the statements of the module comment of circuit.rs, in terms
   of the native hashes that issuer and wallet use). *)
StatementsHold ==
  /\ stage = "accepted" =>
       LET target == SignedTokenTarget(CredentialTarget(opening, value["base"]), value["topup"], salt)
       IN  /\ \A i \in 1 .. M : Eval(signature, i) = target[i]
           /\ public.nullifier = DeriveNullifier(opening, value["base"])
           /\ public.commitment = CredentialTarget(fresh, value["fresh"])
           /\ value["base"] + value["topup"] = value["fresh"] + value["spend"]
  /\ stage \in {"issued", "refused"} =>
       (stage = "issued" <=> public.commitment = CredentialTarget(opening, public.balance))

(* The wallet's own witness, request and stored signature never fail an
   assertion: its bits are cut where they were put, the carries it computed are
   those of its sums, and messages of wires hash like the native ones from which
   the wallet and the issuer computed nullifier, commitments and signed target,
   with an odd number of commitment nibbles too (SpendCircuit::witness and
   prepare_spend against build). *)
HonestSpendVerifies == Honest => outcome # "rejected" /\ stage # "rejected"

=============================================================================
