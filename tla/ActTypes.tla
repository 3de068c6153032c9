------------------------------ MODULE ActTypes ------------------------------
(***************************************************************************)
(* Values of the VOLE-ACT protocol (crates/vole-act): credential kinds,    *)
(* settlement modes, spend requests, signing targets and retry records.    *)
(*                                                                         *)
(* Cryptography is idealised and nothing else is.  A hash is the tuple of  *)
(* everything it absorbs, so it is injective; a signature is the target it *)
(* is a MAYO preimage of; a proof is the statement it was produced for, so *)
(* the verifier accepts it exactly for that statement.                     *)
(***************************************************************************)
EXTENDS Integers

CONSTANTS
  Contexts,     (* Issuer contexts: hashes of application context and key.  *)
  Nullifiers,   (* Nullifiers of credential openings.                       *)
  Commitments,  (* Credential targets (commitments) of fresh openings.      *)
  Salts,        (* Signer salts the RNG may return.                         *)
  U64Max        (* Largest amount; 2^64 - 1 in the code, small in a model.  *)

ASSUME U64MaxAssumption == U64Max \in Nat

U64 == 0 .. U64Max

(***************************************************************************)
(* markers.rs: the closed type markers K and S.                            *)
(***************************************************************************)
CredentialKinds == {"Direct", "DeferredReturn"}
SettlementModes == {"FixedSpend", "DeferredReturnSpend"}

HasTopup(kind) == kind = "DeferredReturn"

(* u64::checked_add succeeds. *)
AddFits(a, b) == a + b <= U64Max

(* effective_balance returns Some: no top-up on a direct credential, and no
   overflow of base + topup. *)
EffectiveBalanceExists(kind, base, topup) ==
  /\ ~HasTopup(kind) => topup = 0
  /\ AddFits(base, topup)

(***************************************************************************)
(* Statements, requests and the digest that identifies an exact retry.     *)
(***************************************************************************)
Statements ==
  [context : Contexts, kind : CredentialKinds, mode : SettlementModes,
   spend : U64, nullifier : Nullifiers, fresh : Commitments]

SpendRequests ==
  [kind : CredentialKinds, mode : SettlementModes, spend : U64,
   nullifier : Nullifiers, fresh : Commitments, proof : Statements]

SpendStatement(context, q) ==
  [context |-> context, kind |-> q.kind, mode |-> q.mode, spend |-> q.spend,
   nullifier |-> q.nullifier, fresh |-> q.fresh]

(* Mutant: the digest does not absorb the issuer's context. *)
DigestWithoutContext(context, q) == <<q>>

(* The digest absorbs the context and the whole wire encoding: both type
   tags, every field and the proof. *)
Digests == Contexts \X SpendRequests
SpendRequestDigest(context, q) == <<context, q>>

(***************************************************************************)
(* Signing targets and signatures.                                         *)
(***************************************************************************)
Targets == Commitments \X U64 \X Salts

(* Mutant: the return amount is not bound by the signed target. *)
TargetWithoutTopup(commitment, topup, salt) == <<commitment, 0, salt>>

SignedTokenTarget(commitment, topup, salt) == <<commitment, topup, salt>>

Signatures == [preimageOf : Targets]
Preimage(target) == [preimageOf |-> target]
Eval(signature) == signature.preimageOf

(***************************************************************************)
(* store.rs: the durable record of a consumed nullifier.  The Direct       *)
(* variant of RetryResponse has no return amount; its wire form writes 0.  *)
(***************************************************************************)
RetryResponses ==
  [variant : {"Direct", "DeferredReturn"}, signature : Signatures,
   returnAmount : U64, salt : Salts]

RetryRecords == [digest : Digests, response : RetryResponses]

SpendResponses == [signature : Signatures, returnAmount : U64, salt : Salts]
=============================================================================
