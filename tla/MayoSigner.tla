----------------------------- MODULE MayoSigner -----------------------------
(***************************************************************************)
(* An issuer's MAYO key in use: generated, stored and restored, and asked  *)
(* to sign targets with fresh randomness until an attempt succeeds.        *)
(***************************************************************************)
EXTENDS Mayo

CONSTANTS
  KeyMaterial,  (* Random choices of key generation.                        *)
  Targets,      (* Targets to sign.                                         *)
  Vinegars,     (* Vinegar values an attempt may draw.                      *)
  Randoms,      (* Solver vectors an attempt may draw.                      *)
  MaxAttempts   (* Attempts of spre, 256 in the code.                       *)

VARIABLES
  sk, pk,       (* The issuer's key.                                        *)
  published,    (* The public key that clients received first.              *)
  target,       (* The target being signed.                                 *)
  attempts,     (* Failed attempts so far.                                  *)
  result        (* None, or the preimage once an attempt succeeded.         *)

vars == <<sk, pk, published, target, attempts, result>>

Init ==
  \E k \in KeyMaterial, t \in Targets :
    /\ sk = SecretKeyOf(k)
    /\ pk = TrapgenPublicKey(k)
    /\ published = TrapgenPublicKey(k)
    /\ target = t
    /\ attempts = 0
    /\ result = None

(* The issuer restarts from its key bytes, which hold no public key. *)
Restore ==
  /\ attempts = 0 /\ result = None
  /\ sk' = SecretKeyFromBytes(SecretKeyBytes(sk))
  /\ pk' = PublicKey(sk')
  /\ UNCHANGED <<published, target, attempts, result>>

Sign(vinegar, r) ==
  LET s == Attempt(sk, target, vinegar, r)
  IN /\ result = None /\ attempts < MaxAttempts
     /\ IF s = None
        THEN attempts' = attempts + 1 /\ UNCHANGED result
        ELSE result' = s /\ UNCHANGED attempts
     /\ UNCHANGED <<sk, pk, published, target>>

Next ==
  \/ Restore
  \/ \E vinegar \in Vinegars, r \in Randoms : Sign(vinegar, r)

Spec == Init /\ [][Next]_vars
-----------------------------------------------------------------------------
(* What spre returns is a preimage of the target under the public key that
   clients hold, also after the issuer restarted from its secret key alone
   and after attempts that failed; the public key recomputed from the stored
   trapdoor, and the one clients decode, are the published one: P2 and P3 are
   recovered exactly and the triangular packing loses nothing (scheme.rs spre,
   eval, public_key, to_bytes, from_bytes). *)
SignaturesVerify ==
  /\ result # None => Eval(published, result) = target
  /\ pk = published
  /\ PublicKeyFromBytes(PublicKeyBytes(pk)) = published

(* The quadratic forms that the circuit proves against are the map that
   verification evaluates.  Both are quadratic forms, so they agree
   everywhere if they agree on unit vectors and on sums of two of them
   (scheme.rs whipped_forms, "eval(pk, s)_a = s^T G_a s"). *)
WhippedFormsAgree ==
  LET positions == Blocks \X Indices(N)
      forms == WhippedForms(pk)
      Units(p, q) == [i \in Blocks |-> [n \in Indices(N) |->
                        IF <<i, n>> \in {p, q} THEN 1 ELSE 0]]
  IN attempts = 0 /\ result = None =>
       \A p, q \in positions :
         Eval(pk, Units(p, q))
           = [a \in Equations |-> FormValue(forms[a], Units(p, q))]
=============================================================================
