--------------------------- MODULE MCCreditSystem ---------------------------
(***************************************************************************)
(* Instances of CreditSystem for TLC.                                      *)
(***************************************************************************)
EXTENDS CreditSystem, TLC

CONSTANTS home, away, s1, s2, k1, k2, k3

MCNullifiers == {DeriveNullifier(Context, o) : o \in Openings}
MCCommitments == {CredentialTarget(Context, o) : o \in Openings}
MCThreeSecrets == {k1, k2, k3}
MCContexts == {home, away}
MCHome == {home}
MCOneSalt == {s1}
MCSecretSymmetry == Permutations(Secrets)
=============================================================================
