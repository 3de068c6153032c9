--------------------------- MODULE MCSpendIssuer ----------------------------
(***************************************************************************)
(* Instances of SpendIssuer for TLC.  Two nullifiers; the first is claimed *)
(* by an ordinary spend, by a deferred-return spend of the same token and  *)
(* by a request that was proved against another issuer's context.          *)
(***************************************************************************)
EXTENDS SpendIssuer, TLC

CONSTANTS r1, r2, n1, n2, c1, c2, c3, home, away, s1, s2

(* A request as prepare_typed_spend builds it under the given context. *)
Prepared(context, kind, mode, spend, n, c) ==
  LET q == [kind |-> kind, mode |-> mode, spend |-> spend,
            nullifier |-> n, fresh |-> c]
  IN [kind |-> kind, mode |-> mode, spend |-> spend, nullifier |-> n,
      fresh |-> c, proof |-> SpendStatement(context, q)]

OrdinaryOfFirst == Prepared(home, "DeferredReturn", "FixedSpend", 1, n1, c1)
DeferredOfFirst == Prepared(home, "DeferredReturn", "DeferredReturnSpend", 1, n1, c2)
ForeignOfFirst == Prepared(away, "DeferredReturn", "FixedSpend", 1, n1, c1)
DeferredOfSecond == Prepared(home, "Direct", "DeferredReturnSpend", 1, n2, c3)

(* The same request retagged: only the settlement mode differs. *)
SameButMode(q) ==
  Prepared(home, q.kind, "FixedSpend", q.spend, q.nullifier, q.fresh)

MCRequests ==
  {OrdinaryOfFirst, DeferredOfFirst, ForeignOfFirst, DeferredOfSecond}

MCConflicts ==
  {DeferredOfFirst, SameButMode(DeferredOfFirst)}

MCReplicas == {r1, r2}
MCNullifiers == {n1, n2}
MCOneNullifier == {n1}
MCCommitments == {c1, c2, c3}
MCContexts == {home, away}
MCSalts == {s1, s2}
MCOneSalt == {s1}

MCSymmetry == Permutations(MCReplicas) \cup Permutations(MCSalts)
=============================================================================
