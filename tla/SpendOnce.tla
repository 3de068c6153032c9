----------------------------- MODULE SpendOnce ------------------------------
(***************************************************************************)
(* What the issuer service promises, whatever replicas, calls and crashes  *)
(* it is made of: a nullifier accepts at most one request, once and for    *)
(* ever, together with the response chosen at that moment, and the only    *)
(* successful answer to any request is that response to that request.      *)
(***************************************************************************)
EXTENDS ActTypes

CONSTANTS Context, Requests, NoRecord

VARIABLES
  accepted,     (* The record each nullifier accepted, if any.              *)
  answers       (* The successful answers given so far.                     *)

Init ==
  /\ accepted = [n \in Nullifiers |-> NoRecord]
  /\ answers = {}

(* The record left by accepting q with return amount x under a salt: it
   signs q's fresh commitment plus the return. *)
RecordFor(q, x, salt) ==
  [digest |-> SpendRequestDigest(Context, q),
   response |->
     [variant |-> IF q.mode = "FixedSpend" THEN "Direct" ELSE "DeferredReturn",
      signature |-> Preimage(SignedTokenTarget(q.fresh, x, salt)),
      returnAmount |-> x,
      salt |-> salt]]

(* A request proved for this issuer is accepted with a return within its
   spend, or with none when it is an ordinary spend. *)
Accept(q, x, salt) ==
  /\ accepted[q.nullifier] = NoRecord
  /\ q.proof = SpendStatement(Context, q)
  /\ IF q.mode = "FixedSpend" THEN x = 0 ELSE x <= q.spend
  /\ accepted' = [accepted EXCEPT ![q.nullifier] = RecordFor(q, x, salt)]
  /\ UNCHANGED answers

Answer(q) ==
  LET w == accepted[q.nullifier]
  IN /\ w # NoRecord
     /\ w.digest = SpendRequestDigest(Context, q)
     /\ answers' = answers \cup
          {[request |-> q,
            response |-> [signature |-> w.response.signature,
                          returnAmount |-> w.response.returnAmount,
                          salt |-> w.response.salt]]}
     /\ UNCHANGED accepted

Next ==
  \E q \in Requests :
    \/ \E x \in U64, salt \in Salts : Accept(q, x, salt)
    \/ Answer(q)

Spec == Init /\ [][Next]_<<accepted, answers>>
=============================================================================
