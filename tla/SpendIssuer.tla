---------------------------- MODULE SpendIssuer ----------------------------
(***************************************************************************)
(* Issuer replicas that serve spend calls over one durable nullifier store *)
(* (protocol/issuer.rs over the NullifierStore contract of store.rs).      *)
(*                                                                         *)
(* An issuer value is called through &mut self, so each replica has at     *)
(* most one call in flight.  A call is cut into steps at its accesses to   *)
(* the shared store: the lookup, the refusals and the signing after a      *)
(* miss, the atomic insertion, and the answer computed from the record the *)
(* store returned.  Calls of different replicas interleave between any two *)
(* steps, a replica may crash between any two steps and restart with its   *)
(* key and the same store, and the store may fail a call before or after   *)
(* the insertion became durable.                                           *)
(*                                                                         *)
(* Clients and the network are the environment: any request of Requests    *)
(* reaches any idle replica at any time, which covers lost, duplicated,    *)
(* delayed and reordered deliveries and every retry.                       *)
(***************************************************************************)
EXTENDS ActTypes

CONSTANTS
  Replicas,     (* Issuer processes that share the store.                   *)
  Context,      (* The context of this issuer's key.                        *)
  Requests,     (* The spend requests that clients have prepared.           *)
  NoRecord,     (* "no record" for a nullifier, and for a call.             *)
  NoRequest,    (* A replica that has not been called since its start.      *)
  MaxFaults     (* Bound on crashes and storage failures in one behaviour.  *)

ASSUME ContextAssumption == Context \in Contexts
ASSUME RequestsAssumption == Requests \subseteq SpendRequests
ASSUME NoRecordAssumption == NoRecord \notin RetryRecords
ASSUME NoRequestAssumption == NoRequest \notin SpendRequests
ASSUME MaxFaultsAssumption == MaxFaults \in Nat

VARIABLES
  store,        (* The durable nullifier store.                             *)
  pc,           (* Where the call of each replica is.                       *)
  request,      (* The request of the current or last call.                 *)
  returnAmount, (* The return amount the application gave the call.         *)
  record,       (* The call's candidate; after insertion, the store's row.  *)
  outcome,      (* How the last call ended.                                 *)
  replies,      (* Every successful answer that left a replica.             *)
  faults        (* Crashes and storage failures so far.                     *)

callVars == <<pc, request, returnAmount, record, outcome>>
vars == <<store, callVars, replies, faults>>

Steps == {"idle", "get", "admit", "insert", "resolve"}

Outcomes ==
  {"None", "Ok", "InvalidRequest", "InvalidReturnAmount", "InvalidProof",
   "NullifierAlreadySpent", "SigningFailed", "StorageFailure"}

TypeOK ==
  /\ store \in [Nullifiers -> RetryRecords \cup {NoRecord}]
  /\ pc \in [Replicas -> Steps]
  /\ request \in [Replicas -> Requests \cup {NoRequest}]
  /\ returnAmount \in [Replicas -> U64]
  /\ record \in [Replicas -> RetryRecords \cup {NoRecord}]
  /\ outcome \in [Replicas -> Outcomes]
  /\ replies \subseteq [request : Requests, response : SpendResponses]
  /\ faults \in 0 .. MaxFaults

Init ==
  /\ store = [n \in Nullifiers |-> NoRecord]
  /\ pc = [r \in Replicas |-> "idle"]
  /\ request = [r \in Replicas |-> NoRequest]
  /\ returnAmount = [r \in Replicas |-> 0]
  /\ record = [r \in Replicas |-> NoRecord]
  /\ outcome = [r \in Replicas |-> "None"]
  /\ replies = {}
  /\ faults = 0
-----------------------------------------------------------------------------
(***************************************************************************)
(* Helpers of the handlers.                                                *)
(***************************************************************************)

(* verify_spend_request: the proof is checked against the statement that
   the issuer rebuilds from its own context and the request's fields. *)
ProofVerifies(q) == q.proof = SpendStatement(Context, q)

(* Only spend_with_deferred_return takes a return amount. *)
ReturnAmounts(q) == IF q.mode = "FixedSpend" THEN {0} ELSE U64

ReturnIsBounded(q, x) == q.mode = "DeferredReturnSpend" => x <= q.spend

Variant(mode) == IF mode = "FixedSpend" THEN "Direct" ELSE "DeferredReturn"

(* Mutant: the deferred handler stores the variant of the fixed one. *)
CandidateAlwaysDirect(q, x, salt) ==
  [digest |-> SpendRequestDigest(Context, q),
   response |->
     [variant |-> "Direct",
      signature |-> Preimage(SignedTokenTarget(q.fresh, x, salt)),
      returnAmount |-> x,
      salt |-> salt]]

(* sign_token_target on the fresh commitment, packed as the record that
   insert_if_absent is offered. *)
Candidate(q, x, salt) ==
  [digest |-> SpendRequestDigest(Context, q),
   response |->
     [variant |-> Variant(q.mode),
      signature |-> Preimage(SignedTokenTarget(q.fresh, x, salt)),
      returnAmount |-> x,
      salt |-> salt]]

(* Mutant: the last insertion replaces an earlier record. *)
LastInsertionWins(n, candidate) == candidate

(* The record that is durable after insert_if_absent, which it returns. *)
Winner(n, candidate) == IF store[n] = NoRecord THEN candidate ELSE store[n]

(* fixed_response and deferred_response. *)
Resolution(q, stored) ==
  IF stored.digest # SpendRequestDigest(Context, q) THEN "NullifierAlreadySpent"
  ELSE IF stored.response.variant # Variant(q.mode) THEN "InvalidRequest"
  ELSE "Ok"

ResponseOf(stored) ==
  [signature |-> stored.response.signature,
   returnAmount |-> stored.response.returnAmount,
   salt |-> stored.response.salt]

(* The call of replica r ends; its locals are dropped. *)
Return(r, how) ==
  /\ pc' = [pc EXCEPT ![r] = "idle"]
  /\ outcome' = [outcome EXCEPT ![r] = how]
  /\ record' = [record EXCEPT ![r] = NoRecord]
  /\ returnAmount' = [returnAmount EXCEPT ![r] = 0]
  /\ UNCHANGED request

Fault ==
  /\ faults < MaxFaults
  /\ faults' = faults + 1
-----------------------------------------------------------------------------
(***************************************************************************)
(* One action per step of Issuer::spend and                                *)
(* Issuer::spend_with_deferred_return.                                     *)
(***************************************************************************)

(* The application calls replica r with request q and return amount x. *)
Begin(r, q, x) ==
  /\ pc[r] = "idle"
  /\ x \in ReturnAmounts(q)
  /\ pc' = [pc EXCEPT ![r] = "get"]
  /\ request' = [request EXCEPT ![r] = q]
  /\ returnAmount' = [returnAmount EXCEPT ![r] = x]
  /\ outcome' = [outcome EXCEPT ![r] = "None"]
  /\ UNCHANGED <<store, record, replies, faults>>

(* Mutant: every hit is refused, exact retries included. *)
GetHitRefuses(r) ==
  /\ pc[r] = "get"
  /\ store[request[r].nullifier] # NoRecord
  /\ Return(r, "NullifierAlreadySpent")
  /\ UNCHANGED <<store, replies, faults>>

(* Mutant: the bound of the caller's return amount is checked before the
   retry is answered from its record. *)
GetHitChecksReturn(r) ==
  /\ pc[r] = "get"
  /\ store[request[r].nullifier] # NoRecord
  /\ IF ReturnIsBounded(request[r], returnAmount[r])
     THEN /\ pc' = [pc EXCEPT ![r] = "resolve"]
          /\ record' = [record EXCEPT ![r] = store[request[r].nullifier]]
          /\ UNCHANGED <<request, returnAmount, outcome>>
     ELSE Return(r, "InvalidReturnAmount")
  /\ UNCHANGED <<store, replies, faults>>

(* self.spent.get finds a record: no proof check and no randomness. *)
GetHit(r) ==
  /\ pc[r] = "get"
  /\ store[request[r].nullifier] # NoRecord
  /\ pc' = [pc EXCEPT ![r] = "resolve"]
  /\ record' = [record EXCEPT ![r] = store[request[r].nullifier]]
  /\ UNCHANGED <<store, request, returnAmount, outcome, replies, faults>>

GetMiss(r) ==
  /\ pc[r] = "get"
  /\ store[request[r].nullifier] = NoRecord
  /\ pc' = [pc EXCEPT ![r] = "admit"]
  /\ UNCHANGED <<store, request, returnAmount, record, outcome, replies, faults>>

GetFails(r) ==
  /\ pc[r] = "get"
  /\ Fault
  /\ Return(r, "StorageFailure")
  /\ UNCHANGED <<store, replies>>

(* The return bound is checked before the proof. *)
RefuseReturn(r) ==
  /\ pc[r] = "admit"
  /\ ~ReturnIsBounded(request[r], returnAmount[r])
  /\ Return(r, "InvalidReturnAmount")
  /\ UNCHANGED <<store, replies, faults>>

RefuseProof(r) ==
  /\ pc[r] = "admit"
  /\ ReturnIsBounded(request[r], returnAmount[r])
  /\ ~ProofVerifies(request[r])
  /\ Return(r, "InvalidProof")
  /\ UNCHANGED <<store, replies, faults>>

(* mayo::spre may exhaust its attempts. *)
SigningFails(r) ==
  /\ pc[r] = "admit"
  /\ ReturnIsBounded(request[r], returnAmount[r])
  /\ ProofVerifies(request[r])
  /\ Return(r, "SigningFailed")
  /\ UNCHANGED <<store, replies, faults>>

(* Mutant: signing does not wait for the verdict on the proof. *)
SignUnverified(r) ==
  /\ pc[r] = "admit"
  /\ ReturnIsBounded(request[r], returnAmount[r])
  /\ \E salt \in Salts :
       record' = [record EXCEPT ![r] = Candidate(request[r], returnAmount[r], salt)]
  /\ pc' = [pc EXCEPT ![r] = "insert"]
  /\ UNCHANGED <<store, request, returnAmount, outcome, replies, faults>>

Sign(r) ==
  /\ pc[r] = "admit"
  /\ ReturnIsBounded(request[r], returnAmount[r])
  /\ ProofVerifies(request[r])
  /\ \E salt \in Salts :
       record' = [record EXCEPT ![r] = Candidate(request[r], returnAmount[r], salt)]
  /\ pc' = [pc EXCEPT ![r] = "insert"]
  /\ UNCHANGED <<store, request, returnAmount, outcome, replies, faults>>

(* Mutant: the answer is computed from the candidate, not from the record
   that insert_if_absent returned. *)
InsertKeepsCandidate(r) ==
  LET n == request[r].nullifier
  IN /\ pc[r] = "insert"
     /\ store' = [store EXCEPT ![n] = Winner(n, record[r])]
     /\ pc' = [pc EXCEPT ![r] = "resolve"]
     /\ UNCHANGED <<request, returnAmount, record, outcome, replies, faults>>

(* self.spent.insert_if_absent, one linearizable operation. *)
Insert(r) ==
  LET n == request[r].nullifier
      w == Winner(n, record[r])
  IN /\ pc[r] = "insert"
     /\ store' = [store EXCEPT ![n] = w]
     /\ record' = [record EXCEPT ![r] = w]
     /\ pc' = [pc EXCEPT ![r] = "resolve"]
     /\ UNCHANGED <<request, returnAmount, outcome, replies, faults>>

(* The insertion returns an error although it may have become durable. *)
InsertFails(r) ==
  LET n == request[r].nullifier
  IN /\ pc[r] = "insert"
     /\ Fault
     /\ \/ UNCHANGED store
        \/ store' = [store EXCEPT ![n] = Winner(n, record[r])]
     /\ Return(r, "StorageFailure")
     /\ UNCHANGED replies

(* The handler returns; a success leaves the replica. *)
Respond(r) ==
  LET how == Resolution(request[r], record[r])
  IN /\ pc[r] = "resolve"
     /\ Return(r, how)
     /\ replies' = IF how = "Ok"
                   THEN replies \cup {[request |-> request[r],
                                       response |-> ResponseOf(record[r])]}
                   ELSE replies
     /\ UNCHANGED <<store, faults>>

(* The process dies in a call and is restored from its key bytes over the
   same store (from_key_bytes_with_store). *)
Crash(r) ==
  /\ pc[r] # "idle"
  /\ Fault
  /\ Return(r, "None")
  /\ UNCHANGED <<store, replies>>

(* What a running call does next, failures aside. *)
Proceed(r) ==
  \/ GetHit(r)
  \/ GetMiss(r)
  \/ RefuseReturn(r)
  \/ RefuseProof(r)
  \/ Sign(r)
  \/ Insert(r)
  \/ Respond(r)

Fail(r) ==
  \/ GetFails(r)
  \/ SigningFails(r)
  \/ InsertFails(r)
  \/ Crash(r)

Next ==
  \E r \in Replicas :
    \/ \E q \in Requests, x \in U64 : Begin(r, q, x)
    \/ Proceed(r)
    \/ Fail(r)

Spec == Init /\ [][Next]_vars

Answered(q) == \E a \in replies : a.request = q

(* Handlers are synchronous code: a call that has not crashed runs on.  A
   client that has no answer keeps retrying its request, and a retry is not
   shut out for ever by other calls. *)
Fairness ==
  /\ \A r \in Replicas : WF_vars(Proceed(r))
  /\ \A q \in Requests :
       SF_vars(~Answered(q) /\ \E r \in Replicas, x \in U64 : Begin(r, q, x))

FairSpec == Spec /\ Fairness
-----------------------------------------------------------------------------
(***************************************************************************)
(* What the issuer promises.                                               *)
(***************************************************************************)

(* A success leaves a replica only after its record is durable, and it is
   the response of the one record that won its nullifier: losing candidates
   are never released and every success for a nullifier is the same
   (issuer.rs spend, store.rs NullifierStore, DESIGN.md 5.6). *)
ReleasedIsDurable ==
  \A a \in replies :
    LET w == store[a.request.nullifier]
    IN /\ w # NoRecord
       /\ w.digest = SpendRequestDigest(Context, a.request)
       /\ a.response = ResponseOf(w)

(* A durable record was earned by a request whose proof verified against
   this issuer: it signs that request's fresh commitment, carries a return
   within the revealed spend, and in its mode's variant. *)
Earned(w, q) ==
  /\ w.digest = SpendRequestDigest(Context, q)
  /\ ProofVerifies(q)
  /\ ReturnIsBounded(q, w.response.returnAmount)
  /\ w.response.returnAmount \in ReturnAmounts(q)
  /\ w.response.variant = Variant(q.mode)
  /\ Eval(w.response.signature)
       = SignedTokenTarget(q.fresh, w.response.returnAmount, w.response.salt)

RecordsAreEarned ==
  \A n \in Nullifiers :
    store[n] # NoRecord =>
      \E q \in Requests : q.nullifier = n /\ Earned(store[n], q)

(* The store holds the record of exactly this request. *)
Consumed(q) ==
  /\ store[q.nullifier] # NoRecord
  /\ store[q.nullifier].digest = SpendRequestDigest(Context, q)

(* NullifierAlreadySpent is answered only while another request's record is
   durable; a request refused with InvalidProof is never, before or after,
   the one that consumed its nullifier; and the arms for a record of the
   other variant in fixed_response and deferred_response are never taken.
   Nothing is said here of InvalidReturnAmount and SigningFailed, which a
   duplicate whose lookup missed may still get (see RetriesAreReplayed). *)
RefusalsAreJustified ==
  \A r \in Replicas :
    /\ outcome[r] = "NullifierAlreadySpent" =>
         /\ store[request[r].nullifier] # NoRecord
         /\ ~Consumed(request[r])
    /\ outcome[r] = "InvalidProof" => ~Consumed(request[r])
    /\ outcome[r] # "InvalidRequest"

(* A call whose request's record is durable when it looks it up, inserts or
   answers ends in no refusal of any kind, whatever return amount the retry
   carries: short of a crash or a storage failure, its steps lead to the
   success that hands out the response of that record.  The one retry left
   out is at "admit": its lookup missed before the other call of the same
   request inserted, and it may still be refused there for its own return
   amount or by the signer (issuer.rs spend, spend_with_deferred_return). *)
RetriesAreReplayed ==
  [][\A r \in Replicas :
       LET q == request[r]
       IN pc[r] \in {"get", "insert", "resolve"} /\ Consumed(q) =>
            \/ pc'[r] \in {pc[r], "resolve"} /\ request'[r] = q
            \/ faults' > faults
            \/ /\ pc'[r] = "idle"
               /\ outcome'[r] = "Ok"
               /\ [request |-> q, response |-> ResponseOf(store[q.nullifier])]
                    \in replies']_vars

(* No step of any replica, and no crash or failed insertion, removes or
   replaces a record.  ImplementsSpendOnce implies it and is what TLC checks; this
   is proved by itself. *)
SpentForever ==
  [][\A n \in Nullifiers : store[n] # NoRecord => store'[n] = store[n]]_vars

(* Once a nullifier is consumed, the client whose request consumed it
   obtains the answer by retrying, however many replicas crashed between
   the insertion and the answer. *)
ConsumedIsAnswered ==
  \A q \in Requests : Consumed(q) ~> Answered(q)

(* The replicas together implement the once-for-ever nullifier service: the
   insertion that wins is the moment of acceptance, and every other step of
   a call, a crash or a failure is invisible. *)
Once == INSTANCE SpendOnce WITH accepted <- store, answers <- replies

ImplementsSpendOnce == Once!Spec
=============================================================================
