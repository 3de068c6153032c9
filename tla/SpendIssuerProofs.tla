------------------------- MODULE SpendIssuerProofs --------------------------
(***************************************************************************)
(* Proofs about SpendIssuer, for every number of replicas, every set of    *)
(* requests, nullifiers, commitments and salts, every u64 bound and every  *)
(* number of faults.                                                       *)
(***************************************************************************)
EXTENDS SpendIssuer, TLAPS

-----------------------------------------------------------------------------
(***************************************************************************)
(* Lemmas about the values the handlers build.                             *)
(***************************************************************************)

(* A candidate is a well-formed retry record, hence not the "no record"
   mark: what sign_token_target and the handler pack can be stored. *)
LEMMA CandidateType ==
  ASSUME NEW q \in Requests, NEW x \in U64, NEW salt \in Salts
  PROVE  /\ Candidate(q, x, salt) \in RetryRecords
         /\ Candidate(q, x, salt) # NoRecord
<1>1. q \in SpendRequests /\ q.fresh \in Commitments
  BY RequestsAssumption DEF SpendRequests
<1>2. SpendRequestDigest(Context, q) \in Digests
  BY <1>1, ContextAssumption DEF SpendRequestDigest, Digests
<1>3. Preimage(SignedTokenTarget(q.fresh, x, salt)) \in Signatures
  BY <1>1 DEF Preimage, SignedTokenTarget, Signatures, Targets
<1>4. Variant(q.mode) \in {"Direct", "DeferredReturn"}
  BY DEF Variant
<1>5. Candidate(q, x, salt) \in RetryRecords
  BY <1>2, <1>3, <1>4 DEF Candidate, RetryRecords, RetryResponses
<1> QED
  BY <1>5, NoRecordAssumption

(* Signing after the return bound and the proof were checked earns the
   record for the request. *)
LEMMA CandidateEarned ==
  ASSUME NEW q \in Requests, NEW x \in ReturnAmounts(q), NEW salt \in Salts,
         ProofVerifies(q), ReturnIsBounded(q, x)
  PROVE  Earned(Candidate(q, x, salt), q)
BY DEF Earned, Candidate, Eval, Preimage

(* The response handed out is a well-typed one. *)
LEMMA ResponseType ==
  ASSUME NEW w \in RetryRecords
  PROVE  ResponseOf(w) \in SpendResponses
BY DEF ResponseOf, SpendResponses, RetryRecords, RetryResponses

(* The digest identifies the request. *)
LEMMA DigestInjective ==
  ASSUME NEW p, NEW q,
         SpendRequestDigest(Context, p) = SpendRequestDigest(Context, q)
  PROVE  p = q
BY DEF SpendRequestDigest

(* Return amounts are u64 values. *)
LEMMA ReturnAmountsType ==
  ASSUME NEW q, NEW x \in ReturnAmounts(q)
  PROVE  x \in U64
BY U64MaxAssumption DEF ReturnAmounts, U64
-----------------------------------------------------------------------------
(***************************************************************************)
(* Type correctness.  Calls in flight always have a request, and after     *)
(* signing they hold a record.                                             *)
(***************************************************************************)
CallsAreTyped ==
  \A r \in Replicas :
    /\ pc[r] # "idle" => request[r] \in Requests
    /\ pc[r] \in {"insert", "resolve"} => record[r] \in RetryRecords
    /\ outcome[r] \notin {"None"} => request[r] \in Requests

TypeInv == TypeOK /\ CallsAreTyped

(* The state in which no issuer has been called is well typed. *)
LEMMA TypeInit == Init => TypeInv
<1> SUFFICES ASSUME Init PROVE TypeInv
  OBVIOUS
<1>1. 0 \in U64 /\ 0 \in 0 .. MaxFaults
  BY U64MaxAssumption, MaxFaultsAssumption DEF U64
<1>2. TypeOK
  BY <1>1 DEF Init, TypeOK, Steps, Outcomes
<1>3. CallsAreTyped
  BY DEF Init, CallsAreTyped
<1> QED
  BY <1>2, <1>3 DEF TypeInv

(* Every request that can be in flight names a nullifier of the store. *)
LEMMA RequestNullifier ==
  ASSUME NEW q \in Requests
  PROVE  q.nullifier \in Nullifiers
BY RequestsAssumption DEF SpendRequests

(* What insert_if_absent leaves durable is a record. *)
LEMMA WinnerType ==
  ASSUME TypeInv, NEW n \in Nullifiers, NEW candidate \in RetryRecords
  PROVE  Winner(n, candidate) \in RetryRecords
BY DEF TypeInv, TypeOK, Winner

(* A returning call keeps the call variables well typed. *)
LEMMA ReturnType ==
  ASSUME TypeInv, NEW r \in Replicas, NEW how \in Outcomes, Return(r, how),
         pc[r] # "idle"
  PROVE  /\ pc' \in [Replicas -> Steps]
         /\ request' \in [Replicas -> Requests \cup {NoRequest}]
         /\ returnAmount' \in [Replicas -> U64]
         /\ record' \in [Replicas -> RetryRecords \cup {NoRecord}]
         /\ outcome' \in [Replicas -> Outcomes]
         /\ CallsAreTyped'
<1>1. 0 \in U64 /\ "idle" \in Steps
  BY U64MaxAssumption DEF U64, Steps
<1>2. /\ pc' \in [Replicas -> Steps]
      /\ request' \in [Replicas -> Requests \cup {NoRequest}]
      /\ returnAmount' \in [Replicas -> U64]
      /\ record' \in [Replicas -> RetryRecords \cup {NoRecord}]
      /\ outcome' \in [Replicas -> Outcomes]
  BY <1>1 DEF TypeInv, TypeOK, Return
<1>3. CallsAreTyped'
  BY DEF TypeInv, TypeOK, CallsAreTyped, Return
<1> QED
  BY <1>2, <1>3

(* The fault counter stays within its bound. *)
LEMMA FaultType ==
  ASSUME TypeInv, Fault
  PROVE  faults' \in 0 .. MaxFaults
BY MaxFaultsAssumption DEF TypeInv, TypeOK, Fault

(* No step of Issuer::spend or spend_with_deferred_return, no crash and no
   storage failure leaves the types. *)
LEMMA TypeStep == TypeInv /\ [Next]_vars => TypeInv'
<1> SUFFICES ASSUME TypeInv, [Next]_vars PROVE TypeInv'
  OBVIOUS
<1> USE DEF TypeInv
<1>1. ASSUME NEW r \in Replicas, NEW q \in Requests, NEW x \in U64, Begin(r, q, x)
      PROVE  TypeInv'
  <2>1. TypeOK'
    BY <1>1 DEF Begin, TypeOK, Steps, Outcomes
  <2>2. CallsAreTyped'
    BY <1>1 DEF Begin, TypeOK, CallsAreTyped
  <2> QED
    BY <2>1, <2>2
<1>2. ASSUME NEW r \in Replicas, GetHit(r)
      PROVE  TypeInv'
  <2>1. store[request[r].nullifier] \in RetryRecords
    BY <1>2, RequestNullifier DEF GetHit, TypeOK, CallsAreTyped
  <2>2. TypeOK'
    BY <1>2, <2>1 DEF GetHit, TypeOK, Steps
  <2>3. CallsAreTyped'
    BY <1>2, <2>1 DEF GetHit, TypeOK, CallsAreTyped
  <2> QED
    BY <2>2, <2>3
<1>3. ASSUME NEW r \in Replicas, GetMiss(r)
      PROVE  TypeInv'
  <2>1. TypeOK'
    BY <1>3 DEF GetMiss, TypeOK, Steps
  <2>2. CallsAreTyped'
    BY <1>3 DEF GetMiss, TypeOK, CallsAreTyped
  <2> QED
    BY <2>1, <2>2
<1>4. ASSUME NEW r \in Replicas, Sign(r)
      PROVE  TypeInv'
  <2>1. PICK salt \in Salts :
          record' = [record EXCEPT ![r] = Candidate(request[r], returnAmount[r], salt)]
    BY <1>4 DEF Sign
  <2>2. Candidate(request[r], returnAmount[r], salt) \in RetryRecords
    BY <1>4, CandidateType DEF Sign, TypeOK, CallsAreTyped
  <2>3. TypeOK'
    BY <1>4, <2>1, <2>2 DEF Sign, TypeOK, Steps
  <2>4. CallsAreTyped'
    BY <1>4, <2>1, <2>2 DEF Sign, TypeOK, CallsAreTyped
  <2> QED
    BY <2>3, <2>4
<1>5. ASSUME NEW r \in Replicas, Insert(r)
      PROVE  TypeInv'
  <2> DEFINE n == request[r].nullifier
             w == Winner(n, record[r])
  <2>1. n \in Nullifiers /\ record[r] \in RetryRecords
    BY <1>5, RequestNullifier DEF Insert, CallsAreTyped
  <2>2. w \in RetryRecords
    BY <2>1, WinnerType
  <2>3. /\ pc[r] = "insert"
        /\ store' = [store EXCEPT ![n] = w]
        /\ record' = [record EXCEPT ![r] = w]
        /\ pc' = [pc EXCEPT ![r] = "resolve"]
        /\ UNCHANGED <<request, returnAmount, outcome, replies, faults>>
    BY <1>5 DEF Insert
  <2> HIDE DEF n, w
  <2>4. TypeOK'
    BY <2>1, <2>2, <2>3 DEF TypeOK, Steps
  <2>5. CallsAreTyped'
    BY <2>2, <2>3 DEF TypeOK, CallsAreTyped
  <2> QED
    BY <2>4, <2>5
<1>6. ASSUME NEW r \in Replicas, Respond(r)
      PROVE  TypeInv'
  <2> DEFINE how == Resolution(request[r], record[r])
  <2>1. how \in Outcomes
    BY DEF Resolution, Outcomes
  <2>2. /\ pc[r] = "resolve"
        /\ request[r] \in Requests
        /\ ResponseOf(record[r]) \in SpendResponses
    BY <1>6, ResponseType DEF Respond, CallsAreTyped
  <2>3. replies' \subseteq [request : Requests, response : SpendResponses]
    BY <1>6, <2>2 DEF Respond, TypeOK
  <2>4. /\ pc' \in [Replicas -> Steps]
        /\ request' \in [Replicas -> Requests \cup {NoRequest}]
        /\ returnAmount' \in [Replicas -> U64]
        /\ record' \in [Replicas -> RetryRecords \cup {NoRecord}]
        /\ outcome' \in [Replicas -> Outcomes]
        /\ CallsAreTyped'
    BY <1>6, <2>1, <2>2, ReturnType DEF Respond
  <2> QED
    BY <1>6, <2>3, <2>4 DEF Respond, TypeOK
<1>7. ASSUME NEW r \in Replicas,
             RefuseReturn(r) \/ RefuseProof(r) \/ SigningFails(r)
      PROVE  TypeInv'
  <2>1. PICK how \in Outcomes : Return(r, how)
    BY <1>7 DEF RefuseReturn, RefuseProof, SigningFails, Outcomes
  <2>2. pc[r] # "idle" /\ UNCHANGED <<store, replies, faults>>
    BY <1>7 DEF RefuseReturn, RefuseProof, SigningFails
  <2> QED
    BY <2>1, <2>2, ReturnType DEF TypeOK
<1>8. ASSUME NEW r \in Replicas, GetFails(r) \/ InsertFails(r) \/ Crash(r)
      PROVE  TypeInv'
  <2>1. PICK how \in Outcomes : Return(r, how)
    BY <1>8 DEF GetFails, InsertFails, Crash, Outcomes
  <2>2. pc[r] # "idle" /\ Fault /\ UNCHANGED replies
    BY <1>8 DEF GetFails, InsertFails, Crash
  <2>3. store' \in [Nullifiers -> RetryRecords \cup {NoRecord}]
    <3>1. CASE InsertFails(r)
      <4>1. request[r].nullifier \in Nullifiers /\ record[r] \in RetryRecords
        BY <3>1, RequestNullifier DEF InsertFails, CallsAreTyped
      <4>2. Winner(request[r].nullifier, record[r]) \in RetryRecords
        BY <4>1, WinnerType
      <4> QED
        BY <3>1, <4>1, <4>2 DEF InsertFails, TypeOK
    <3>2. CASE GetFails(r) \/ Crash(r)
      BY <3>2 DEF GetFails, Crash, TypeOK
    <3> QED
      BY <1>8, <3>1, <3>2
  <2> QED
    BY <2>1, <2>2, <2>3, ReturnType, FaultType DEF TypeOK
<1>9. CASE UNCHANGED vars
  BY <1>9 DEF vars, callVars, TypeOK, CallsAreTyped
<1> QED
  BY <1>1, <1>2, <1>3, <1>4, <1>5, <1>6, <1>7, <1>8, <1>9 DEF Next, Proceed, Fail

(* Every variable keeps its type in every behaviour. *)
THEOREM TypeCorrect == Spec => []TypeOK
<1>1. TypeInv => TypeOK
  BY DEF TypeInv
<1> QED
  BY <1>1, TypeInit, TypeStep, PTL DEF Spec
-----------------------------------------------------------------------------
(***************************************************************************)
(* How a step touches the store and the other replicas.                    *)
(***************************************************************************)
StoreGrows == \A n \in Nullifiers : store[n] # NoRecord => store'[n] = store[n]

StepOf(r) ==
  \/ \E q \in Requests, x \in U64 : Begin(r, q, x)
  \/ Proceed(r)
  \/ Fail(r)

(* Only an insertion writes the store, and what it writes at the call's
   nullifier is the winner between the store's row and the candidate. *)
LEMMA StoreStep ==
  ASSUME NEW r \in Replicas, StepOf(r)
  PROVE  \/ UNCHANGED store
         \/ /\ pc[r] = "insert"
            /\ LET n == request[r].nullifier
               IN store' = [store EXCEPT ![n] = Winner(n, record[r])]
<1>1. CASE \E q \in Requests, x \in U64 : Begin(r, q, x)
  BY <1>1 DEF Begin
<1>2. CASE Proceed(r)
  BY <1>2 DEF Proceed, GetHit, GetMiss, RefuseReturn, RefuseProof, Sign,
              Insert, Respond
<1>3. CASE Fail(r)
  BY <1>3 DEF Fail, GetFails, SigningFails, InsertFails, Crash
<1> QED
  BY <1>1, <1>2, <1>3 DEF StepOf

(* insert_if_absent never overwrites: a row of the store is final. *)
LEMMA StoreGrowsStep == TypeInv /\ [Next]_vars => StoreGrows
<1> SUFFICES ASSUME TypeInv, [Next]_vars PROVE StoreGrows
  OBVIOUS
<1>1. CASE UNCHANGED vars
  BY <1>1 DEF vars, StoreGrows
<1>2. ASSUME NEW r \in Replicas, StepOf(r) PROVE StoreGrows
  BY <1>2, StoreStep DEF TypeInv, TypeOK, Winner, StoreGrows
<1> QED
  BY <1>1, <1>2 DEF Next, StepOf

(* A step of one replica leaves the calls of the others alone. *)
LEMMA OthersUnchanged ==
  ASSUME TypeInv, NEW r \in Replicas, StepOf(r), NEW s \in Replicas, s # r
  PROVE  /\ pc'[s] = pc[s]
         /\ request'[s] = request[s]
         /\ returnAmount'[s] = returnAmount[s]
         /\ record'[s] = record[s]
         /\ outcome'[s] = outcome[s]
<1> USE DEF TypeInv, TypeOK
<1>1. CASE \E q \in Requests, x \in U64 : Begin(r, q, x)
  BY <1>1 DEF Begin
<1>2. CASE Proceed(r)
  BY <1>2 DEF Proceed, GetHit, GetMiss, RefuseReturn, RefuseProof, Sign,
              Insert, Respond, Return
<1>3. CASE Fail(r)
  BY <1>3 DEF Fail, GetFails, SigningFails, InsertFails, Crash, Return
<1> QED
  BY <1>1, <1>2, <1>3 DEF StepOf
-----------------------------------------------------------------------------
(***************************************************************************)
(* The inductive invariant.  The promises are not inductive alone: they    *)
(* need what a call in flight has already established.                     *)
(***************************************************************************)
CallIsHonest(r) ==
  /\ pc[r] # "idle" => returnAmount[r] \in ReturnAmounts(request[r])
  /\ pc[r] = "insert" => Earned(record[r], request[r])
  /\ pc[r] = "resolve" => record[r] = store[request[r].nullifier]
  /\ outcome[r] = "InvalidProof" => ~ProofVerifies(request[r])

CallsAreHonest == \A r \in Replicas : CallIsHonest(r)

SafetyInv ==
  /\ TypeInv
  /\ CallsAreHonest
  /\ RecordsAreEarned
  /\ ReleasedIsDurable
  /\ RefusalsAreJustified

(* With an empty store and no call in flight every promise holds. *)
LEMMA SafetyInit == Init => SafetyInv
<1> SUFFICES ASSUME Init PROVE SafetyInv
  OBVIOUS
<1>1. CallsAreHonest
  BY DEF Init, CallsAreHonest, CallIsHonest
<1>2. RecordsAreEarned /\ ReleasedIsDurable /\ RefusalsAreJustified
  BY DEF Init, RecordsAreEarned, ReleasedIsDurable, RefusalsAreJustified
<1> QED
  BY <1>1, <1>2, TypeInit DEF SafetyInv

(* The calls stay honest: a candidate is signed only for a checked request,
   and the record a call answers from stays the store's row. *)
LEMMA HonestStep ==
  ASSUME SafetyInv, NEW r \in Replicas, StepOf(r), TypeInv'
  PROVE  CallsAreHonest'
<1> USE DEF SafetyInv
<1>1. StoreGrows
  BY StoreGrowsStep DEF StepOf, Next
<1>2. ASSUME NEW s \in Replicas, s # r PROVE CallIsHonest(s)'
  <2>1. /\ pc'[s] = pc[s]
        /\ request'[s] = request[s]
        /\ returnAmount'[s] = returnAmount[s]
        /\ record'[s] = record[s]
        /\ outcome'[s] = outcome[s]
    BY <1>2, OthersUnchanged
  <2>2. CallIsHonest(s)
    BY DEF CallsAreHonest
  <2>3. pc[s] = "resolve" => store'[request[s].nullifier] = record[s]
    BY <2>2, <1>1, RequestNullifier, NoRecordAssumption
    DEF CallIsHonest, TypeInv, CallsAreTyped, StoreGrows
  <2> QED
    BY <2>1, <2>2, <2>3 DEF CallIsHonest, Earned, ProofVerifies
<1>3. CallIsHonest(r)'
  <2> USE DEF TypeInv, TypeOK
  <2>1. CallIsHonest(r)
    BY DEF CallsAreHonest
  <2>2. ASSUME NEW q \in Requests, NEW x \in U64, Begin(r, q, x)
        PROVE  CallIsHonest(r)'
    BY <2>2 DEF Begin, CallIsHonest
  <2>3. CASE GetHit(r)
    BY <2>1, <2>3 DEF GetHit, CallIsHonest
  <2>4. CASE GetMiss(r)
    BY <2>1, <2>4 DEF GetMiss, CallIsHonest
  <2>5. CASE Sign(r)
    <3>1. PICK salt \in Salts :
            record' = [record EXCEPT ![r] = Candidate(request[r], returnAmount[r], salt)]
      BY <2>5 DEF Sign
    <3>2. /\ request[r] \in Requests
          /\ returnAmount[r] \in ReturnAmounts(request[r])
          /\ ProofVerifies(request[r])
          /\ ReturnIsBounded(request[r], returnAmount[r])
      BY <2>1, <2>5 DEF Sign, CallIsHonest, CallsAreTyped
    <3>3. Earned(record'[r], request[r])
      BY <3>1, <3>2, CandidateEarned
    <3>4. /\ pc'[r] = "insert"
          /\ request' = request
          /\ returnAmount' = returnAmount
          /\ outcome' = outcome
      BY <2>5 DEF Sign
    <3>5. Earned(record'[r], request'[r])
      BY <3>3, <3>4
    <3> QED
      BY <2>1, <3>2, <3>4, <3>5 DEF CallIsHonest, Earned, ProofVerifies
  <2>6. CASE Insert(r)
    <3>1. request[r].nullifier \in Nullifiers
      BY <2>6, RequestNullifier DEF Insert, CallsAreTyped
    <3> QED
      BY <2>1, <2>6, <3>1 DEF Insert, CallIsHonest
  <2>7. ASSUME NEW how, Return(r, how),
               how = "InvalidProof" => ~ProofVerifies(request[r])
        PROVE  CallIsHonest(r)'
    BY <2>7 DEF Return, CallIsHonest, ProofVerifies
  <2>8. CASE RefuseProof(r)
    BY <2>7, <2>8 DEF RefuseProof
  <2>9. CASE Respond(r)
    BY <2>7, <2>9 DEF Respond, Resolution
  <2> QED
    BY <2>2, <2>3, <2>4, <2>5, <2>6, <2>7, <2>8, <2>9
    DEF StepOf, Proceed, Fail, RefuseReturn, GetFails, SigningFails, InsertFails,
        Crash
<1> QED
  BY <1>2, <1>3 DEF CallsAreHonest

(* Whatever wins an insertion was earned by the request of the call that
   inserted it. *)
LEMMA EarnedStep ==
  ASSUME SafetyInv, NEW r \in Replicas, StepOf(r)
  PROVE  RecordsAreEarned'
<1> USE DEF SafetyInv
<1>1. CASE UNCHANGED store
  BY <1>1 DEF RecordsAreEarned, Earned, ProofVerifies
<1>2. CASE pc[r] = "insert" /\ LET n == request[r].nullifier
                               IN store' = [store EXCEPT ![n] = Winner(n, record[r])]
  <2>1. /\ request[r] \in Requests
        /\ request[r].nullifier \in Nullifiers
        /\ Earned(record[r], request[r])
    BY <1>2, RequestNullifier
    DEF TypeInv, CallsAreTyped, CallsAreHonest, CallIsHonest
  <2>2. ASSUME NEW n \in Nullifiers, store'[n] # NoRecord
        PROVE  \E q \in Requests : q.nullifier = n /\ Earned(store'[n], q)
    <3>1. CASE store'[n] = store[n]
      BY <2>2, <3>1 DEF RecordsAreEarned
    <3>2. CASE store'[n] # store[n]
      <4>1. n = request[r].nullifier /\ store'[n] = record[r]
        BY <1>2, <3>2 DEF TypeInv, TypeOK, Winner
      <4> QED
        BY <2>1, <4>1
    <3> QED
      BY <3>1, <3>2
  <2> QED
    BY <2>2 DEF RecordsAreEarned, Earned, ProofVerifies
<1> QED
  BY <1>1, <1>2, StoreStep

(* An answer that leaves a replica is the store's row for its request. *)
LEMMA ReleasedStep ==
  ASSUME SafetyInv, NEW r \in Replicas, StepOf(r), TypeInv'
  PROVE  ReleasedIsDurable'
<1> USE DEF SafetyInv
<1>1. StoreGrows
  BY StoreGrowsStep DEF StepOf, Next
<1>2. ASSUME NEW a \in replies
      PROVE  LET w == store'[a.request.nullifier]
             IN /\ w # NoRecord
                /\ w.digest = SpendRequestDigest(Context, a.request)
                /\ a.response = ResponseOf(w)
  <2>1. a.request \in Requests
    BY DEF TypeInv, TypeOK
  <2>2. store'[a.request.nullifier] = store[a.request.nullifier]
    BY <1>1, <2>1, RequestNullifier DEF StoreGrows, ReleasedIsDurable
  <2> QED
    BY <2>2 DEF ReleasedIsDurable
<1>3. CASE replies' = replies
  BY <1>2, <1>3 DEF ReleasedIsDurable
<1>4. CASE Respond(r) /\ replies' # replies
  <2>1. /\ Resolution(request[r], record[r]) = "Ok"
        /\ record[r] = store[request[r].nullifier]
        /\ record[r] \in RetryRecords
        /\ UNCHANGED store
        /\ replies' = replies \cup {[request |-> request[r],
                                    response |-> ResponseOf(record[r])]}
    BY <1>4 DEF Respond, CallsAreHonest, CallIsHonest, TypeInv, CallsAreTyped
  <2>2. record[r].digest = SpendRequestDigest(Context, request[r])
    BY <2>1 DEF Resolution
  <2>3. record[r] # NoRecord
    BY <2>1, NoRecordAssumption
  <2> QED
    BY <1>2, <2>1, <2>2, <2>3 DEF ReleasedIsDurable
<1>5. replies' = replies \/ Respond(r)
  BY DEF StepOf, Proceed, Fail, Begin, GetHit, GetMiss, RefuseReturn,
         RefuseProof, Sign, Insert, GetFails, SigningFails, InsertFails, Crash
<1> QED
  BY <1>3, <1>4, <1>5

(* A consumed nullifier names its request: the durable record was earned by
   the very request whose digest it holds, so that request's proof verified
   and the record has its variant. *)
LEMMA ConsumedIsEarned ==
  ASSUME RecordsAreEarned, NEW q \in Requests, Consumed(q)
  PROVE  Earned(store[q.nullifier], q)
<1>1. PICK p \in Requests : Earned(store[q.nullifier], p)
  BY RequestNullifier DEF Consumed, RecordsAreEarned
<1>2. p = q
  BY <1>1, DigestInjective DEF Consumed, Earned
<1> QED
  BY <1>1, <1>2

(* A refusal over the store is answered only against another request's row:
   equal digests mean equal requests, so the row has the caller's variant,
   and its proof verified. *)
LEMMA RefusalsStep ==
  ASSUME SafetyInv, NEW r \in Replicas, StepOf(r),
         TypeInv', CallsAreHonest', RecordsAreEarned'
  PROVE  RefusalsAreJustified'
<1> USE DEF SafetyInv
<1> DEFINE Justified(s) ==
             /\ outcome[s] = "NullifierAlreadySpent" =>
                  LET w == store[request[s].nullifier]
                  IN w # NoRecord /\ w.digest # SpendRequestDigest(Context, request[s])
             /\ outcome[s] # "InvalidRequest"
<1>1. StoreGrows
  BY StoreGrowsStep DEF StepOf, Next
<1>2. ASSUME NEW s \in Replicas, outcome'[s] = outcome[s], request'[s] = request[s]
      PROVE  Justified(s)'
  <2>1. outcome[s] = "NullifierAlreadySpent" => request[s].nullifier \in Nullifiers
    BY RequestNullifier DEF TypeInv, CallsAreTyped
  <2>2. Justified(s)
    BY DEF RefusalsAreJustified, Consumed
  <2> QED
    BY <1>1, <1>2, <2>1, <2>2 DEF StoreGrows
<1>3. Justified(r)'
  <2> USE DEF TypeInv, TypeOK
  <2>1. CASE Respond(r)
    <3>1. /\ request[r] \in Requests
          /\ record[r] = store[request[r].nullifier]
          /\ record[r] \in RetryRecords
          /\ outcome'[r] = Resolution(request[r], record[r])
          /\ UNCHANGED <<store, request>>
      BY <2>1 DEF Respond, Return, CallsAreTyped, CallsAreHonest, CallIsHonest
    <3>2. record[r] # NoRecord
      BY <3>1, NoRecordAssumption
    <3>3. PICK q \in Requests : Earned(record[r], q)
      BY <3>1, <3>2, RequestNullifier DEF RecordsAreEarned
    <3>4. ASSUME record[r].digest = SpendRequestDigest(Context, request[r])
          PROVE  Resolution(request[r], record[r]) = "Ok"
      <4>1. q = request[r]
        BY <3>3, <3>4, DigestInjective DEF Earned
      <4> QED
        BY <3>3, <3>4, <4>1 DEF Resolution, Earned
    <3>5. Resolution(request[r], record[r]) # "InvalidRequest"
      BY <3>4 DEF Resolution
    <3>6. Resolution(request[r], record[r]) = "NullifierAlreadySpent"
            => record[r].digest # SpendRequestDigest(Context, request[r])
      BY <3>4
    <3> QED
      BY <3>1, <3>2, <3>5, <3>6
  <2>2. CASE outcome'[r] = outcome[r] /\ request'[r] = request[r]
    BY <1>2, <2>2
  <2>3. CASE outcome'[r] \in {"None", "InvalidReturnAmount", "InvalidProof",
                             "SigningFailed", "StorageFailure"}
    BY <2>3
  <2> QED
    BY <2>1, <2>2, <2>3
    DEF StepOf, Proceed, Fail, Begin, GetHit, GetMiss, RefuseReturn,
        RefuseProof, Sign, Insert, GetFails, SigningFails, InsertFails,
        Crash, Return
<1>4. ASSUME NEW s \in Replicas PROVE Justified(s)'
  <2>1. CASE s = r
    BY <1>3, <2>1
  <2>2. CASE s # r
    <3>1. outcome'[s] = outcome[s] /\ request'[s] = request[s]
      BY <2>2, OthersUnchanged
    <3> QED
      BY <1>2, <3>1
  <2> QED
    BY <2>1, <2>2
<1>5. ASSUME NEW s \in Replicas, outcome'[s] = "InvalidProof"
      PROVE  ~Consumed(request[s])'
  <2>1. request'[s] \in Requests /\ ~ProofVerifies(request'[s])
    BY <1>5 DEF TypeInv, CallsAreTyped, CallsAreHonest, CallIsHonest, ProofVerifies
  <2>2. ASSUME Consumed(request[s])'
        PROVE  FALSE
    <3>1. PICK p \in Requests : Earned(store'[request'[s].nullifier], p)
      BY <2>1, <2>2, RequestNullifier DEF Consumed, RecordsAreEarned, Earned, ProofVerifies
    <3>2. p = request'[s]
      BY <2>2, <3>1, DigestInjective DEF Consumed, Earned
    <3> QED
      BY <2>1, <3>1, <3>2 DEF Earned
  <2> QED
    BY <2>2
<1> QED
  BY <1>4, <1>5 DEF RefusalsAreJustified, Consumed

(* One step of any replica keeps the inductive invariant. *)
LEMMA SafetyStep == SafetyInv /\ [Next]_vars => SafetyInv'
<1> SUFFICES ASSUME SafetyInv, [Next]_vars PROVE SafetyInv'
  OBVIOUS
<1>1. TypeInv'
  BY TypeStep DEF SafetyInv
<1>2. ASSUME NEW r \in Replicas, StepOf(r) PROVE SafetyInv'
  BY <1>1, <1>2, HonestStep, EarnedStep, ReleasedStep, RefusalsStep
  DEF SafetyInv
<1>3. CASE UNCHANGED vars
  <2> USE <1>3 DEF SafetyInv, vars, callVars
  <2>1. CallsAreHonest'
    BY DEF CallsAreHonest, CallIsHonest, Earned, ProofVerifies
  <2>2. RecordsAreEarned'
    BY DEF RecordsAreEarned, Earned, ProofVerifies
  <2>3. ReleasedIsDurable' /\ RefusalsAreJustified'
    BY DEF ReleasedIsDurable, RefusalsAreJustified, Consumed
  <2> QED
    BY <1>1, <2>1, <2>2, <2>3
<1> QED
  BY <1>2, <1>3 DEF Next, StepOf

(* In every behaviour each call in flight is honest about what it checked
   and what it read, and with it all promises of the issuer hold. *)
THEOREM SafetyInvariant == Spec => []SafetyInv
BY SafetyInit, SafetyStep, PTL DEF Spec

(* No signature is released before its nullifier record is durable, and
   every release is the winner's: issuer.rs spend and
   spend_with_deferred_return over any store that honours NullifierStore. *)
THEOREM ReleaseAfterPersistence == Spec => []ReleasedIsDurable
<1>1. SafetyInv => ReleasedIsDurable
  BY DEF SafetyInv
<1> QED
  BY <1>1, SafetyInvariant, PTL

(* Every durable record belongs to a verified request and stays within its
   revealed spend. *)
THEOREM RecordsEarned == Spec => []RecordsAreEarned
<1>1. SafetyInv => RecordsAreEarned
  BY DEF SafetyInv
<1> QED
  BY <1>1, SafetyInvariant, PTL

(* AlreadySpent answers only a request other than the one whose record is
   durable, a request with an invalid proof never consumes its nullifier, and
   the other-variant arms are unreachable. *)
THEOREM RefusalsJustified == Spec => []RefusalsAreJustified
<1>1. SafetyInv => RefusalsAreJustified
  BY DEF SafetyInv
<1> QED
  BY <1>1, SafetyInvariant, PTL

(* One step of a call whose request's record it looks up, inserts against or
   answers from: on its way to the replay, a counted fault, or the replay. *)
ReplayStep(s) ==
  LET q == request[s]
  IN pc[s] \in {"get", "insert", "resolve"} /\ Consumed(q) =>
       \/ pc'[s] \in {pc[s], "resolve"} /\ request'[s] = q
       \/ faults' > faults
       \/ /\ pc'[s] = "idle"
          /\ outcome'[s] = "Ok"
          /\ [request |-> q, response |-> ResponseOf(store[q.nullifier])] \in replies'

(* The replica that moves keeps its call on the way to the replay. *)
LEMMA ReplayOwnStep ==
  ASSUME SafetyInv, NEW r \in Replicas, StepOf(r)
  PROVE  ReplayStep(r)
<1> USE DEF SafetyInv, TypeInv, TypeOK
<1> DEFINE q == request[r]
<1> SUFFICES ASSUME pc[r] \in {"get", "insert", "resolve"}, Consumed(q)
             PROVE  \/ pc'[r] \in {pc[r], "resolve"} /\ request'[r] = q
                    \/ faults' > faults
                    \/ /\ pc'[r] = "idle"
                       /\ outcome'[r] = "Ok"
                       /\ [request |-> q, response |-> ResponseOf(store[q.nullifier])]
                            \in replies'
  BY DEF ReplayStep
<1>1. q \in Requests /\ store[q.nullifier] # NoRecord
  BY DEF CallsAreTyped, Consumed
<1>2. CASE GetHit(r) \/ Insert(r)
  BY <1>2 DEF GetHit, Insert
<1>3. CASE Respond(r)
  <2>1. record[r] = store[q.nullifier] /\ Earned(record[r], q)
    BY <1>1, <1>3, ConsumedIsEarned DEF Respond, CallsAreHonest, CallIsHonest
  <2>2. Resolution(q, record[r]) = "Ok"
    BY <2>1 DEF Resolution, Earned
  <2> QED
    BY <1>3, <2>1, <2>2 DEF Respond, Return
<1>4. CASE GetFails(r) \/ InsertFails(r) \/ Crash(r)
  BY <1>4 DEF GetFails, InsertFails, Crash, Fault
<1> QED
  BY <1>1, <1>2, <1>3, <1>4
  DEF StepOf, Proceed, Fail, Begin, GetMiss, RefuseReturn, RefuseProof, Sign,
      SigningFails

(* Every retry of a consumed request that looks up, inserts or answers ends
   in the replay of the durable response, for every number of replicas, every
   return amount it carries and every interleaving. *)
THEOREM RetriesReplayed == Spec => RetriesAreReplayed
<1>1. ASSUME SafetyInv, [Next]_vars, NEW s \in Replicas
      PROVE  ReplayStep(s)
  <2>1. CASE UNCHANGED vars
    BY <1>1, <2>1 DEF ReplayStep, vars, callVars
  <2>2. ASSUME NEW r \in Replicas, StepOf(r)
        PROVE  ReplayStep(s)
    <3>1. CASE s = r
      BY <1>1, <2>2, <3>1, ReplayOwnStep
    <3>2. CASE s # r
      BY <1>1, <2>2, <3>2, OthersUnchanged DEF ReplayStep, SafetyInv
    <3> QED
      BY <3>1, <3>2
  <2> QED
    BY <1>1, <2>1, <2>2 DEF Next, StepOf
<1>2. SafetyInv /\ [Next]_vars =>
        [\A r \in Replicas :
           LET q == request[r]
           IN pc[r] \in {"get", "insert", "resolve"} /\ Consumed(q) =>
                \/ pc'[r] \in {pc[r], "resolve"} /\ request'[r] = q
                \/ faults' > faults
                \/ /\ pc'[r] = "idle"
                   /\ outcome'[r] = "Ok"
                   /\ [request |-> q, response |-> ResponseOf(store[q.nullifier])]
                        \in replies']_vars
  BY <1>1 DEF ReplayStep
<1> QED
  BY <1>2, SafetyInvariant, PTL DEF Spec, RetriesAreReplayed

(* A consumed nullifier stays consumed by the same record. *)
THEOREM RecordsAreForever == Spec => SpentForever
<1>1. TypeInv /\ [Next]_vars =>
        [\A n \in Nullifiers : store[n] # NoRecord => store'[n] = store[n]]_vars
  BY StoreGrowsStep DEF StoreGrows
<1>2. Spec => []TypeInv
  BY TypeInit, TypeStep, PTL DEF Spec
<1> QED
  BY <1>1, <1>2, PTL DEF Spec, SpentForever
-----------------------------------------------------------------------------
(***************************************************************************)
(* The replicas implement SpendOnce.                                       *)
(***************************************************************************)

(* An earned record is the one SpendOnce leaves for its request. *)
LEMMA EarnedIsAcceptable ==
  ASSUME NEW q \in Requests, NEW w \in RetryRecords, Earned(w, q)
  PROVE  /\ w = Once!RecordFor(q, w.response.returnAmount, w.response.salt)
         /\ w.response.returnAmount \in U64
         /\ w.response.salt \in Salts
         /\ q.proof = SpendStatement(Context, q)
         /\ IF q.mode = "FixedSpend" THEN w.response.returnAmount = 0
            ELSE w.response.returnAmount <= q.spend
<1> DEFINE x == w.response.returnAmount
           salt == w.response.salt
<1>1. w.response \in RetryResponses
  BY DEF RetryRecords
<1>2. w.response.signature = Preimage(SignedTokenTarget(q.fresh, x, salt))
  BY <1>1 DEF RetryResponses, Signatures, Earned, Eval, Preimage
<1>3. w.response = [variant |-> Variant(q.mode),
                    signature |-> Preimage(SignedTokenTarget(q.fresh, x, salt)),
                    returnAmount |-> x,
                    salt |-> salt]
  BY <1>1, <1>2 DEF RetryResponses, Earned
<1>4. w = [digest |-> SpendRequestDigest(Context, q), response |-> w.response]
  BY DEF RetryRecords, Earned
<1>5. w = Once!RecordFor(q, x, salt)
  BY <1>3, <1>4
  DEF Once!RecordFor, Variant, SpendRequestDigest, Once!SpendRequestDigest,
      Preimage, Once!Preimage, SignedTokenTarget, Once!SignedTokenTarget
<1>6. q.mode \in SettlementModes
  BY RequestsAssumption DEF SpendRequests
<1>7. IF q.mode = "FixedSpend" THEN x = 0 ELSE x <= q.spend
  BY <1>6 DEF Earned, ReturnAmounts, ReturnIsBounded, SettlementModes
<1> QED
  BY <1>1, <1>5, <1>7 DEF RetryResponses, Earned, ProofVerifies

(* The insertion that wins is SpendOnce's acceptance. *)
LEMMA InsertIsAccept ==
  ASSUME SafetyInv, NEW r \in Replicas, pc[r] = "insert", UNCHANGED replies,
         LET n == request[r].nullifier
         IN store' = [store EXCEPT ![n] = Winner(n, record[r])]
  PROVE  [Once!Next]_<<store, replies>>
<1> DEFINE q == request[r]
           n == q.nullifier
           x == record[r].response.returnAmount
           salt == record[r].response.salt
<1>1. /\ q \in Requests
      /\ n \in Nullifiers
      /\ record[r] \in RetryRecords
      /\ Earned(record[r], q)
  BY RequestNullifier
  DEF SafetyInv, TypeInv, CallsAreTyped, CallsAreHonest, CallIsHonest
<1>2. CASE store[n] # NoRecord
  <2>1. store' = store
    BY <1>1, <1>2 DEF Winner, SafetyInv, TypeInv, TypeOK
  <2> QED
    BY <2>1
<1>3. CASE store[n] = NoRecord
  <2>1. store' = [store EXCEPT ![n] = record[r]]
    BY <1>3 DEF Winner
  <2>2. Once!Accept(q, x, salt)
    BY <1>1, <1>3, <2>1, EarnedIsAcceptable
    DEF Once!Accept, SpendStatement, Once!SpendStatement
  <2>3. x \in U64 /\ salt \in Salts
    BY <1>1, EarnedIsAcceptable
  <2> QED
    BY <1>1, <2>2, <2>3 DEF Once!Next, U64, Once!U64
<1> QED
  BY <1>2, <1>3

(* A successful answer is SpendOnce's answer. *)
LEMMA RespondIsAnswer ==
  ASSUME SafetyInv, NEW r \in Replicas, Respond(r)
  PROVE  [Once!Next]_<<store, replies>>
<1> DEFINE q == request[r]
           w == store[q.nullifier]
<1>1. /\ q \in Requests
      /\ record[r] = w
      /\ w \in RetryRecords
      /\ UNCHANGED store
  BY DEF Respond, SafetyInv, TypeInv, CallsAreTyped, CallsAreHonest, CallIsHonest
<1>2. CASE Resolution(q, w) = "Ok"
  <2>1. w # NoRecord /\ w.digest = SpendRequestDigest(Context, q)
    BY <1>1, <1>2, NoRecordAssumption DEF Resolution
  <2>2. replies' = replies \cup {[request |-> q, response |-> ResponseOf(w)]}
    BY <1>1, <1>2 DEF Respond
  <2>3. Once!Answer(q)
    BY <1>1, <2>1, <2>2
    DEF Once!Answer, ResponseOf, SpendRequestDigest, Once!SpendRequestDigest
  <2> QED
    BY <1>1, <2>3 DEF Once!Next
<1>3. CASE Resolution(q, w) # "Ok"
  BY <1>1, <1>3 DEF Respond
<1> QED
  BY <1>2, <1>3

(* Every step of a replica is an acceptance (the insertion that wins), an
   answer, or invisible to the nullifier service. *)
LEMMA RefinementStep == SafetyInv /\ [Next]_vars => [Once!Next]_<<store, replies>>
<1> SUFFICES ASSUME SafetyInv, [Next]_vars PROVE [Once!Next]_<<store, replies>>
  OBVIOUS
<1>1. ASSUME NEW r \in Replicas, StepOf(r)
      PROVE  [Once!Next]_<<store, replies>>
  <2>1. CASE Respond(r)
    BY <2>1, RespondIsAnswer
  <2>2. CASE UNCHANGED replies
    <3>1. CASE UNCHANGED store
      BY <2>2, <3>1
    <3>2. CASE ~UNCHANGED store
      BY <1>1, <2>2, <3>2, StoreStep, InsertIsAccept
    <3> QED
      BY <3>1, <3>2
  <2>3. Respond(r) \/ UNCHANGED replies
    BY <1>1 DEF StepOf, Proceed, Fail, Begin, GetHit, GetMiss, RefuseReturn,
       RefuseProof, Sign, Insert, GetFails, SigningFails, InsertFails, Crash
  <2> QED
    BY <2>1, <2>2, <2>3
<1>2. CASE UNCHANGED vars
  BY <1>2 DEF vars
<1> QED
  BY <1>1, <1>2 DEF Next, StepOf

(* The issuer replicas implement the once-for-ever nullifier service,
   whatever the interleaving, the crashes and the storage failures. *)
THEOREM Refinement == Spec => ImplementsSpendOnce
<1>1. Init => Once!Init
  BY DEF Init, Once!Init
<1> QED
  BY <1>1, RefinementStep, SafetyInvariant, PTL
  DEF Spec, ImplementsSpendOnce, Once!Spec
=============================================================================
