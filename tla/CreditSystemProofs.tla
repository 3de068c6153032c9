------------------------- MODULE CreditSystemProofs -------------------------
(***************************************************************************)
(* Proofs about CreditSystem, for every set of secrets, salts and issuer   *)
(* contexts, every u64 bound and any number of crashes, repeated messages  *)
(* and competing spends: the wallet's and the issuer's records stay        *)
(* consistent, value is conserved, and CreditLedger is implemented.        *)
(***************************************************************************)
EXTENDS CreditSystem, SumTheorems

-----------------------------------------------------------------------------
(***************************************************************************)
(* The inductive invariant.                                                *)
(***************************************************************************)

(* A pending spend has the digest of the request it was prepared with, which
   commits to its fresh opening and leaves room for the whole spend to be
   returned (prepare_typed_spend). *)
PreparedWith(p, q) ==
  /\ p.digest = SpendRequestDigest(Context, q)
  /\ q.fresh = CredentialTarget(Context, p.opening)
  /\ q.mode = p.mode
  /\ AddFits(p.opening.base, q.spend)

PendingKnown ==
  \A p \in pending \cup saved :
    /\ p.context = Context
    /\ p.type = "spend" => \E q \in SpendRequests : PreparedWith(p, q)

(* The return amount that the issuer's handlers admit. *)
ReturnAdmitted(q, x) == IF q.mode = "FixedSpend" THEN x = 0 ELSE x <= q.spend

(* A durable record was made for one request about its nullifier. *)
RecordsKnown ==
  \A n \in Nullifiers :
    accepted[n] # NoRecord =>
      \E q \in SpendRequests, x \in U64, salt \in Salts :
        /\ q.nullifier = n
        /\ ReturnAdmitted(q, x)
        /\ accepted[n] = Issuer!RecordFor(q, x, salt)

(* An answer is the response of the record that its request made. *)
ResponseFor(q, x, salt) ==
  [signature |-> Preimage(SignedTokenTarget(q.fresh, x, salt)),
   returnAmount |-> x, salt |-> salt]

AnswersKnown ==
  \A a \in answers :
    \E x \in U64, salt \in Salts :
      /\ ReturnAdmitted(a.request, x)
      /\ accepted[a.request.nullifier] = Issuer!RecordFor(a.request, x, salt)
      /\ a.response = ResponseFor(a.request, x, salt)

WalletInv ==
  TypeOK /\ PendingKnown /\ RecordsKnown /\ AnswersKnown /\ TokensAreBacked
-----------------------------------------------------------------------------
(***************************************************************************)
(* Lemmas about the values.                                                *)
(***************************************************************************)

(* Amounts are natural numbers, and sums that fit are amounts. *)
LEMMA Amounts ==
  /\ 0 \in U64
  /\ U64 \subseteq Nat
  /\ \A a, b \in U64 : AddFits(a, b) => a + b \in U64
  /\ \A a, b \in U64 : b <= a => a - b \in U64
BY U64MaxAssumption DEF U64, AddFits

(* Credential targets and nullifiers of openings are those of the issuer. *)
LEMMA DerivedValues ==
  ASSUME NEW o \in Openings
  PROVE  /\ CredentialTarget(Context, o) \in Commitments
         /\ DeriveNullifier(Context, o) \in Nullifiers
BY OpeningsAssumption

(* What Issuer::issue and sign_token_target sign is a signature. *)
LEMMA SignatureType ==
  ASSUME NEW c \in Commitments, NEW x \in U64, NEW salt \in Salts
  PROVE  Preimage(SignedTokenTarget(c, x, salt)) \in Signatures
BY DEF Preimage, SignedTokenTarget, Signatures, Targets

(* The record of a request is a record, with the response of the request. *)
LEMMA RecordType ==
  ASSUME NEW q \in SpendRequests, NEW x \in U64, NEW salt \in Salts
  PROVE  /\ Issuer!RecordFor(q, x, salt) \in RetryRecords
         /\ Issuer!RecordFor(q, x, salt) # NoRecord
         /\ ResponseFor(q, x, salt) \in SpendResponses
         /\ Issuer!RecordFor(q, x, salt).digest = SpendRequestDigest(Context, q)
         /\ ResponseFor(q, x, salt) =
              [signature |-> Issuer!RecordFor(q, x, salt).response.signature,
               returnAmount |-> Issuer!RecordFor(q, x, salt).response.returnAmount,
               salt |-> Issuer!RecordFor(q, x, salt).response.salt]
<1>1. Preimage(SignedTokenTarget(q.fresh, x, salt)) \in Signatures
  BY SignatureType DEF SpendRequests
<1>2. SpendRequestDigest(Context, q) \in Digests
  BY OpeningsAssumption DEF SpendRequestDigest, Digests
<1>3. Issuer!RecordFor(q, x, salt) =
        [digest |-> SpendRequestDigest(Context, q),
         response |->
           [variant |-> IF q.mode = "FixedSpend" THEN "Direct" ELSE "DeferredReturn",
            signature |-> Preimage(SignedTokenTarget(q.fresh, x, salt)),
            returnAmount |-> x, salt |-> salt]]
  BY DEF Issuer!RecordFor, Issuer!SpendRequestDigest, Issuer!Preimage,
         Issuer!SignedTokenTarget, SpendRequestDigest, Preimage, SignedTokenTarget
<1>4. Issuer!RecordFor(q, x, salt) \in RetryRecords
  BY <1>1, <1>2, <1>3 DEF RetryRecords, RetryResponses
<1>5. ResponseFor(q, x, salt) \in SpendResponses
  BY <1>1 DEF ResponseFor, SpendResponses
<1> QED
  BY <1>3, <1>4, <1>5, NoRecordAssumption DEF ResponseFor

(* Signatures that exist go on existing, when replies are only added and no
   record is replaced. *)
LEMMA SignedTargetsGrow ==
  ASSUME issueReplies \subseteq issueReplies',
         \A n \in Nullifiers : accepted[n] # NoRecord => accepted'[n] = accepted[n]
  PROVE  SignedTargets \subseteq SignedTargets'
BY DEF SignedTargets, SpentNullifiers

(* Tokens that are held stay backed by the signatures. *)
LEMMA BackingStays ==
  ASSUME TokensAreBacked, tokens' = tokens, SignedTargets \subseteq SignedTargets'
  PROVE  TokensAreBacked'
BY DEF TokensAreBacked, VerifyToken

(* Pending spends, records and answers that are known stay known, when no
   record is replaced. *)
LEMMA AnswersStay ==
  ASSUME TypeOK, AnswersKnown, answers' = answers,
         \A n \in Nullifiers : accepted[n] # NoRecord => accepted'[n] = accepted[n]
  PROVE  AnswersKnown'
<1> SUFFICES ASSUME NEW a \in answers
             PROVE  \E x \in U64, salt \in Salts :
                      /\ ReturnAdmitted(a.request, x)
                      /\ accepted'[a.request.nullifier] = Issuer!RecordFor(a.request, x, salt)
                      /\ a.response = ResponseFor(a.request, x, salt)
  BY DEF AnswersKnown
<1>1. a.request \in SpendRequests /\ a.request.nullifier \in Nullifiers
  BY DEF TypeOK, SpendRequests
<1>2. PICK x \in U64, salt \in Salts :
        /\ ReturnAdmitted(a.request, x)
        /\ accepted[a.request.nullifier] = Issuer!RecordFor(a.request, x, salt)
        /\ a.response = ResponseFor(a.request, x, salt)
  BY DEF AnswersKnown
<1>3. accepted[a.request.nullifier] # NoRecord
  BY <1>1, <1>2, RecordType
<1> QED
  BY <1>1, <1>2, <1>3
-----------------------------------------------------------------------------
(***************************************************************************)
(* Every step keeps the invariant.                                         *)
(***************************************************************************)

(* Nothing has been issued, so there is nothing to know. *)
LEMMA WalletInit == Init => WalletInv
<1> SUFFICES ASSUME Init PROVE WalletInv
  OBVIOUS
<1>1. TypeOK
  BY DEF Init, Issuer!Init, TypeOK
<1>2. PendingKnown /\ AnswersKnown /\ TokensAreBacked
  BY DEF Init, Issuer!Init, PendingKnown, AnswersKnown, TokensAreBacked
<1>3. RecordsKnown
  BY DEF Init, Issuer!Init, RecordsKnown
<1> QED
  BY <1>1, <1>2, <1>3 DEF WalletInv

(* prepare_issue makes a pending state of this issuer's context. *)
LEMMA PrepareIssueStep ==
  ASSUME WalletInv, NEW secret \in Secrets, NEW b \in U64, PrepareIssue(secret, b)
  PROVE  WalletInv'
<1> USE DEF WalletInv
<1> DEFINE o == [secret |-> secret, base |-> b]
           p == [type |-> "issue", context |-> Context, opening |-> o]
           c == CredentialTarget(Context, o)
           q == [commitment |-> c, proof |-> IssueStatement(Context, b, c)]
<1>1. o \in Openings /\ c \in Commitments
  BY DerivedValues DEF Openings
<1>2. p \in PendingIssues
  BY <1>1, OpeningsAssumption DEF PendingIssues
<1>3. q \in IssueRequests
  BY <1>1, OpeningsAssumption DEF IssueRequests, IssueStatement
<1>4. /\ used' = used \cup {secret}
      /\ pending' = pending \cup {p}
      /\ issueRequests' = issueRequests \cup {q}
      /\ UNCHANGED <<accepted, answers, issueReplies, spendRequests, saved, tokens>>
  BY DEF PrepareIssue, issuerVars
<1> HIDE DEF o, p, c, q
<1>5. TypeOK'
  BY <1>2, <1>3, <1>4 DEF TypeOK
<1>6. p.context = Context /\ p.type # "spend"
  BY DEF p
<1>7. PendingKnown'
  BY <1>4, <1>6 DEF PendingKnown, PreparedWith
<1>8. RecordsKnown'
  BY <1>4 DEF RecordsKnown
<1>9. AnswersKnown'
  BY <1>4, AnswersStay
<1>10. TokensAreBacked'
  BY <1>4, SignedTargetsGrow, BackingStays
<1> QED
  BY <1>5, <1>7, <1>8, <1>9, <1>10

(* Issuer::issue adds a signature. *)
LEMMA IssueStep ==
  ASSUME WalletInv, NEW q \in issueRequests, NEW b \in U64, Issue(q, b)
  PROVE  WalletInv'
<1> USE DEF WalletInv
<1>1. PICK salt \in Salts :
        issueReplies' = issueReplies \cup
          {[signature |-> Preimage(SignedTokenTarget(q.commitment, 0, salt)), salt |-> salt]}
  BY DEF Issue
<1>2. q.commitment \in Commitments
  BY DEF TypeOK, IssueRequests
<1>3. UNCHANGED <<accepted, answers, issueRequests, spendRequests, used, pending, saved, tokens>>
  BY DEF Issue, issuerVars, walletVars
<1>4. Preimage(SignedTokenTarget(q.commitment, 0, salt)) \in Signatures
  BY <1>2, SignatureType, Amounts
<1>5. TypeOK'
  BY <1>1, <1>3, <1>4 DEF TypeOK, IssueReplies
<1>6. PendingKnown' /\ RecordsKnown'
  BY <1>3 DEF PendingKnown, RecordsKnown, PreparedWith
<1>7. AnswersKnown'
  BY <1>3, AnswersStay
<1>8. TokensAreBacked'
  BY <1>1, <1>3, SignedTargetsGrow, BackingStays
<1> QED
  BY <1>5, <1>6, <1>7, <1>8

(* PendingIssue::finish keeps a token only after its signature was checked
   against the target of its own opening. *)
LEMMA FinishIssueStep ==
  ASSUME WalletInv, NEW p \in pending, NEW public \in Contexts,
         NEW q \in issueRequests, NEW m \in issueReplies, FinishIssue(p, public, q, m)
  PROVE  WalletInv'
<1> USE DEF WalletInv
<1> DEFINE t == [kind |-> "Direct", context |-> p.context, signature |-> m.signature,
                 opening |-> p.opening, topup |-> 0, salt |-> m.salt]
<1>1. /\ pending' = pending \ {p}
      /\ tokens' = IF IssueOutcome(p, public, q, m) = "Ok" THEN tokens \cup {t} ELSE tokens
      /\ UNCHANGED <<accepted, answers, issueRequests, issueReplies, spendRequests, used, saved>>
  BY DEF FinishIssue, issuerVars, messageVars
<1>2. /\ p \in PendingIssues
      /\ p.context = Context
      /\ p.opening \in Openings
      /\ m \in IssueReplies
  BY DEF FinishIssue, TypeOK, PendingKnown, PendingIssues
<1>3. t \in Tokens
  BY <1>2, OpeningsAssumption, Amounts DEF Tokens, CredentialKinds, IssueReplies
<1>4. TypeOK'
  BY <1>1, <1>3 DEF TypeOK
<1>5. PendingKnown' /\ RecordsKnown'
  BY <1>1 DEF PendingKnown, RecordsKnown, PreparedWith
<1>6. AnswersKnown'
  BY <1>1, AnswersStay
<1>7. ASSUME IssueOutcome(p, public, q, m) = "Ok"
      PROVE  /\ VerifyToken(Context, t)
             /\ SignedTokenTarget(CredentialTarget(Context, t.opening), t.topup, t.salt)
                  \in SignedTargets
  <2>1. Eval(m.signature) = SignedTokenTarget(CredentialTarget(Context, p.opening), 0, m.salt)
    BY <1>2, <1>7 DEF IssueOutcome
  <2>2. AddFits(p.opening.base, 0)
    BY <1>2, U64MaxAssumption DEF Openings, AddFits, U64
  <2>3. VerifyToken(Context, t)
    BY <1>2, <2>1, <2>2 DEF VerifyToken, EffectiveBalanceExists, HasTopup
  <2>4. Eval(m.signature) \in SignedTargets
    BY DEF SignedTargets, SpentNullifiers
  <2> QED
    BY <2>1, <2>3, <2>4
<1>8. SignedTargets' = SignedTargets
  BY <1>1 DEF SignedTargets, SpentNullifiers
<1> HIDE DEF t
<1>9. TokensAreBacked'
  BY <1>1, <1>7, <1>8 DEF TokensAreBacked, VerifyToken
<1> QED
  BY <1>4, <1>5, <1>6, <1>9

(* prepare_typed_spend derives the request and the pending state from one
   verified token, and leaves room for the whole spend to come back. *)
LEMMA PrepareSpendStep ==
  ASSUME WalletInv, NEW t \in tokens, NEW public \in Contexts,
         NEW mode \in SettlementModes, NEW spend \in U64, NEW secret \in Secrets,
         PrepareSpend(t, public, mode, spend, secret)
  PROVE  WalletInv'
<1> USE DEF WalletInv
<1> DEFINE fresh == [secret |-> secret, base |-> Balance(t) - spend]
           q0 == [kind |-> t.kind, mode |-> mode, spend |-> spend,
                  nullifier |-> DeriveNullifier(t.context, t.opening),
                  fresh |-> CredentialTarget(t.context, fresh)]
           q == [kind |-> q0.kind, mode |-> q0.mode, spend |-> q0.spend,
                 nullifier |-> q0.nullifier, fresh |-> q0.fresh,
                 proof |-> SpendStatement(t.context, q0)]
           p == [type |-> "spend", context |-> t.context, kind |-> t.kind, mode |-> mode,
                 opening |-> fresh, digest |-> SpendRequestDigest(t.context, q)]
<1>1. /\ used' = used \cup {secret}
      /\ spendRequests' = spendRequests \cup {q}
      /\ pending' = pending \cup {p}
      /\ spend <= Balance(t)
      /\ UNCHANGED <<accepted, answers, issueRequests, issueReplies, saved, tokens>>
  BY DEF PrepareSpend, issuerVars
<1>2. /\ t \in Tokens
      /\ t.context = Context
      /\ AddFits(t.opening.base, t.topup)
  BY DEF TypeOK, TokensAreBacked, VerifyToken, EffectiveBalanceExists
<1>3. Balance(t) \in U64
  BY <1>2, Amounts DEF Balance, Tokens, Openings
<1>4. fresh \in Openings
  BY <1>1, <1>3, Amounts DEF Openings
<1>5. /\ q.fresh = CredentialTarget(Context, fresh)
      /\ q.mode = mode
      /\ AddFits(fresh.base, q.spend)
  BY <1>1, <1>2, <1>3, U64MaxAssumption DEF AddFits, U64
<1>6. /\ t.kind \in CredentialKinds
      /\ q0.nullifier \in Nullifiers
      /\ q0.fresh \in Commitments
  BY <1>2, <1>4, DerivedValues DEF Tokens
<1>7. SpendStatement(t.context, q0) \in Statements
  BY <1>2, <1>6, OpeningsAssumption DEF SpendStatement, Statements
<1>8. q \in SpendRequests
  BY <1>6, <1>7 DEF SpendRequests
<1>9. p \in PendingSpends /\ PreparedWith(p, q) /\ p.context = Context
  BY <1>2, <1>4, <1>5, <1>6, <1>8, OpeningsAssumption
     DEF PendingSpends, PreparedWith, SpendRequestDigest, Digests
<1> HIDE DEF fresh, q0, q, p
<1>10. TypeOK'
  BY <1>1, <1>8, <1>9 DEF TypeOK
<1>11. PendingKnown'
  BY <1>1, <1>8, <1>9 DEF PendingKnown, PreparedWith
<1>12. RecordsKnown'
  BY <1>1 DEF RecordsKnown
<1>13. AnswersKnown'
  BY <1>1, AnswersStay
<1>14. TokensAreBacked'
  BY <1>1, SignedTargetsGrow, BackingStays
<1> QED
  BY <1>10, <1>11, <1>12, <1>13, <1>14

(* The issuer accepts: one nullifier gets its record, the others keep theirs. *)
LEMMA AcceptSpendStep ==
  ASSUME WalletInv, NEW q \in spendRequests, NEW x \in U64, NEW salt \in Salts,
         AcceptSpend(q, x, salt)
  PROVE  WalletInv'
<1> USE DEF WalletInv
<1>1. /\ accepted[q.nullifier] = NoRecord
      /\ ReturnAdmitted(q, x)
      /\ accepted' = [accepted EXCEPT ![q.nullifier] = Issuer!RecordFor(q, x, salt)]
      /\ UNCHANGED <<answers, issueRequests, issueReplies, spendRequests,
                     used, pending, saved, tokens>>
  BY DEF AcceptSpend, Issuer!Accept, ReturnAdmitted, messageVars, walletVars
<1>2. q \in SpendRequests /\ q.nullifier \in Nullifiers
  BY DEF TypeOK, SpendRequests
<1>3. Issuer!RecordFor(q, x, salt) \in RetryRecords
  BY <1>2, RecordType
<1>4. TypeOK'
  BY <1>1, <1>2, <1>3 DEF TypeOK
<1>5. \A n \in Nullifiers : accepted[n] # NoRecord => accepted'[n] = accepted[n]
  BY <1>1, <1>2 DEF TypeOK
<1>6. PendingKnown'
  BY <1>1 DEF PendingKnown, PreparedWith
<1>7. RecordsKnown'
  <2> SUFFICES ASSUME NEW n \in Nullifiers, accepted'[n] # NoRecord
               PROVE  \E r \in SpendRequests, y \in U64, s \in Salts :
                        /\ r.nullifier = n
                        /\ ReturnAdmitted(r, y)
                        /\ accepted'[n] = Issuer!RecordFor(r, y, s)
    BY DEF RecordsKnown
  <2>1. CASE n = q.nullifier
    BY <1>1, <1>2, <2>1 DEF TypeOK
  <2>2. CASE n # q.nullifier
    <3>1. accepted'[n] = accepted[n]
      BY <1>1, <2>2 DEF TypeOK
    <3> QED
      BY <3>1 DEF RecordsKnown
  <2> QED
    BY <2>1, <2>2
<1>8. AnswersKnown'
  BY <1>1, <1>5, AnswersStay
<1>9. TokensAreBacked'
  BY <1>1, <1>5, SignedTargetsGrow, BackingStays
<1> QED
  BY <1>4, <1>6, <1>7, <1>8, <1>9

(* The issuer answers: the record's digest is that of the request alone, so
   the record is the one this request made. *)
LEMMA AnswerSpendStep ==
  ASSUME WalletInv, NEW q \in spendRequests, AnswerSpend(q)
  PROVE  WalletInv'
<1> USE DEF WalletInv
<1> DEFINE w == accepted[q.nullifier]
           a == [request |-> q,
                 response |-> [signature |-> w.response.signature,
                               returnAmount |-> w.response.returnAmount,
                               salt |-> w.response.salt]]
<1>1. /\ w # NoRecord
      /\ w.digest = SpendRequestDigest(Context, q)
      /\ answers' = answers \cup {a}
      /\ UNCHANGED <<accepted, issueRequests, issueReplies, spendRequests,
                     used, pending, saved, tokens>>
  BY DEF AnswerSpend, Issuer!Answer, Issuer!SpendRequestDigest, SpendRequestDigest,
         messageVars, walletVars
<1>2. q \in SpendRequests /\ q.nullifier \in Nullifiers
  BY DEF TypeOK, SpendRequests
<1>3. PICK r \in SpendRequests, x \in U64, salt \in Salts :
        /\ ReturnAdmitted(r, x)
        /\ w = Issuer!RecordFor(r, x, salt)
  BY <1>1, <1>2 DEF RecordsKnown
<1>4. r = q
  <2>1. SpendRequestDigest(Context, r) = SpendRequestDigest(Context, q)
    BY <1>1, <1>3, RecordType
  <2> QED
    BY <2>1 DEF SpendRequestDigest
<1>5. a.request = q /\ a.response = ResponseFor(q, x, salt)
  BY <1>2, <1>3, <1>4, RecordType
<1>6. a.response \in SpendResponses
  BY <1>2, <1>5, RecordType
<1>7. a \in [request : SpendRequests, response : SpendResponses]
  BY <1>2, <1>6
<1>8. /\ ReturnAdmitted(a.request, x)
      /\ accepted[a.request.nullifier] = Issuer!RecordFor(a.request, x, salt)
      /\ a.response = ResponseFor(a.request, x, salt)
  BY <1>3, <1>4, <1>5
<1> HIDE DEF w, a
<1>9. TypeOK'
  BY <1>1, <1>7 DEF TypeOK
<1>10. PendingKnown' /\ RecordsKnown'
  BY <1>1 DEF PendingKnown, RecordsKnown, PreparedWith
<1>11. AnswersKnown'
  BY <1>1, <1>8 DEF AnswersKnown
<1>12. TokensAreBacked'
  BY <1>1, SignedTargetsGrow, BackingStays
<1> QED
  BY <1>9, <1>10, <1>11, <1>12

(* TypedPendingSpend::finish keeps a token only after the return bounds and
   the signature were checked, whichever request and response it was given. *)
LEMMA FinishSpendStep ==
  ASSUME WalletInv, NEW p \in pending, NEW public \in Contexts,
         NEW q \in spendRequests, NEW a \in answers, FinishSpend(p, public, q, a)
  PROVE  WalletInv'
<1> USE DEF WalletInv
<1> DEFINE topup == IF p.mode = "FixedSpend" THEN 0 ELSE a.response.returnAmount
           t == [kind |-> IF p.mode = "FixedSpend" THEN "Direct" ELSE "DeferredReturn",
                 context |-> p.context, signature |-> a.response.signature,
                 opening |-> p.opening, topup |-> topup, salt |-> a.response.salt]
<1>1. /\ pending' = pending \ {p}
      /\ tokens' = IF SpendOutcome(p, public, q, a.response) = "Ok"
                   THEN tokens \cup {t} ELSE tokens
      /\ UNCHANGED <<accepted, answers, issueRequests, issueReplies, spendRequests, used, saved>>
  BY DEF FinishSpend, issuerVars, messageVars
<1>2. /\ p \in PendingSpends
      /\ p.context = Context
      /\ p.opening \in Openings
  BY DEF FinishSpend, PendingKnown, PendingSpends
<1>3. a.request \in SpendRequests /\ a.response \in SpendResponses
  BY DEF TypeOK
<1>4. topup \in U64
  BY <1>3, Amounts DEF SpendResponses
<1>5. t \in Tokens
  BY <1>2, <1>3, <1>4, OpeningsAssumption DEF Tokens, CredentialKinds, SpendResponses
<1>6. TypeOK'
  BY <1>1, <1>5 DEF TypeOK
<1>7. PendingKnown' /\ RecordsKnown'
  BY <1>1 DEF PendingKnown, RecordsKnown, PreparedWith
<1>8. AnswersKnown'
  BY <1>1, AnswersStay
<1>9. a.response.signature = Preimage(Eval(a.response.signature))
      /\ Eval(a.response.signature) \in SignedTargets
  <2>1. PICK x \in U64, salt \in Salts :
          /\ accepted[a.request.nullifier] = Issuer!RecordFor(a.request, x, salt)
          /\ a.response = ResponseFor(a.request, x, salt)
    BY DEF AnswersKnown
  <2>2. a.request.nullifier \in Nullifiers
    BY <1>3 DEF SpendRequests
  <2>3. /\ accepted[a.request.nullifier] # NoRecord
        /\ a.response.signature = accepted[a.request.nullifier].response.signature
    BY <1>3, <2>1, RecordType
  <2>4. Eval(a.response.signature) \in SignedTargets
    BY <2>2, <2>3 DEF SignedTargets, SpentNullifiers
  <2>5. a.response.signature = Preimage(Eval(a.response.signature))
    BY <2>1 DEF ResponseFor, Eval, Preimage
  <2> QED
    BY <2>4, <2>5
<1>10. ASSUME SpendOutcome(p, public, q, a.response) = "Ok"
       PROVE  /\ VerifyToken(Context, t)
              /\ SignedTokenTarget(CredentialTarget(Context, t.opening), t.topup, t.salt)
                   \in SignedTargets
  <2>1. ReturnFits(p.opening.base, q.spend, topup)
    BY <1>10 DEF SpendOutcome
  <2>2. Eval(a.response.signature)
          = SignedTokenTarget(CredentialTarget(Context, p.opening), topup, a.response.salt)
    BY <1>2, <1>10 DEF SpendOutcome
  <2>3. EffectiveBalanceExists(t.kind, t.opening.base, t.topup)
    BY <2>1 DEF EffectiveBalanceExists, HasTopup, ReturnFits
  <2>4. VerifyToken(Context, t)
    BY <1>2, <2>2, <2>3 DEF VerifyToken
  <2> QED
    BY <1>9, <2>2, <2>4
<1>11. SignedTargets' = SignedTargets
  BY <1>1 DEF SignedTargets, SpentNullifiers
<1> HIDE DEF t
<1>12. TokensAreBacked'
  BY <1>1, <1>10, <1>11 DEF TokensAreBacked, VerifyToken
<1> QED
  BY <1>6, <1>7, <1>8, <1>12

(* Pending operations move between memory and disk, or are lost. *)
LEMMA PersistenceStep ==
  ASSUME WalletInv,
         \/ \E p \in pending : Save(p)
         \/ \E p \in saved : Restore(p)
         \/ Crash
  PROVE  WalletInv'
<1> USE DEF WalletInv
<1>1. /\ pending' \cup saved' \subseteq pending \cup saved
      /\ UNCHANGED <<accepted, answers, issueRequests, issueReplies, spendRequests,
                     used, tokens>>
  BY DEF Save, Restore, Crash, issuerVars, messageVars
<1>2. TypeOK'
  BY <1>1 DEF TypeOK
<1>3. PendingKnown' /\ RecordsKnown'
  BY <1>1 DEF PendingKnown, RecordsKnown, PreparedWith
<1>4. AnswersKnown'
  BY <1>1, AnswersStay
<1>5. TokensAreBacked'
  BY <1>1, SignedTargetsGrow, BackingStays
<1> QED
  BY <1>2, <1>3, <1>4, <1>5

(* Every step of the wallets and the issuer keeps the invariant. *)
LEMMA WalletStep == WalletInv /\ [Next]_vars => WalletInv'
<1> SUFFICES ASSUME WalletInv, [Next]_vars PROVE WalletInv'
  OBVIOUS
<1>1. ASSUME NEW secret \in Secrets, NEW b \in U64, PrepareIssue(secret, b)
      PROVE  WalletInv'
  BY <1>1, PrepareIssueStep
<1>2. ASSUME NEW q \in issueRequests, NEW b \in U64, Issue(q, b)
      PROVE  WalletInv'
  BY <1>2, IssueStep
<1>3. ASSUME NEW p \in pending, NEW public \in Contexts, NEW q \in issueRequests,
             NEW m \in issueReplies, FinishIssue(p, public, q, m)
      PROVE  WalletInv'
  BY <1>3, FinishIssueStep
<1>4. ASSUME NEW t \in tokens, NEW public \in Contexts, NEW mode \in SettlementModes,
             NEW spend \in U64, NEW secret \in Secrets,
             PrepareSpend(t, public, mode, spend, secret)
      PROVE  WalletInv'
  BY <1>4, PrepareSpendStep
<1>5. ASSUME NEW q \in spendRequests, NEW x \in U64, NEW salt \in Salts,
             AcceptSpend(q, x, salt)
      PROVE  WalletInv'
  BY <1>5, AcceptSpendStep
<1>6. ASSUME NEW q \in spendRequests, AnswerSpend(q)
      PROVE  WalletInv'
  BY <1>6, AnswerSpendStep
<1>7. ASSUME NEW p \in pending, NEW public \in Contexts, NEW q \in spendRequests,
             NEW a \in answers, FinishSpend(p, public, q, a)
      PROVE  WalletInv'
  BY <1>7, FinishSpendStep
<1>8. ASSUME UNCHANGED vars
      PROVE  WalletInv'
  BY <1>8 DEF vars, issuerVars, messageVars, walletVars, WalletInv, TypeOK, PendingKnown,
              PreparedWith, RecordsKnown, AnswersKnown, TokensAreBacked, VerifyToken,
              SignedTargets, SpentNullifiers
<1> QED
  BY <1>1, <1>2, <1>3, <1>4, <1>5, <1>6, <1>7, <1>8, PersistenceStep DEF Next
-----------------------------------------------------------------------------
(***************************************************************************)
(* The theorems.                                                           *)
(***************************************************************************)

(* The inductive invariant of wallets, messages and issuer: what a pending
   operation, a record and an answer are known to be, with the types and the
   backing of tokens (public_key.rs, issue.rs, spend.rs, issuer.rs). *)
THEOREM WalletInvariant == Spec => []WalletInv
<1> QED
  BY WalletInit, WalletStep, PTL DEF Spec

(* The types of wallets, messages and issuer (the structs of protocol/). *)
THEOREM WalletTypes == Spec => []TypeOK
<1>1. WalletInv => TypeOK
  BY DEF WalletInv
<1> QED
  BY <1>1, WalletInvariant, PTL

(* Whatever is replayed, lost, delivered to the wrong pending operation or
   finished under another issuer's key, a wallet holds only tokens that this
   issuer durably signed and whose balance exists (finish of both modes). *)
THEOREM TokensBacked == Spec => []TokensAreBacked
<1>1. WalletInv => TokensAreBacked
  BY DEF WalletInv
<1> QED
  BY <1>1, WalletInvariant, PTL

(* A pending spend in memory or on disk, and an answer to its own request,
   always pass the checks of finish (TypedPendingSpend::finish). *)
THEOREM AnswersAlwaysFinish == Spec => []AnswersFinish
<1>1. WalletInv => AnswersFinish
  <2> SUFFICES ASSUME WalletInv,
                      NEW p \in (pending \cup saved) \cap PendingSpends,
                      NEW a \in answers,
                      p.digest = SpendRequestDigest(Context, a.request)
               PROVE  SpendOutcome(p, Context, a.request, a.response) = "Ok"
    BY DEF AnswersFinish
  <2>1. p.context = Context
    BY DEF WalletInv, PendingKnown
  <2>2. PICK q \in SpendRequests : PreparedWith(p, q)
    BY DEF WalletInv, PendingKnown, PendingSpends
  <2>3. q = a.request
    BY <2>2 DEF PreparedWith, SpendRequestDigest
  <2>4. PICK x \in U64, salt \in Salts :
          /\ ReturnAdmitted(q, x)
          /\ a.response = ResponseFor(q, x, salt)
    BY <2>3 DEF WalletInv, AnswersKnown
  <2> DEFINE topup == IF p.mode = "FixedSpend" THEN 0 ELSE a.response.returnAmount
  <2>5. a.response.returnAmount = x /\ topup = x
    BY <2>2, <2>4 DEF ResponseFor, PreparedWith, ReturnAdmitted
  <2>6. /\ x \in Nat
        /\ q.spend \in Nat
        /\ p.opening.base \in Nat
        /\ U64Max \in Nat
    BY <2>2, Amounts, U64MaxAssumption DEF PendingSpends, Openings, SpendRequests
  <2>7. x <= q.spend
    BY <2>4, <2>6 DEF ReturnAdmitted
  <2>8. AddFits(p.opening.base, x)
    BY <2>2, <2>6, <2>7 DEF PreparedWith, AddFits
  <2>9. Eval(a.response.signature)
          = SignedTokenTarget(CredentialTarget(Context, p.opening), topup, a.response.salt)
    BY <2>2, <2>4, <2>5 DEF ResponseFor, PreparedWith, Eval, Preimage, SignedTokenTarget
  <2>10. ReturnFits(p.opening.base, q.spend, topup)
    BY <2>5, <2>7, <2>8 DEF ReturnFits
  <2> QED
    BY <2>1, <2>2, <2>3, <2>9, <2>10 DEF SpendOutcome, PreparedWith
<1> QED
  BY <1>1, WalletInvariant, PTL
-----------------------------------------------------------------------------
(***************************************************************************)
(* The inductive invariant: every opening belongs to one request, and is   *)
(* signed only for it.                                                     *)
(***************************************************************************)

Target(o) == CredentialTarget(Context, o)

(* An issuance request asks for the balance of an opening of its own. *)
IssueRequestsKnown ==
  \A q \in issueRequests :
    \E o \in Openings :
      /\ o.secret \in used
      /\ q.commitment = Target(o)
      /\ q.proof = IssueStatement(Context, o.base, q.commitment)

(* A signature of issuance is for a request that was sent. *)
SignaturesRequested ==
  \A m \in issueReplies :
    \E q \in issueRequests, salt \in Salts :
      Eval(m.signature) = SignedTokenTarget(q.commitment, 0, salt)

(* A spend request leaves on the fresh opening f what it does not spend of
   an opening o that was signed with topup. *)
PreparedFrom(q, o, topup, f) ==
  /\ topup \in Topups(o)
  /\ AddFits(o.base, topup)
  /\ q.spend <= o.base + topup
  /\ q.nullifier = DeriveNullifier(Context, o)
  /\ q.fresh = Target(f)
  /\ f.base = o.base + topup - q.spend
  /\ f.secret \in used

SpendsPrepared ==
  \A q \in spendRequests :
    \E o, f \in Openings, topup \in U64 : PreparedFrom(q, o, topup, f)

(* A durable record was made for a request that was sent. *)
RecordsRequested ==
  \A n \in SpentNullifiers :
    \E q \in spendRequests, x \in U64, salt \in Salts :
      /\ q.nullifier = n
      /\ ReturnAdmitted(q, x)
      /\ accepted[n] = Issuer!RecordFor(q, x, salt)

(* No two requests are for the same opening: secrets never repeat. *)
FreshOnce ==
  /\ \A q \in issueRequests, r \in spendRequests : q.commitment # r.fresh
  /\ \A q, r \in spendRequests : q.fresh = r.fresh => q = r

LineageInv ==
  /\ WalletInv
  /\ IssueRequestsKnown
  /\ SignaturesRequested
  /\ SpendsPrepared
  /\ RecordsRequested
  /\ FreshOnce
-----------------------------------------------------------------------------
(***************************************************************************)
(* What the invariant says of an opening.                                  *)
(***************************************************************************)

(* Targets and nullifiers tell openings apart. *)
LEMMA DerivedApart ==
  ASSUME NEW o, NEW p
  PROVE  /\ Target(o) = Target(p) => o = p
         /\ DeriveNullifier(Context, o) = DeriveNullifier(Context, p) => o = p
BY DEF Target, CredentialTarget, DeriveNullifier

(* The top-ups of an opening are those of the signatures of its target. *)
LEMMA TopupSigned ==
  ASSUME NEW o, NEW x
  PROVE  x \in Topups(o) <=> \E s \in SignedTargets : s[1] = Target(o) /\ s[2] = x
BY DEF Topups, Target

(* The record that accepted q with return x. *)
RecordedFor(q, x) ==
  /\ q.nullifier \in SpentNullifiers
  /\ ReturnAdmitted(q, x)
  /\ accepted[q.nullifier].digest = SpendRequestDigest(Context, q)
  /\ accepted[q.nullifier].response.returnAmount = x

(* A signature of an opening is that of its issuance, without a top-up, or
   that of the record of the spend that made it. *)
LEMMA TopupOrigin ==
  ASSUME LineageInv, NEW o \in Openings, NEW x \in Topups(o)
  PROVE  /\ x \in U64
         /\ \/ /\ x = 0
               /\ o \in IssuedOpenings
               /\ \E q \in issueRequests : q.commitment = Target(o)
            \/ \E q \in spendRequests : q.fresh = Target(o) /\ RecordedFor(q, x)
<1> USE DEF LineageInv, WalletInv
<1>1. PICK s \in SignedTargets : s[1] = Target(o) /\ s[2] = x
  BY TopupSigned
<1>2. CASE \E m \in issueReplies : s = Eval(m.signature)
  <2>1. PICK m \in issueReplies : s = Eval(m.signature)
    BY <1>2
  <2>2. PICK q \in issueRequests, salt \in Salts :
          s = SignedTokenTarget(q.commitment, 0, salt)
    BY <2>1 DEF SignaturesRequested
  <2>3. x = 0 /\ q.commitment = Target(o)
    BY <1>1, <2>2 DEF SignedTokenTarget
  <2>4. o \in IssuedOpenings
    BY <1>1, <2>1 DEF IssuedOpenings, Target
  <2> QED
    BY <2>3, <2>4, Amounts
<1>3. CASE \E n \in SpentNullifiers : s = Eval(accepted[n].response.signature)
  <2>1. PICK n \in SpentNullifiers : s = Eval(accepted[n].response.signature)
    BY <1>3
  <2>2. PICK q \in spendRequests, y \in U64, salt \in Salts :
          /\ q.nullifier = n
          /\ ReturnAdmitted(q, y)
          /\ accepted[n] = Issuer!RecordFor(q, y, salt)
    BY <2>1 DEF RecordsRequested
  <2>3. q \in SpendRequests
    BY DEF TypeOK
  <2>4. /\ accepted[n].digest = SpendRequestDigest(Context, q)
        /\ accepted[n].response.signature = Preimage(SignedTokenTarget(q.fresh, y, salt))
        /\ accepted[n].response.returnAmount = y
    <3> DEFINE w == Issuer!RecordFor(q, y, salt)
    <3>1. /\ w.digest = SpendRequestDigest(Context, q)
          /\ ResponseFor(q, y, salt) =
               [signature |-> w.response.signature,
                returnAmount |-> w.response.returnAmount, salt |-> w.response.salt]
      BY <2>3, RecordType
    <3> HIDE DEF w
    <3>2. /\ w.response.signature = Preimage(SignedTokenTarget(q.fresh, y, salt))
          /\ w.response.returnAmount = y
      BY <3>1 DEF ResponseFor
    <3> QED
      BY <2>2, <3>1, <3>2 DEF w
  <2>5. s = SignedTokenTarget(q.fresh, y, salt)
    BY <2>1, <2>4 DEF Eval, Preimage
  <2>6. y = x /\ q.fresh = Target(o)
    BY <1>1, <2>5 DEF SignedTokenTarget
  <2> QED
    BY <2>1, <2>2, <2>4, <2>6 DEF RecordedFor
<1> QED
  BY <1>2, <1>3 DEF SignedTargets

(* So an opening has one value: signatures of one opening agree. *)
LEMMA TopupsOnce ==
  ASSUME LineageInv, NEW o \in Openings, NEW x \in Topups(o), NEW y \in Topups(o)
  PROVE  x = y
<1>1. ASSUME NEW q \in spendRequests, NEW r \in spendRequests,
             q.fresh = Target(o), RecordedFor(q, x),
             r.fresh = Target(o), RecordedFor(r, y)
      PROVE  x = y
  <2>1. q = r
    BY <1>1 DEF LineageInv, FreshOnce
  <2> QED
    BY <1>1, <2>1 DEF RecordedFor
<1>2. ASSUME NEW q \in issueRequests, NEW r \in spendRequests
      PROVE  ~ (q.commitment = Target(o) /\ r.fresh = Target(o))
  BY DEF LineageInv, FreshOnce
<1> QED
  BY <1>1, <1>2, TopupOrigin

(* Hence an opening has the capacity of its base and its top-up. *)
LEMMA CapacityIs ==
  ASSUME LineageInv, NEW o \in Openings, NEW x \in Topups(o)
  PROVE  Capacity(o) = o.base + x /\ Topups(o) = {x} /\ x \in U64
<1>1. Topups(o) = {x}
  BY TopupsOnce
<1>2. x \in U64 /\ x \in Nat
  BY TopupOrigin, Amounts
<1>3. Max({x}) = x
  BY <1>2 DEF Max
<1> QED
  BY <1>1, <1>2, <1>3 DEF Capacity

(* What was spent had been signed. *)
LEMMA SpentSigned ==
  ASSUME LineageInv, NEW o \in Openings, IsSpent(o)
  PROVE  Topups(o) # {}
<1>1. DeriveNullifier(Context, o) \in SpentNullifiers
  BY DerivedValues DEF IsSpent, SpentNullifiers
<1>2. PICK q \in spendRequests : q.nullifier = DeriveNullifier(Context, o)
  BY <1>1 DEF LineageInv, RecordsRequested
<1>3. PICK p, f \in Openings, topup \in U64 : PreparedFrom(q, p, topup, f)
  BY DEF LineageInv, SpendsPrepared
<1>4. p = o
  BY <1>2, <1>3, DerivedApart DEF PreparedFrom
<1> QED
  BY <1>3, <1>4 DEF PreparedFrom
-----------------------------------------------------------------------------
(***************************************************************************)
(* Every step keeps the invariant.                                         *)
(***************************************************************************)

(* What was signed of an opening stays signed. *)
LEMMA TopupsGrow ==
  ASSUME SignedTargets \subseteq SignedTargets', NEW o
  PROVE  Topups(o) \subseteq Topups(o)'
BY DEF Topups

(* A request that was prepared from a signed opening stays so. *)
LEMMA PreparedStays ==
  ASSUME SignedTargets \subseteq SignedTargets', used \subseteq used',
         NEW q, NEW o \in Openings, NEW f \in Openings, NEW topup \in U64,
         PreparedFrom(q, o, topup, f)
  PROVE  PreparedFrom(q, o, topup, f)'
BY TopupsGrow DEF PreparedFrom, Target

(* Steps that send no request and sign nothing. *)
LEMMA QuietStep ==
  ASSUME LineageInv, WalletInv',
         UNCHANGED <<accepted, issueReplies, issueRequests, spendRequests, used>>
  PROVE  LineageInv'
<1>1. SignedTargets' = SignedTargets /\ SpentNullifiers' = SpentNullifiers
  BY DEF SignedTargets, SpentNullifiers
<1>2. SpendsPrepared'
  BY <1>1, PreparedStays DEF LineageInv, SpendsPrepared
<1>3. IssueRequestsKnown' /\ SignaturesRequested' /\ FreshOnce'
  BY DEF LineageInv, IssueRequestsKnown, SignaturesRequested, FreshOnce
<1>4. RecordsRequested'
  BY <1>1 DEF LineageInv, RecordsRequested
<1> QED
  BY <1>2, <1>3, <1>4 DEF LineageInv

(* prepare_issue: the secret is new, so no request has this opening. *)
LEMMA PrepareIssueLineage ==
  ASSUME LineageInv, NEW secret \in Secrets, NEW b \in U64, PrepareIssue(secret, b)
  PROVE  LineageInv'
<1> USE DEF LineageInv
<1> DEFINE o == [secret |-> secret, base |-> b]
           c == Target(o)
           q == [commitment |-> c, proof |-> IssueStatement(Context, b, c)]
<1>1. /\ secret \notin used
      /\ used' = used \cup {secret}
      /\ issueRequests' = issueRequests \cup {q}
      /\ UNCHANGED <<accepted, issueReplies, spendRequests>>
  BY DEF PrepareIssue, issuerVars, Target
<1>2. o \in Openings /\ o.secret = secret /\ o.base = b
  BY DEF Openings
<1>3. q.commitment = Target(o) /\ q.proof = IssueStatement(Context, o.base, q.commitment)
  BY <1>2
<1> HIDE DEF o, c, q
<1>4. SignedTargets' = SignedTargets /\ SpentNullifiers' = SpentNullifiers
  BY <1>1 DEF SignedTargets, SpentNullifiers
<1>5. WalletInv'
  BY PrepareIssueStep
<1>6. IssueRequestsKnown'
  BY <1>1, <1>2, <1>3 DEF IssueRequestsKnown, Target
<1>7. SignaturesRequested'
  BY <1>1 DEF SignaturesRequested
<1>8. SpendsPrepared'
  BY <1>1, <1>4, PreparedStays DEF SpendsPrepared
<1>9. RecordsRequested'
  BY <1>1, <1>4 DEF RecordsRequested
<1>10. ASSUME NEW r \in spendRequests
       PROVE  q.commitment # r.fresh
  <2>1. PICK p, f \in Openings, topup \in U64 : PreparedFrom(r, p, topup, f)
    BY DEF SpendsPrepared
  <2>2. f # o
    BY <1>1, <1>2, <2>1 DEF PreparedFrom
  <2> QED
    BY <1>3, <2>1, <2>2, DerivedApart DEF PreparedFrom
<1>11. FreshOnce'
  BY <1>1, <1>10 DEF FreshOnce
<1> QED
  BY <1>5, <1>6, <1>7, <1>8, <1>9, <1>11

(* Issuer::issue signs the commitment of the request, without a top-up. *)
LEMMA IssueLineage ==
  ASSUME LineageInv, NEW q \in issueRequests, NEW b \in U64, Issue(q, b)
  PROVE  LineageInv'
<1> USE DEF LineageInv
<1>1. PICK salt \in Salts :
        issueReplies' = issueReplies \cup
          {[signature |-> Preimage(SignedTokenTarget(q.commitment, 0, salt)), salt |-> salt]}
  BY DEF Issue
<1>2. UNCHANGED <<accepted, issueRequests, spendRequests, used>>
  BY DEF Issue, issuerVars, walletVars
<1>3. SignedTargets \subseteq SignedTargets' /\ SpentNullifiers' = SpentNullifiers
  BY <1>1, <1>2, SignedTargetsGrow DEF SpentNullifiers
<1>4. WalletInv'
  BY IssueStep
<1>5. SignaturesRequested'
  BY <1>1, <1>2 DEF SignaturesRequested, Eval, Preimage
<1>6. SpendsPrepared'
  BY <1>2, <1>3, PreparedStays DEF SpendsPrepared
<1>7. IssueRequestsKnown' /\ FreshOnce'
  BY <1>2 DEF IssueRequestsKnown, FreshOnce
<1>8. RecordsRequested'
  BY <1>2, <1>3 DEF RecordsRequested
<1> QED
  BY <1>4, <1>5, <1>6, <1>7, <1>8

(* prepare_typed_spend: the token was signed for its top-up, and the secret
   of the fresh opening is new. *)
LEMMA PrepareSpendLineage ==
  ASSUME LineageInv, NEW t \in tokens, NEW public \in Contexts,
         NEW mode \in SettlementModes, NEW spend \in U64, NEW secret \in Secrets,
         PrepareSpend(t, public, mode, spend, secret)
  PROVE  LineageInv'
<1> USE DEF LineageInv
<1> DEFINE f == [secret |-> secret, base |-> Balance(t) - spend]
           q0 == [kind |-> t.kind, mode |-> mode, spend |-> spend,
                  nullifier |-> DeriveNullifier(t.context, t.opening),
                  fresh |-> CredentialTarget(t.context, f)]
           q == [kind |-> q0.kind, mode |-> q0.mode, spend |-> q0.spend,
                 nullifier |-> q0.nullifier, fresh |-> q0.fresh,
                 proof |-> SpendStatement(t.context, q0)]
           o == t.opening
<1>1. /\ secret \notin used
      /\ used' = used \cup {secret}
      /\ spendRequests' = spendRequests \cup {q}
      /\ spend <= Balance(t)
      /\ UNCHANGED <<accepted, issueReplies, issueRequests>>
  BY DEF PrepareSpend, issuerVars
<1>2. /\ t \in Tokens
      /\ t.context = Context
      /\ AddFits(o.base, t.topup)
      /\ SignedTokenTarget(Target(o), t.topup, t.salt) \in SignedTargets
  BY DEF WalletInv, TypeOK, TokensAreBacked, VerifyToken, EffectiveBalanceExists, Target
<1>3. o \in Openings /\ t.topup \in U64 /\ Balance(t) = o.base + t.topup
  BY <1>2 DEF Tokens, Balance
<1>4. Balance(t) \in U64
  BY <1>2, <1>3, Amounts DEF Openings
<1>5. f \in Openings /\ f.secret = secret /\ f.base = Balance(t) - spend
  BY <1>1, <1>4, Amounts DEF Openings
<1>6. t.topup \in Topups(o)
  BY <1>2, TopupSigned DEF SignedTokenTarget
<1>7. /\ q.fresh = Target(f)
      /\ q.nullifier = DeriveNullifier(Context, o)
      /\ q.spend = spend
  BY <1>2 DEF Target
<1> HIDE DEF f, q0, q, o
<1>8. SignedTargets' = SignedTargets /\ SpentNullifiers' = SpentNullifiers
  BY <1>1 DEF SignedTargets, SpentNullifiers
<1>9. PreparedFrom(q, o, t.topup, f)'
  <2>1. PICK r, p, g : r = q /\ p = o /\ g = f
    OBVIOUS
  <2>2. Topups(p)' = Topups(p)
    BY <1>8 DEF Topups
  <2>3. t.topup \in Topups(p)'
    BY <1>6, <2>1, <2>2
  <2>4. AddFits(p.base, t.topup)
    BY <1>2, <2>1
  <2>5. /\ r.nullifier = DeriveNullifier(Context, p)
        /\ r.fresh = Target(g)
        /\ r.spend = spend
        /\ g.base = Balance(t) - spend
        /\ Balance(t) = p.base + t.topup
    BY <1>3, <1>5, <1>7, <2>1
  <2>6. r.spend <= p.base + t.topup /\ g.base = p.base + t.topup - r.spend
    <3>1. spend \in Nat /\ p.base \in Nat /\ t.topup \in Nat
      BY <1>3, <2>1, Amounts DEF Openings
    <3> QED
      BY <1>1, <2>5, <3>1
  <2>7. g.secret \in used'
    BY <1>1, <1>5, <2>1
  <2>8. PreparedFrom(r, p, t.topup, g)'
    BY <2>3, <2>4, <2>5, <2>6, <2>7 DEF PreparedFrom, Target
  <2> QED
    BY <2>1, <2>8 DEF q, q0, f, o
<1>10. WalletInv'
  BY PrepareSpendStep
<1>11. SpendsPrepared'
  BY <1>1, <1>3, <1>5, <1>8, <1>9, PreparedStays DEF SpendsPrepared
<1>12. IssueRequestsKnown' /\ SignaturesRequested'
  BY <1>1 DEF IssueRequestsKnown, SignaturesRequested
<1>13. RecordsRequested'
  BY <1>1, <1>8 DEF RecordsRequested
<1>14. ASSUME NEW r \in issueRequests
       PROVE  r.commitment # q.fresh
  <2>1. PICK p \in Openings : p.secret \in used /\ r.commitment = Target(p)
    BY DEF IssueRequestsKnown
  <2> QED
    BY <1>1, <1>5, <1>7, <2>1, DerivedApart
<1>15. ASSUME NEW r \in spendRequests
       PROVE  r.fresh # q.fresh
  <2>1. PICK p, g \in Openings, topup \in U64 : PreparedFrom(r, p, topup, g)
    BY DEF SpendsPrepared
  <2> QED
    BY <1>1, <1>5, <1>7, <2>1, DerivedApart DEF PreparedFrom
<1>16. FreshOnce'
  BY <1>1, <1>14, <1>15 DEF FreshOnce
<1> QED
  BY <1>10, <1>11, <1>12, <1>13, <1>16

(* The issuer accepts a request that was sent. *)
LEMMA AcceptSpendLineage ==
  ASSUME LineageInv, NEW q \in spendRequests, NEW x \in U64, NEW salt \in Salts,
         AcceptSpend(q, x, salt)
  PROVE  LineageInv'
<1> USE DEF LineageInv
<1>1. /\ accepted[q.nullifier] = NoRecord
      /\ ReturnAdmitted(q, x)
      /\ accepted' = [accepted EXCEPT ![q.nullifier] = Issuer!RecordFor(q, x, salt)]
      /\ UNCHANGED <<issueRequests, issueReplies, spendRequests, used>>
  BY DEF AcceptSpend, Issuer!Accept, ReturnAdmitted, messageVars, walletVars
<1>2. \A n \in Nullifiers :
        accepted'[n] = IF n = q.nullifier THEN Issuer!RecordFor(q, x, salt) ELSE accepted[n]
  BY <1>1 DEF WalletInv, TypeOK
<1>3. SignedTargets \subseteq SignedTargets'
  BY <1>1, <1>2, SignedTargetsGrow
<1>4. SpentNullifiers' \subseteq SpentNullifiers \cup {q.nullifier}
  BY <1>2 DEF SpentNullifiers
<1>5. WalletInv'
  BY AcceptSpendStep
<1>6. SpendsPrepared'
  BY <1>1, <1>3, PreparedStays DEF SpendsPrepared
<1>7. IssueRequestsKnown' /\ SignaturesRequested' /\ FreshOnce'
  BY <1>1 DEF IssueRequestsKnown, SignaturesRequested, FreshOnce
<1>8. RecordsRequested'
  <2> SUFFICES ASSUME NEW n \in SpentNullifiers'
               PROVE  \E r \in spendRequests, y \in U64, s \in Salts :
                        /\ r.nullifier = n
                        /\ ReturnAdmitted(r, y)
                        /\ accepted'[n] = Issuer!RecordFor(r, y, s)
    BY <1>1 DEF RecordsRequested
  <2>1. n \in Nullifiers
    BY DEF SpentNullifiers
  <2>2. CASE n = q.nullifier
    BY <1>1, <1>2, <2>1, <2>2
  <2>3. CASE n # q.nullifier
    <3>1. accepted'[n] = accepted[n] /\ n \in SpentNullifiers
      BY <1>2, <1>4, <2>1, <2>3
    <3> QED
      BY <3>1 DEF RecordsRequested
  <2> QED
    BY <2>2, <2>3
<1> QED
  BY <1>5, <1>6, <1>7, <1>8

(* Every step of the wallets and the issuer keeps the invariant. *)
LEMMA LineageStep == LineageInv /\ [Next]_vars => LineageInv'
<1> SUFFICES ASSUME LineageInv, [Next]_vars PROVE LineageInv'
  OBVIOUS
<1>1. WalletInv'
  BY WalletStep DEF LineageInv
<1>2. ASSUME NEW secret \in Secrets, NEW b \in U64, PrepareIssue(secret, b)
      PROVE  LineageInv'
  BY <1>2, PrepareIssueLineage
<1>3. ASSUME NEW q \in issueRequests, NEW b \in U64, Issue(q, b)
      PROVE  LineageInv'
  BY <1>3, IssueLineage
<1>4. ASSUME NEW t \in tokens, NEW public \in Contexts, NEW mode \in SettlementModes,
             NEW spend \in U64, NEW secret \in Secrets,
             PrepareSpend(t, public, mode, spend, secret)
      PROVE  LineageInv'
  BY <1>4, PrepareSpendLineage
<1>5. ASSUME NEW q \in spendRequests, NEW x \in U64, NEW salt \in Salts,
             AcceptSpend(q, x, salt)
      PROVE  LineageInv'
  BY <1>5, AcceptSpendLineage
<1>6. ASSUME UNCHANGED <<accepted, issueReplies, issueRequests, spendRequests, used>>
      PROVE  LineageInv'
  BY <1>1, <1>6, QuietStep
<1>7. ASSUME NEW p, NEW public, NEW q, NEW m, FinishIssue(p, public, q, m)
      PROVE  LineageInv'
  BY <1>6, <1>7 DEF FinishIssue, issuerVars, messageVars
<1>8. ASSUME NEW q, AnswerSpend(q)
      PROVE  LineageInv'
  BY <1>6, <1>8 DEF AnswerSpend, Issuer!Answer, messageVars, walletVars
<1>9. ASSUME NEW p, NEW public, NEW q, NEW a, FinishSpend(p, public, q, a)
      PROVE  LineageInv'
  BY <1>6, <1>9 DEF FinishSpend, issuerVars, messageVars
<1>10. ASSUME NEW p, Save(p) \/ Restore(p) \/ Crash
       PROVE  LineageInv'
  BY <1>6, <1>10 DEF Save, Restore, Crash, issuerVars, messageVars
<1>11. ASSUME UNCHANGED vars
       PROVE  LineageInv'
  BY <1>6, <1>11 DEF vars, issuerVars, messageVars, walletVars
<1> QED
  BY <1>2, <1>3, <1>4, <1>5, <1>7, <1>8, <1>9, <1>10, <1>11 DEF Next
-----------------------------------------------------------------------------
(***************************************************************************)
(* What a step does to the values.                                         *)
(***************************************************************************)

(* One more signature adds its top-up to the opening it is for. *)
LEMMA TopupsWith ==
  ASSUME NEW f, NEW x, NEW s, s[1] = Target(f), s[2] = x,
         SignedTargets' = SignedTargets \cup {s}
  PROVE  /\ \A p : p # f => Topups(p)' = Topups(p)
         /\ Topups(f)' = Topups(f) \cup {x}
<1>1. \A p, y : y \in Topups(p) <=> \E u \in SignedTargets : u[1] = Target(p) /\ u[2] = y
  BY TopupSigned
<1>2. \A p, y : y \in Topups(p)' <=> \E u \in SignedTargets' : u[1] = Target(p) /\ u[2] = y
  BY DEF Topups, Target
<1>3. \A p, y : y \in Topups(p)' <=> y \in Topups(p) \/ (Target(p) = Target(f) /\ y = x)
  BY <1>1, <1>2
<1>4. \A p : p # f => Target(p) # Target(f)
  BY DerivedApart
<1>5. ASSUME NEW p, p # f
      PROVE  Topups(p)' = Topups(p)
  <2>1. \A y : y \in Topups(p)' <=> y \in Topups(p)
    BY <1>3, <1>4, <1>5
  <2>2. \A y \in Topups(p)' : y \in Topups(p)
    BY <2>1
  <2>3. \A y \in Topups(p) : y \in Topups(p)'
    BY <2>1
  <2> QED
    BY <2>2, <2>3 DEF Topups
<1>6. Topups(f)' = Topups(f) \cup {x}
  <2>1. \A y : y \in Topups(f)' <=> y \in Topups(f) \cup {x}
    BY <1>3
  <2> QED
    BY <2>1 DEF Topups
<1> QED
  BY <1>5, <1>6

(* Issuance signs opening o: it is live from now on, unless it was signed
   before, and then nothing changes. *)
Signs(o) ==
  /\ accepted' = accepted
  /\ IssuedOpenings' = IssuedOpenings \cup {o}
  /\ \A p : p # o => Topups(p)' = Topups(p)
  /\ Topups(o)' = {0}
  /\ Topups(o) = IF o \in IssuedOpenings THEN {0} ELSE {}
  /\ o \notin IssuedOpenings => ~ IsSpent(o)

(* Issuer::issue gives birth to the opening of its request, unless that was
   signed before: then nothing that has a value changes. *)
LEMMA IssueEffect ==
  ASSUME LineageInv, NEW q \in issueRequests, NEW b \in U64, Issue(q, b)
  PROVE  \E o \in Openings : Signs(o)
<1> USE DEF LineageInv, Signs
<1>1. PICK o \in Openings : q.commitment = Target(o)
  BY DEF IssueRequestsKnown
<1>2. PICK salt \in Salts :
        issueReplies' = issueReplies \cup
          {[signature |-> Preimage(SignedTokenTarget(q.commitment, 0, salt)), salt |-> salt]}
  BY DEF Issue
<1> DEFINE s == SignedTokenTarget(Target(o), 0, salt)
           m == [signature |-> Preimage(s), salt |-> salt]
<1>3. accepted' = accepted
  BY DEF Issue, issuerVars
<1>4. issueReplies' = issueReplies \cup {m}
  BY <1>1, <1>2
<1>5. s[1] = Target(o) /\ s[2] = 0 /\ Eval(m.signature) = s
  BY DEF SignedTokenTarget, Eval, Preimage
<1> HIDE DEF s, m
<1>6. SignedTargets' = SignedTargets \cup {s}
  BY <1>3, <1>4, <1>5 DEF SignedTargets, SpentNullifiers
<1>7. IssuedOpenings' = IssuedOpenings \cup {o}
  <2>1. \A p \in Openings :
          p \in IssuedOpenings' <=> p \in IssuedOpenings \/ Target(p) = Target(o)
    BY <1>4, <1>5 DEF IssuedOpenings, Target
  <2> QED
    BY <2>1, DerivedApart DEF IssuedOpenings
<1>8. (\A p : p # o => Topups(p)' = Topups(p)) /\ Topups(o)' = Topups(o) \cup {0}
  BY <1>5, <1>6, TopupsWith
<1>9. ASSUME NEW x \in Topups(o)
      PROVE  x = 0 /\ o \in IssuedOpenings
  <2>1. \A r \in spendRequests : r.fresh # Target(o)
    BY <1>1 DEF FreshOnce
  <2> QED
    BY <1>9, <2>1, TopupOrigin
<1>10. ASSUME o \in IssuedOpenings
      PROVE  Topups(o) # {}
  BY <1>10, TopupSigned DEF IssuedOpenings, SignedTargets, Target
<1>11. Topups(o) = IF o \in IssuedOpenings THEN {0} ELSE {}
  BY <1>9, <1>10
<1>12. o \notin IssuedOpenings => ~ IsSpent(o)
  BY <1>11, SpentSigned
<1> QED
  BY <1>3, <1>7, <1>8, <1>11, <1>12

(* The spend q that returns x ends the live opening o and gives birth to f. *)
Settles(q, x, o, f, topup) ==
  /\ PreparedFrom(q, o, topup, f)
  /\ x <= q.spend
  /\ ~ IsSpent(o)
  /\ Topups(f) = {} /\ ~ IsSpent(f)
  /\ IssuedOpenings' = IssuedOpenings
  /\ q.nullifier \notin SpentNullifiers
  /\ SpentNullifiers' = SpentNullifiers \cup {q.nullifier}
  /\ \A n \in SpentNullifiers : accepted'[n] = accepted[n]
  /\ RedeemedBy(accepted'[q.nullifier]) = q.spend - x
  /\ \A p \in Openings : IsSpent(p)' <=> (IsSpent(p) \/ p = o)
  /\ \A p : p # f => Topups(p)' = Topups(p)
  /\ Topups(f)' = {x}

(* Accepting a spend ends the opening o that it consumes and gives birth to
   its fresh opening f, with the change. *)
LEMMA AcceptEffect ==
  ASSUME LineageInv, NEW q \in spendRequests, NEW x \in U64, NEW salt \in Salts,
         AcceptSpend(q, x, salt)
  PROVE  \E o, f \in Openings, topup \in U64 : Settles(q, x, o, f, topup)
<1> USE DEF LineageInv, Settles
<1>1. PICK o, f \in Openings, topup \in U64 : PreparedFrom(q, o, topup, f)
  BY DEF SpendsPrepared
<1> DEFINE w == Issuer!RecordFor(q, x, salt)
           s == SignedTokenTarget(Target(f), x, salt)
<1>2. /\ accepted[q.nullifier] = NoRecord
      /\ ReturnAdmitted(q, x)
      /\ accepted' = [accepted EXCEPT ![q.nullifier] = w]
      /\ UNCHANGED issueReplies
  BY DEF AcceptSpend, Issuer!Accept, ReturnAdmitted, messageVars
<1>3. q \in SpendRequests /\ q.nullifier \in Nullifiers
  BY DEF WalletInv, TypeOK, SpendRequests
<1>4. /\ w # NoRecord
      /\ w.response.signature = Preimage(s)
      /\ RedeemedBy(w) = q.spend - x
  <2>1. /\ w # NoRecord
        /\ w.digest = SpendRequestDigest(Context, q)
        /\ ResponseFor(q, x, salt) =
             [signature |-> w.response.signature,
              returnAmount |-> w.response.returnAmount, salt |-> w.response.salt]
    BY <1>3, RecordType
  <2> HIDE DEF w
  <2>2. /\ w.response.signature = Preimage(SignedTokenTarget(q.fresh, x, salt))
        /\ w.response.returnAmount = x
    BY <2>1 DEF ResponseFor
  <2>3. RedeemedBy(w) = q.spend - x
    BY <2>1, <2>2 DEF RedeemedBy, SpendRequestDigest
  <2> QED
    BY <1>1, <2>1, <2>2, <2>3 DEF PreparedFrom
<1> HIDE DEF w
<1>5. \A n \in Nullifiers :
        accepted'[n] = IF n = q.nullifier THEN w ELSE accepted[n]
  BY <1>2 DEF WalletInv, TypeOK
<1>6. /\ q.nullifier \notin SpentNullifiers
      /\ SpentNullifiers' = SpentNullifiers \cup {q.nullifier}
      /\ \A n \in SpentNullifiers : accepted'[n] = accepted[n]
  BY <1>2, <1>3, <1>4, <1>5 DEF SpentNullifiers
<1>7. SignedTargets' = SignedTargets \cup {s}
  <2>1. accepted'[q.nullifier] = w
    BY <1>3, <1>5
  <2>2. Eval(w.response.signature) = s
    BY <1>4 DEF Eval, Preimage
  <2> HIDE DEF s
  <2> QED
    BY <1>2, <1>6, <2>1, <2>2 DEF SignedTargets
<1>8. s[1] = Target(f) /\ s[2] = x
  BY DEF SignedTokenTarget
<1> HIDE DEF s
<1>9. (\A p : p # f => Topups(p)' = Topups(p)) /\ Topups(f)' = Topups(f) \cup {x}
  BY <1>7, <1>8, TopupsWith
<1>10. ~ IsSpent(o)
  BY <1>1, <1>2 DEF IsSpent, PreparedFrom
<1>11. \A p \in Openings : IsSpent(p)' <=> (IsSpent(p) \/ p = o)
  <2> TAKE p \in Openings
  <2>1. DeriveNullifier(Context, p) \in Nullifiers
    BY DerivedValues
  <2>2. DeriveNullifier(Context, p) = q.nullifier <=> p = o
    BY <1>1, DerivedApart DEF PreparedFrom
  <2> QED
    BY <1>2, <1>4, <1>5, <2>1, <2>2 DEF IsSpent
<1>12. Topups(f) = {}
  <2> SUFFICES ASSUME NEW y \in Topups(f) PROVE FALSE
    OBVIOUS
  <2>1. q.fresh = Target(f)
    BY <1>1 DEF PreparedFrom
  <2>2. \A r \in issueRequests : r.commitment # Target(f)
    BY <2>1 DEF FreshOnce
  <2>3. PICK r \in spendRequests : r.fresh = Target(f) /\ RecordedFor(r, y)
    BY <2>2, TopupOrigin
  <2>4. r = q
    BY <2>1, <2>3 DEF FreshOnce
  <2> QED
    BY <1>6, <2>3, <2>4 DEF RecordedFor
<1>13. ~ IsSpent(f)
  BY <1>12, SpentSigned
<1>14. IssuedOpenings' = IssuedOpenings
  BY <1>2 DEF IssuedOpenings
<1>15. x <= q.spend
  <2>1. q.spend \in Nat
    BY <1>3, Amounts DEF SpendRequests
  <2> QED
    BY <1>2, <2>1 DEF ReturnAdmitted
<1>16. RedeemedBy(accepted'[q.nullifier]) = q.spend - x
  BY <1>3, <1>4, <1>5
<1> QED
  BY <1>1, <1>6, <1>9, <1>10, <1>11, <1>12, <1>13, <1>14, <1>15, <1>16

(* Every other step leaves what was signed and recorded alone. *)
LEMMA OtherSteps ==
  ASSUME [Next]_vars
  PROVE  \/ \E q \in issueRequests, b \in U64 : Issue(q, b)
         \/ \E q \in spendRequests, x \in U64, salt \in Salts : AcceptSpend(q, x, salt)
         \/ UNCHANGED <<accepted, issueReplies>>
<1>1. ASSUME NEW secret, NEW b, PrepareIssue(secret, b)
      PROVE  UNCHANGED <<accepted, issueReplies>>
  BY <1>1 DEF PrepareIssue, issuerVars
<1>2. ASSUME NEW p, NEW public, NEW q, NEW m, FinishIssue(p, public, q, m)
      PROVE  UNCHANGED <<accepted, issueReplies>>
  BY <1>2 DEF FinishIssue, issuerVars, messageVars
<1>3. ASSUME NEW t, NEW public, NEW mode, NEW spend, NEW secret,
             PrepareSpend(t, public, mode, spend, secret)
      PROVE  UNCHANGED <<accepted, issueReplies>>
  BY <1>3 DEF PrepareSpend, issuerVars
<1>4. ASSUME NEW q, AnswerSpend(q)
      PROVE  UNCHANGED <<accepted, issueReplies>>
  BY <1>4 DEF AnswerSpend, Issuer!Answer, messageVars
<1>5. ASSUME NEW p, NEW public, NEW q, NEW a, FinishSpend(p, public, q, a)
      PROVE  UNCHANGED <<accepted, issueReplies>>
  BY <1>5 DEF FinishSpend, issuerVars, messageVars
<1>6. ASSUME NEW p, Save(p) \/ Restore(p) \/ Crash
      PROVE  UNCHANGED <<accepted, issueReplies>>
  BY <1>6 DEF Save, Restore, Crash, issuerVars, messageVars
<1>7. UNCHANGED vars => UNCHANGED <<accepted, issueReplies>>
  BY DEF vars, issuerVars, messageVars
<1> QED
  BY <1>1, <1>2, <1>3, <1>4, <1>5, <1>6, <1>7 DEF Next
-----------------------------------------------------------------------------
(***************************************************************************)
(* Value is conserved.                                                     *)
(***************************************************************************)

(* The sums are over finite sets: each step adds one element at most. *)
FiniteLineages ==
  /\ IsFiniteSet(SpentNullifiers)
  /\ IsFiniteSet(IssuedOpenings)
  /\ IsFiniteSet(LiveOpenings)

ValueInv == LineageInv /\ FiniteLineages /\ ValueConserved

(* What the sums add up are integers. *)
ValuesAreIntegers ==
  /\ \A o \in LiveOpenings : Capacity(o) \in Int
  /\ \A n \in SpentNullifiers : RedeemedBy(accepted[n]) \in Int
  /\ \A o \in IssuedOpenings : o.base \in Int

(* By their lineage. *)
LEMMA ValueTypes == LineageInv => ValuesAreIntegers
<1> SUFFICES ASSUME LineageInv PROVE ValuesAreIntegers
  OBVIOUS
<1>1. ASSUME NEW o \in LiveOpenings
      PROVE  Capacity(o) \in Int
  <2>1. PICK x : x \in Topups(o)
    BY DEF LiveOpenings
  <2>2. o \in Openings /\ o.base \in Nat
    BY Amounts DEF LiveOpenings, Openings
  <2>3. Capacity(o) = o.base + x /\ x \in Nat
    BY <2>1, <2>2, CapacityIs, Amounts
  <2> QED
    BY <2>2, <2>3
<1>2. ASSUME NEW n \in SpentNullifiers
      PROVE  RedeemedBy(accepted[n]) \in Int
  <2>1. PICK q \in SpendRequests, x \in U64, salt \in Salts :
          accepted[n] = Issuer!RecordFor(q, x, salt)
    BY DEF LineageInv, WalletInv, TypeOK, RecordsRequested
  <2>2. accepted[n] \in RetryRecords
    BY <2>1, RecordType
  <2>3. accepted[n].digest = SpendRequestDigest(Context, q)
    BY <2>1, RecordType
  <2>4. q.spend \in Nat /\ accepted[n].response.returnAmount \in Nat
    BY <2>2, Amounts DEF RetryRecords, RetryResponses, SpendRequests
  <2> QED
    BY <2>3, <2>4 DEF RedeemedBy, SpendRequestDigest
<1>3. ASSUME NEW o \in IssuedOpenings
      PROVE  o.base \in Int
  <2>1. o.base \in Nat
    BY Amounts DEF IssuedOpenings, Openings
  <2> QED
    BY <2>1
<1> QED
  BY <1>1, <1>2, <1>3 DEF ValuesAreIntegers

(* So they are after a step that keeps the invariant. *)
LEMMA ValueTypesNext == LineageInv' => ValuesAreIntegers'
BY ValueTypes, PTL

(* The sums over what is recorded. *)
LEMMA SumsAreTyped ==
  ASSUME LineageInv, FiniteLineages
  PROVE  Outstanding \in Int /\ Redeemed \in Int /\ Authorised \in Int
BY ValueTypes, SumIsInteger DEF ValuesAreIntegers, FiniteLineages, Outstanding, Redeemed, Authorised

(* An authorised issuance adds the same amount to both sides. *)
LEMMA IssueValue ==
  ASSUME ValueInv, NEW q \in issueRequests, NEW b \in U64, Issue(q, b)
  PROVE  FiniteLineages' /\ ValueConserved'
<1> USE DEF ValueInv, Signs
<1>1. PICK o \in Openings : Signs(o)
  BY IssueEffect
<1>2. LineageInv'
  BY IssueLineage
<1>3. /\ SpentNullifiers' = SpentNullifiers
      /\ Redeemed' = Redeemed
      /\ \A p : IsSpent(p)' = IsSpent(p)
  BY <1>1 DEF SpentNullifiers, Redeemed, IsSpent
<1>4. CASE o \in IssuedOpenings
  <2>1. \A p : Topups(p)' = Topups(p)
    BY <1>1, <1>4
  <2>2. LiveOpenings' = LiveOpenings /\ \A p : Capacity(p)' = Capacity(p)
    BY <1>3, <2>1 DEF LiveOpenings, Capacity
  <2>3. IssuedOpenings' = IssuedOpenings
    BY <1>1, <1>4
  <2> QED
    BY <1>3, <2>2, <2>3
       DEF FiniteLineages, ValueConserved, Outstanding, Authorised
<1>5. CASE o \notin IssuedOpenings
  <2>1. LiveOpenings' = LiveOpenings \cup {o} /\ o \notin LiveOpenings
    BY <1>1, <1>3, <1>5 DEF LiveOpenings
  <2>2. \A p \in LiveOpenings : Capacity(p)' = Capacity(p)
    BY <1>1, <2>1 DEF Capacity
  <2>3. Capacity(o)' = o.base
    <3>1. Max({0}) = 0
      BY DEF Max
    <3>2. o.base \in Nat
      BY Amounts DEF Openings
    <3> QED
      BY <1>1, <3>1, <3>2 DEF Capacity
  <2>4. FiniteLineages'
    BY <1>1, <1>3, <2>1, FS_AddElement DEF FiniteLineages
  <2>5. Outstanding' = o.base + Outstanding
    <3> DEFINE before == [p \in LiveOpenings |-> Capacity(p)]
               after == [p \in LiveOpenings |-> Capacity(p)]'
    <3>1. Outstanding = SumFunction(before) /\ Outstanding' = SumFunction(after)
      BY DEF Outstanding
    <3>2. /\ DOMAIN after = DOMAIN before \cup {o}
          /\ o \notin DOMAIN before
          /\ IsFiniteSet(DOMAIN before)
          /\ after[o] = o.base
          /\ \A p \in DOMAIN before : after[p] = before[p]
      BY <2>1, <2>2, <2>3 DEF FiniteLineages
    <3>3. \A p \in DOMAIN after : after[p] \in Int
      BY <1>2, ValueTypesNext DEF ValuesAreIntegers
    <3> HIDE DEF before, after
    <3> QED
      BY <3>1, <3>2, <3>3, SumExtends
  <2>6. Authorised' = o.base + Authorised
    <3> DEFINE before == [p \in IssuedOpenings |-> p.base]
               after == [p \in IssuedOpenings' |-> p.base]
    <3>1. Authorised = SumFunction(before) /\ Authorised' = SumFunction(after)
      BY DEF Authorised
    <3>2. /\ DOMAIN after = DOMAIN before \cup {o}
          /\ o \notin DOMAIN before
          /\ IsFiniteSet(DOMAIN before)
          /\ after[o] = o.base
          /\ \A p \in DOMAIN before : after[p] = before[p]
      BY <1>1, <1>5 DEF FiniteLineages
    <3>3. \A p \in DOMAIN after : after[p] \in Int
      BY <1>2, ValueTypesNext DEF ValuesAreIntegers
    <3> HIDE DEF before, after
    <3> QED
      BY <3>1, <3>2, <3>3, SumExtends
  <2>7. o.base \in Int /\ Outstanding \in Int /\ Redeemed \in Int /\ Authorised \in Int
    <3>1. o.base \in Nat
      BY Amounts DEF Openings
    <3> QED
      BY <3>1, SumsAreTyped
  <2>8. ValueConserved'
    BY <1>3, <2>5, <2>6, <2>7 DEF ValueConserved
  <2> QED
    BY <2>4, <2>8
<1> QED
  BY <1>4, <1>5

(* Accepting a spend redeems its amount less what is returned. *)
LEMMA AcceptRedeems ==
  ASSUME ValueInv, NEW q \in spendRequests, NEW x \in U64, NEW salt \in Salts,
         AcceptSpend(q, x, salt)
  PROVE  Redeemed' = (q.spend - x) + Redeemed
<1> USE DEF ValueInv, Settles
<1>1. /\ q.nullifier \notin SpentNullifiers
      /\ SpentNullifiers' = SpentNullifiers \cup {q.nullifier}
      /\ \A n \in SpentNullifiers : accepted'[n] = accepted[n]
      /\ RedeemedBy(accepted'[q.nullifier]) = q.spend - x
  BY AcceptEffect
<1> DEFINE before == [n \in SpentNullifiers |-> RedeemedBy(accepted[n])]
           after == [n \in SpentNullifiers |-> RedeemedBy(accepted[n])]'
           new == q.nullifier
<1>2. Redeemed = SumFunction(before) /\ Redeemed' = SumFunction(after)
  BY DEF Redeemed
<1>3. /\ DOMAIN after = DOMAIN before \cup {new}
      /\ new \notin DOMAIN before
      /\ IsFiniteSet(DOMAIN before)
      /\ after[new] = q.spend - x
      /\ \A n \in DOMAIN before : after[n] = before[n]
  BY <1>1 DEF FiniteLineages, RedeemedBy
<1>4. \A n \in DOMAIN after : after[n] \in Int
  BY AcceptSpendLineage, ValueTypesNext DEF ValuesAreIntegers
<1> HIDE DEF before, after, new
<1> QED
  BY <1>2, <1>3, <1>4, SumExtends

(* A spend moves its amount from the live lineages to what was redeemed. *)
LEMMA AcceptValue ==
  ASSUME ValueInv, NEW q \in spendRequests, NEW x \in U64, NEW salt \in Salts,
         AcceptSpend(q, x, salt)
  PROVE  FiniteLineages' /\ ValueConserved'
<1> USE DEF ValueInv, Settles
<1>1. PICK o, f \in Openings, topup \in U64 : Settles(q, x, o, f, topup)
  BY AcceptEffect
<1>2. LineageInv'
  BY AcceptSpendLineage
<1>3. topup \in Topups(o) /\ o # f
  BY <1>1 DEF PreparedFrom
<1> DEFINE rest == LiveOpenings \ {o}
<1>4. /\ LiveOpenings = rest \cup {o} /\ o \notin rest
      /\ LiveOpenings' = rest \cup {f} /\ f \notin rest
  BY <1>1, <1>3 DEF LiveOpenings
<1> HIDE DEF rest
<1>5. IsFiniteSet(rest)
  BY <1>4, FS_Subset DEF FiniteLineages
<1>6. FiniteLineages'
  BY <1>1, <1>4, <1>5, FS_AddElement DEF FiniteLineages
<1>7. Capacity(o) = o.base + topup
  BY <1>3, CapacityIs
<1>8. Capacity(f)' = f.base + x
  <2>1. x \in Nat
    BY Amounts
  <2>2. Max({x}) = x
    BY <2>1 DEF Max
  <2> QED
    BY <1>1, <2>2 DEF Capacity
<1>9. \A p \in rest : Capacity(p)' = Capacity(p)
  BY <1>1, <1>4 DEF Capacity
<1> DEFINE kept == [p \in rest |-> Capacity(p)]
<1>10. /\ Outstanding = o.base + topup + SumFunction(kept)
       /\ SumFunction(kept) \in Int
  <2> DEFINE live == [p \in LiveOpenings |-> Capacity(p)]
  <2>1. Outstanding = SumFunction(live)
    BY DEF Outstanding
  <2>2. /\ DOMAIN live = DOMAIN kept \cup {o}
        /\ o \notin DOMAIN kept
        /\ IsFiniteSet(DOMAIN kept)
        /\ live[o] = o.base + topup
        /\ \A p \in DOMAIN kept : live[p] = kept[p]
    BY <1>4, <1>5, <1>7
  <2>3. \A p \in DOMAIN live : live[p] \in Int
    BY ValueTypes DEF ValuesAreIntegers
  <2> HIDE DEF kept, live
  <2> QED
    BY <2>1, <2>2, <2>3, SumExtends
<1>11. Outstanding' = f.base + x + SumFunction(kept)
  <2> DEFINE live == [p \in LiveOpenings |-> Capacity(p)]'
  <2>1. Outstanding' = SumFunction(live)
    BY DEF Outstanding
  <2>2. /\ DOMAIN live = DOMAIN kept \cup {f}
        /\ f \notin DOMAIN kept
        /\ IsFiniteSet(DOMAIN kept)
        /\ live[f] = f.base + x
        /\ \A p \in DOMAIN kept : live[p] = kept[p]
    BY <1>4, <1>5, <1>8, <1>9
  <2>3. \A p \in DOMAIN live : live[p] \in Int
    BY <1>2, ValueTypesNext DEF ValuesAreIntegers
  <2> HIDE DEF kept, live
  <2> QED
    BY <2>1, <2>2, <2>3, SumExtends
<1> HIDE DEF kept
<1>12. Redeemed' = (q.spend - x) + Redeemed
  BY AcceptRedeems
<1>13. Authorised' = Authorised
  BY <1>1 DEF Authorised
<1>14. f.base = o.base + topup - q.spend
  BY <1>1 DEF PreparedFrom
<1>15. /\ o.base \in Nat /\ f.base \in Nat /\ topup \in Nat
       /\ q.spend \in Nat /\ x \in Nat
  BY Amounts DEF Openings, LineageInv, WalletInv, TypeOK, SpendRequests
<1>16. Redeemed \in Int /\ Authorised \in Int
  BY SumsAreTyped
<1>17. ValueConserved'
  BY <1>10, <1>11, <1>12, <1>13, <1>14, <1>15, <1>16 DEF ValueConserved
<1> QED
  BY <1>6, <1>17

(* Nothing is issued at first, and nothing redeemed. *)
LEMMA ValueInit == Init => ValueInv
<1> SUFFICES ASSUME Init PROVE ValueInv
  OBVIOUS
<1>1. WalletInv
  BY WalletInit
<1>2. SpentNullifiers = {}
  BY DEF Init, Issuer!Init, SpentNullifiers
<1>3. SignedTargets = {} /\ IssuedOpenings = {}
  BY <1>2 DEF Init, SignedTargets, IssuedOpenings
<1>4. LiveOpenings = {}
  BY <1>3 DEF LiveOpenings, Topups
<1>5. LineageInv
  BY <1>1, <1>2 DEF Init, LineageInv, IssueRequestsKnown, SignaturesRequested, SpendsPrepared,
     RecordsRequested, FreshOnce
<1>6. FiniteLineages
  BY <1>2, <1>3, <1>4, FS_EmptySet DEF FiniteLineages
<1>7. Outstanding = 0 /\ Redeemed = 0 /\ Authorised = 0
  BY <1>2, <1>3, <1>4, SumEmpty DEF Outstanding, Redeemed, Authorised, SumFunction
<1> QED
  BY <1>5, <1>6, <1>7 DEF ValueInv, ValueConserved

(* Every step of the wallets and the issuer conserves value. *)
LEMMA ValueStep == ValueInv /\ [Next]_vars => ValueInv'
<1> SUFFICES ASSUME ValueInv, [Next]_vars PROVE ValueInv'
  OBVIOUS
<1>1. LineageInv'
  BY LineageStep DEF ValueInv
<1>2. ASSUME NEW q \in issueRequests, NEW b \in U64, Issue(q, b)
      PROVE  FiniteLineages' /\ ValueConserved'
  BY <1>2, IssueValue
<1>3. ASSUME NEW q \in spendRequests, NEW x \in U64, NEW salt \in Salts, AcceptSpend(q, x, salt)
      PROVE  FiniteLineages' /\ ValueConserved'
  BY <1>3, AcceptValue
<1>4. ASSUME UNCHANGED <<accepted, issueReplies>>
      PROVE  FiniteLineages' /\ ValueConserved'
  BY <1>4 DEF ValueInv, FiniteLineages, ValueConserved, Outstanding, Redeemed, Authorised,
     SpentNullifiers, IssuedOpenings, LiveOpenings, Capacity, Topups, SignedTargets, IsSpent
<1> QED
  BY <1>1, <1>2, <1>3, <1>4, OtherSteps DEF ValueInv

(* The inductive invariant of the credits: each opening belongs to one
   request and is signed for it alone, and value is conserved. *)
THEOREM ValueInvariant == Spec => []ValueInv
<1> QED
  BY ValueInit, ValueStep, PTL DEF Spec

(* What the live lineages can present plus what was redeemed is what was
   issued, after any issuance, retry, race, return, crash or misdelivery
   (DESIGN.md 2.2; issue.rs, spend.rs, issuer.rs). *)
THEOREM ValueIsConserved == Spec => []ValueConserved
<1>1. ValueInv => ValueConserved
  BY DEF ValueInv
<1> QED
  BY <1>1, ValueInvariant, PTL
-----------------------------------------------------------------------------
(***************************************************************************)
(* CreditSystem implements CreditLedger.                                   *)
(***************************************************************************)

(* An opening that is not signed is unborn, and one that is signed and not
   spent has an amount as its worth. *)
LEMMA WorthIs ==
  ASSUME LineageInv, NEW o \in Openings
  PROVE  /\ IsSpent(o) => Worth(o) = -2
         /\ ~ IsSpent(o) /\ Topups(o) = {} => Worth(o) = -1
         /\ \A x \in Topups(o) : ~ IsSpent(o) => Worth(o) = o.base + x
BY CapacityIs DEF Worth

(* Nothing is born at first. *)
LEMMA LedgerInit == Init => Ledger!Init
<1> SUFFICES ASSUME Init PROVE Ledger!Init
  OBVIOUS
<1>1. SpentNullifiers = {}
  BY DEF Init, Issuer!Init, SpentNullifiers
<1>2. SignedTargets = {}
  BY <1>1 DEF Init, SignedTargets
<1>3. ASSUME NEW o \in Openings
      PROVE  Worth(o) = -1
  <2>1. Topups(o) = {}
    BY <1>2 DEF Topups
  <2>2. ~ IsSpent(o)
    BY <1>1, DerivedValues DEF IsSpent, SpentNullifiers
  <2> QED
    BY <2>1, <2>2 DEF Worth
<1>4. Redeemed = 0
  BY <1>1, SumEmpty DEF Redeemed, SumFunction
<1> QED
  BY <1>3, <1>4 DEF Ledger!Init, Ledger!Unborn

(* Issuer::issue mints a lineage, or repeats a signature that exists. *)
LEMMA IssueMints ==
  ASSUME ValueInv, NEW q \in issueRequests, NEW b \in U64, Issue(q, b)
  PROVE  Ledger!Next \/ UNCHANGED Ledger!vars
<1> USE DEF ValueInv, Signs
<1>1. PICK o \in Openings : Signs(o)
  BY IssueEffect
<1>2. Redeemed' = Redeemed /\ \A p : IsSpent(p)' = IsSpent(p)
  BY <1>1 DEF Redeemed, SpentNullifiers, IsSpent
<1>3. ASSUME NEW p \in Openings, Topups(p)' = Topups(p)
      PROVE  Worth(p)' = Worth(p)
  BY <1>2, <1>3 DEF Worth, Capacity
<1>4. CASE o \in IssuedOpenings
  <2>1. \A p \in Openings : Worth(p)' = Worth(p)
    BY <1>1, <1>3, <1>4
  <2> QED
    BY <1>2, <2>1 DEF Ledger!vars
<1>5. CASE o \notin IssuedOpenings
  <2>1. o.base \in U64 /\ o.base \in Nat
    BY Amounts DEF Openings
  <2>2. Worth(o) = -1
    BY <1>1, <1>5 DEF Worth
  <2>3. Worth(o)' = o.base
    <3>1. Max({0}) = 0
      BY DEF Max
    <3> QED
      BY <1>1, <1>2, <1>5, <2>1, <3>1 DEF Worth, Capacity
  <2>4. \A p \in Openings : p # o => Worth(p)' = Worth(p)
    BY <1>1, <1>3
  <2>5. Ledger!Mint(o, o.base)
    BY <1>2, <2>3, <2>4 DEF Ledger!Mint
  <2>6. Ledger!Born(o)
    BY <2>1, <2>2, <2>3 DEF Ledger!Born, Ledger!IsUnborn, Ledger!Unborn
  <2>7. o.base \in Ledger!Amounts
    BY <2>1 DEF Ledger!Amounts, U64
  <2> QED
    BY <2>5, <2>6, <2>7 DEF Ledger!Next
<1> QED
  BY <1>4, <1>5

(* The issuer settles one lineage into redeemed value and a fresh lineage. *)
LEMMA AcceptSettles ==
  ASSUME ValueInv, NEW q \in spendRequests, NEW x \in U64, NEW salt \in Salts,
         AcceptSpend(q, x, salt)
  PROVE  Ledger!Next
<1> USE DEF ValueInv, Settles
<1>1. PICK o, f \in Openings, topup \in U64 : Settles(q, x, o, f, topup)
  BY AcceptEffect
<1>2. /\ topup \in Topups(o) /\ o # f
      /\ AddFits(o.base, topup)
      /\ q.spend <= o.base + topup
      /\ f.base = o.base + topup - q.spend
  BY <1>1 DEF PreparedFrom
<1>3. /\ o.base \in Nat /\ f.base \in Nat /\ topup \in Nat
      /\ q.spend \in Nat /\ x \in Nat
  BY Amounts DEF Openings, LineageInv, WalletInv, TypeOK, SpendRequests
<1>4. Worth(o) = o.base + topup
  BY <1>1, <1>2, WorthIs
<1>5. Worth(f) = -1
  BY <1>1, WorthIs
<1>6. Worth(o)' = -2
  BY <1>1 DEF Worth
<1>7. Worth(f)' = f.base + x
  <2>1. Max({x}) = x
    BY <1>3 DEF Max
  <2>2. ~ IsSpent(f)'
    BY <1>1, <1>2
  <2> QED
    BY <1>1, <2>1, <2>2 DEF Worth, Capacity
<1>8. ASSUME NEW p \in Openings, p # o, p # f
      PROVE  Worth(p)' = Worth(p)
  <2>1. Topups(p)' = Topups(p) /\ (IsSpent(p)' <=> IsSpent(p))
    BY <1>1, <1>8
  <2> QED
    BY <2>1 DEF Worth, Capacity
<1>9. Redeemed' = Redeemed + (q.spend - x)
  <2>1. Redeemed' = (q.spend - x) + Redeemed
    BY AcceptRedeems
  <2>2. Redeemed \in Int
    BY SumsAreTyped
  <2> QED
    BY <1>3, <2>1, <2>2
<1>10. Ledger!Settle(o, f, q.spend, x)
  <2>1. f.base + x = Worth(o) - q.spend + x
    BY <1>2, <1>3, <1>4
  <2> QED
    BY <1>2, <1>6, <1>7, <1>8, <1>9, <2>1 DEF Ledger!Settle, Ledger!Spent
<1>11. Ledger!Born(f)
  BY <1>3, <1>5, <1>7 DEF Ledger!Born, Ledger!IsUnborn, Ledger!Unborn
<1>12. Ledger!IsLive(o) /\ q.spend \in 0 .. Worth(o) /\ x \in 0 .. q.spend
  BY <1>1, <1>2, <1>3, <1>4, U64MaxAssumption
     DEF Ledger!IsLive, Ledger!Amounts, AddFits
<1> QED
  BY <1>10, <1>11, <1>12 DEF Ledger!Next

(* Every step of wallets and issuer is a step of the ledger, or none. *)
LEMMA LedgerStep == ValueInv /\ [Next]_vars => [Ledger!Next]_Ledger!vars
<1> SUFFICES ASSUME ValueInv, [Next]_vars
             PROVE  Ledger!Next \/ UNCHANGED Ledger!vars
  OBVIOUS
<1>1. ASSUME NEW q \in issueRequests, NEW b \in U64, Issue(q, b)
      PROVE  Ledger!Next \/ UNCHANGED Ledger!vars
  BY <1>1, IssueMints
<1>2. ASSUME NEW q \in spendRequests, NEW x \in U64, NEW salt \in Salts, AcceptSpend(q, x, salt)
      PROVE  Ledger!Next \/ UNCHANGED Ledger!vars
  BY <1>2, AcceptSettles
<1>3. ASSUME UNCHANGED <<accepted, issueReplies>>
      PROVE  UNCHANGED Ledger!vars
  BY <1>3 DEF Ledger!vars, Worth, Redeemed, SpentNullifiers, Capacity, Topups, SignedTargets,
     IsSpent
<1> QED
  BY <1>1, <1>2, <1>3, OtherSteps

(* The wallets and the issuer implement the ledger of credits: a lineage is
   born once, of an issuance or of a spend, is spent at most once, and every
   spend settles the whole of it (CreditLedger; DESIGN.md 2.2). *)
THEOREM LedgerImplemented == Spec => ImplementsLedger
<1> QED
  BY LedgerInit, LedgerStep, ValueInvariant, PTL DEF Spec, ImplementsLedger, Ledger!Spec
=============================================================================
