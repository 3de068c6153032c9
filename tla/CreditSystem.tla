---------------------------- MODULE CreditSystem ----------------------------
(***************************************************************************)
(* Wallets and the issuer together: issuance, spending in both settlement  *)
(* modes, lost, repeated and misdelivered messages, and wallet crashes     *)
(* (protocol/public_key.rs, issue.rs, spend.rs over issuer.rs).            *)
(*                                                                         *)
(* The spend service of the issuer is SpendOnce, which SpendIssuer's       *)
(* replicas implement; issuance touches no shared state, so Issuer::issue  *)
(* is one step.  The wallet state is that of all clients together: they    *)
(* share nothing but the issuer, and secrets never repeat.                 *)
(*                                                                         *)
(* Messages are sets of everything ever sent: a message may be delivered   *)
(* any number of times, late, to the wrong pending operation, or never.    *)
(***************************************************************************)
EXTENDS ActTypes, FiniteSetsExt, Functions

CONSTANTS
  Context,      (* The context of the issuer.                               *)
  Secrets,      (* Pairs of user key and hiding nonce the RNG may return.   *)
  NoRecord      (* "no record" for a nullifier.                             *)

(* An opening is a secret pair and a base balance.  Credential target and
   nullifier are two segments of one XOF over context and opening. *)
Openings == [secret : Secrets, base : U64]
CredentialTarget(context, o) == <<"target", context, o>>
DeriveNullifier(context, o) == <<"nullifier", context, o>>

ASSUME OpeningsAssumption ==
  /\ Context \in Contexts
  /\ Nullifiers = {DeriveNullifier(Context, o) : o \in Openings}
  /\ Commitments = {CredentialTarget(Context, o) : o \in Openings}

ASSUME NoRecordAssumption == NoRecord \notin RetryRecords

VARIABLES
  accepted,      (* SpendOnce: the record of each consumed nullifier.       *)
  answers,       (* SpendOnce: successful answers to spend requests.        *)
  issueRequests, (* Issuance requests sent.                                 *)
  issueReplies,  (* Issuance responses sent.                                *)
  spendRequests, (* Spend requests sent.                                    *)
  used,          (* Secrets the RNG has returned so far.                    *)
  pending,       (* Pending operations in wallet memory.                    *)
  saved,         (* Pending operations written to disk (to_bytes).          *)
  tokens         (* Tokens the wallets hold.                                *)

issuerVars == <<accepted, answers>>
walletVars == <<used, pending, saved, tokens>>
messageVars == <<issueRequests, issueReplies, spendRequests>>
vars == <<issuerVars, messageVars, walletVars>>

IssueStatement(context, balance, commitment) ==
  [context |-> context, balance |-> balance, commitment |-> commitment]

IssueRequests ==
  [commitment : Commitments,
   proof : [context : Contexts, balance : U64, commitment : Commitments]]

IssueReplies == [signature : Signatures, salt : Salts]

PendingIssues == [type : {"issue"}, context : Contexts, opening : Openings]

PendingSpends ==
  [type : {"spend"}, context : Contexts, kind : CredentialKinds,
   mode : SettlementModes, opening : Openings, digest : Digests]

Tokens ==
  [kind : CredentialKinds, context : Contexts, signature : Signatures,
   opening : Openings, topup : U64, salt : Salts]

Issuer == INSTANCE SpendOnce
            WITH Requests <- SpendRequests

TypeOK ==
  /\ accepted \in [Nullifiers -> RetryRecords \cup {NoRecord}]
  /\ answers \subseteq [request : SpendRequests, response : SpendResponses]
  /\ issueRequests \subseteq IssueRequests
  /\ issueReplies \subseteq IssueReplies
  /\ spendRequests \subseteq SpendRequests
  /\ used \subseteq Secrets
  /\ pending \subseteq PendingIssues \cup PendingSpends
  /\ saved \subseteq PendingIssues \cup PendingSpends
  /\ tokens \subseteq Tokens

Init ==
  /\ Issuer!Init
  /\ issueRequests = {}
  /\ issueReplies = {}
  /\ spendRequests = {}
  /\ used = {}
  /\ pending = {}
  /\ saved = {}
  /\ tokens = {}
-----------------------------------------------------------------------------
(***************************************************************************)
(* Issuance.                                                               *)
(***************************************************************************)

(* PublicKey::prepare_issue draws a fresh key and nonce. *)
PrepareIssue(secret, balance) ==
  LET o == [secret |-> secret, base |-> balance]
      c == CredentialTarget(Context, o)
  IN /\ secret \notin used
     /\ used' = used \cup {secret}
     /\ pending' = pending \cup
          {[type |-> "issue", context |-> Context, opening |-> o]}
     /\ issueRequests' = issueRequests \cup
          {[commitment |-> c, proof |-> IssueStatement(Context, balance, c)]}
     /\ UNCHANGED <<issuerVars, issueReplies, spendRequests, saved, tokens>>

(* Issuer::issue for the balance the application authorises.  A repeated
   request is signed again under a fresh salt. *)
Issue(q, balance) ==
  /\ q \in issueRequests
  /\ q.proof = IssueStatement(Context, balance, q.commitment)
  /\ \E salt \in Salts :
       issueReplies' = issueReplies \cup
         {[signature |-> Preimage(SignedTokenTarget(q.commitment, 0, salt)),
           salt |-> salt]}
  /\ UNCHANGED <<issuerVars, issueRequests, spendRequests, walletVars>>

(* Mutant: the response's signature is not checked. *)
IssueOutcomeUnchecked(p, public, q, reply) ==
  IF p.context # public THEN "WrongContext"
  ELSE IF q.commitment # CredentialTarget(p.context, p.opening) THEN "InvalidRequest"
  ELSE "Ok"

(* PendingIssue::finish. *)
IssueOutcome(p, public, q, reply) ==
  IF p.context # public THEN "WrongContext"
  ELSE IF q.commitment # CredentialTarget(p.context, p.opening) THEN "InvalidRequest"
  ELSE IF Eval(reply.signature)
            # SignedTokenTarget(CredentialTarget(p.context, p.opening), 0, reply.salt)
    THEN "InvalidSignature"
  ELSE "Ok"

(* finish takes the pending state by value: it is gone even on an error. *)
FinishIssue(p, public, q, reply) ==
  /\ p \in pending \cap PendingIssues
  /\ q \in issueRequests
  /\ reply \in issueReplies
  /\ pending' = pending \ {p}
  /\ tokens' =
       IF IssueOutcome(p, public, q, reply) = "Ok"
       THEN tokens \cup
              {[kind |-> "Direct", context |-> p.context,
                signature |-> reply.signature, opening |-> p.opening,
                topup |-> 0, salt |-> reply.salt]}
       ELSE tokens
  /\ UNCHANGED <<issuerVars, messageVars, used, saved>>
-----------------------------------------------------------------------------
(***************************************************************************)
(* Spending.                                                               *)
(***************************************************************************)

(* PublicKey::verify_token. *)
VerifyToken(public, t) ==
  /\ t.context = public
  /\ EffectiveBalanceExists(t.kind, t.opening.base, t.topup)
  /\ Eval(t.signature)
       = SignedTokenTarget(CredentialTarget(t.context, t.opening), t.topup, t.salt)

(* Mutant: the return a token carries is not part of its balance. *)
BalanceWithoutTopup(t) == t.opening.base

Balance(t) == t.opening.base + t.topup

(* Token::prepare_typed_spend takes the token by reference: a token may
   back several requests, all with the same nullifier. *)
PrepareSpend(t, public, mode, spend, secret) ==
  LET fresh == [secret |-> secret, base |-> Balance(t) - spend]
      q0 == [kind |-> t.kind, mode |-> mode, spend |-> spend,
             nullifier |-> DeriveNullifier(t.context, t.opening),
             fresh |-> CredentialTarget(t.context, fresh)]
      q == [kind |-> q0.kind, mode |-> q0.mode, spend |-> q0.spend,
            nullifier |-> q0.nullifier, fresh |-> q0.fresh,
            proof |-> SpendStatement(t.context, q0)]
  IN /\ t \in tokens
     /\ VerifyToken(public, t)
     /\ spend <= Balance(t)
     /\ secret \notin used
     /\ used' = used \cup {secret}
     /\ spendRequests' = spendRequests \cup {q}
     /\ pending' = pending \cup
          {[type |-> "spend", context |-> t.context, kind |-> t.kind,
            mode |-> mode, opening |-> fresh,
            digest |-> SpendRequestDigest(t.context, q)]}
     /\ UNCHANGED <<issuerVars, issueRequests, issueReplies, saved, tokens>>

(* The issuer accepts a request it has received. *)
AcceptSpend(q, x, salt) ==
  /\ q \in spendRequests
  /\ Issuer!Accept(q, x, salt)
  /\ UNCHANGED <<messageVars, walletVars>>

(* The issuer answers a request, first or exactly repeated. *)
AnswerSpend(q) ==
  /\ q \in spendRequests
  /\ Issuer!Answer(q)
  /\ UNCHANGED <<messageVars, walletVars>>

(* Mutant: the whole spend cannot be returned. *)
ReturnFitsStrictly(base, spend, topup) == topup < spend /\ AddFits(base, topup)

(* The bounds that finish puts on a deferred return. *)
ReturnFits(base, spend, topup) == topup <= spend /\ AddFits(base, topup)

(* TypedPendingSpend::finish, both modes: validate_request, the return
   bounds of the deferred mode, then the signature. *)
SpendOutcome(p, public, q, response) ==
  LET commitment == CredentialTarget(p.context, p.opening)
      topup == IF p.mode = "FixedSpend" THEN 0 ELSE response.returnAmount
  IN IF p.context # public THEN "WrongContext"
     ELSE IF \/ SpendRequestDigest(p.context, q) # p.digest
             \/ q.fresh # commitment
       THEN "InvalidRequest"
     ELSE IF ~ReturnFits(p.opening.base, q.spend, topup)
       THEN "InvalidReturnAmount"
     ELSE IF Eval(response.signature)
               # SignedTokenTarget(commitment, topup, response.salt)
       THEN "InvalidSignature"
     ELSE "Ok"

(* The wallet finishes p with some request and some response of p's types;
   the pending state is consumed either way. *)
FinishSpend(p, public, q, a) ==
  LET response == a.response
  IN /\ p \in pending \cap PendingSpends
     /\ q \in spendRequests /\ q.kind = p.kind /\ q.mode = p.mode
     /\ a \in answers /\ a.request.kind = p.kind /\ a.request.mode = p.mode
     /\ pending' = pending \ {p}
     /\ tokens' =
          IF SpendOutcome(p, public, q, response) = "Ok"
          THEN tokens \cup
                 {[kind |-> IF p.mode = "FixedSpend" THEN "Direct" ELSE "DeferredReturn",
                   context |-> p.context,
                   signature |-> response.signature,
                   opening |-> p.opening,
                   topup |-> IF p.mode = "FixedSpend" THEN 0 ELSE response.returnAmount,
                   salt |-> response.salt]}
          ELSE tokens
     /\ UNCHANGED <<issuerVars, messageVars, used, saved>>
-----------------------------------------------------------------------------
(***************************************************************************)
(* Persistence of the wallets.                                             *)
(***************************************************************************)

(* The application stores a pending operation's bytes. *)
Save(p) ==
  /\ p \in pending \ saved
  /\ saved' = saved \cup {p}
  /\ UNCHANGED <<issuerVars, messageVars, used, pending, tokens>>

(* A pending operation is decoded from its bytes. *)
Restore(p) ==
  /\ p \in saved \ pending
  /\ pending' = pending \cup {p}
  /\ UNCHANGED <<issuerVars, messageVars, used, saved, tokens>>

(* A wallet process dies: pending operations in memory are lost. *)
Crash ==
  /\ pending # {}
  /\ pending' = {}
  /\ UNCHANGED <<issuerVars, messageVars, used, saved, tokens>>

Next ==
  \/ \E secret \in Secrets, b \in U64 : PrepareIssue(secret, b)
  \/ \E q \in issueRequests, b \in U64 : Issue(q, b)
  \/ \E p \in pending, public \in Contexts, q \in issueRequests, m \in issueReplies :
       FinishIssue(p, public, q, m)
  \/ \E t \in tokens, public \in Contexts, mode \in SettlementModes,
        spend \in U64, secret \in Secrets :
       PrepareSpend(t, public, mode, spend, secret)
  \/ \E q \in spendRequests, x \in U64, salt \in Salts : AcceptSpend(q, x, salt)
  \/ \E q \in spendRequests : AnswerSpend(q)
  \/ \E p \in pending, public \in Contexts, q \in spendRequests, a \in answers :
       FinishSpend(p, public, q, a)
  \/ \E p \in pending : Save(p)
  \/ \E p \in saved : Restore(p)
  \/ Crash

Spec == Init /\ [][Next]_vars

(* p is finished with the answer to its own request. *)
Recover(p) ==
  \E a \in answers :
    /\ p.digest = SpendRequestDigest(Context, a.request)
    /\ FinishSpend(p, Context, a.request, a)

(* Secrets never repeat, so a secret names one pending operation.  The
   issuer answers what it accepted, and a client that has a pending
   spend on disk keeps restoring it and retrying, though it may crash, and
   use up the state on a wrong response, any number of times. *)
Fairness ==
  /\ WF_vars(\E q \in spendRequests : AnswerSpend(q))
  /\ \A secret \in Secrets :
       /\ WF_vars(\E p \in saved : p.opening.secret = secret /\ Restore(p))
       /\ SF_vars(\E p \in pending \cap saved \cap PendingSpends :
                    p.opening.secret = secret /\ Recover(p))

FairSpec == Spec /\ Fairness
-----------------------------------------------------------------------------
(***************************************************************************)
(* What the system promises.                                               *)
(***************************************************************************)

SpentNullifiers == {n \in Nullifiers : accepted[n] # NoRecord}

(* The signatures that exist: released by issuance, or durable. *)
SignedTargets ==
  {Eval(m.signature) : m \in issueReplies}
    \cup {Eval(accepted[n].response.signature) : n \in SpentNullifiers}

IssuedOpenings ==
  {o \in Openings :
     \E m \in issueReplies : Eval(m.signature)[1] = CredentialTarget(Context, o)}

Topups(o) ==
  {target[2] : target \in {s \in SignedTargets : s[1] = CredentialTarget(Context, o)}}

IsSpent(o) == accepted[DeriveNullifier(Context, o)] # NoRecord

(* The most an opening's signatures let it present. *)
Capacity(o) == o.base + Max(Topups(o))

LiveOpenings == {o \in Openings : Topups(o) # {} /\ ~IsSpent(o)}

RedeemedBy(w) == w.digest[2].spend - w.response.returnAmount

Outstanding == SumFunction([o \in LiveOpenings |-> Capacity(o)])

Redeemed == SumFunction([n \in SpentNullifiers |-> RedeemedBy(accepted[n])])

Authorised == SumFunction([o \in IssuedOpenings |-> o.base])

(* The fiscal invariant (DESIGN.md 2.2), as an equality: what the live
   lineages can present plus what was redeemed is what was issued, whatever
   was signed twice, replayed, raced, returned or lost. *)
ValueConserved == Outstanding + Redeemed = Authorised

(* A wallet never holds a token that the issuer did not durably sign, nor
   one whose effective balance does not exist in u64. *)
TokensAreBacked ==
  \A t \in tokens :
    /\ VerifyToken(Context, t)
    /\ SignedTokenTarget(CredentialTarget(Context, t.opening), t.topup, t.salt)
         \in SignedTargets

(* A pending operation that still exists, in memory or on disk, can finish
   with any answer to its own request: the change of a consumed token is
   never stranded by the client's own checks. *)
AnswersFinish ==
  \A p \in (pending \cup saved) \cap PendingSpends, a \in answers :
    p.digest = SpendRequestDigest(Context, a.request) =>
      SpendOutcome(p, Context, a.request, a.response) = "Ok"

(* When the request of a pending spend that is on disk consumed its
   nullifier, the wallet obtains the change: crashes, lost answers and wrong
   responses, each of which destroys the state in memory, only delay it. *)
ChangeIsRecoverable ==
  \A secret \in Secrets :
    (\E p \in saved \cap PendingSpends :
       /\ p.opening.secret = secret
       /\ \E n \in Nullifiers : accepted[n] # NoRecord /\ accepted[n].digest = p.digest)
    ~> (\E t \in tokens : t.opening.secret = secret)

(* The wallet and the issuer implement the ledger of credits.  A lineage's
   value is what its durable signatures can present. *)
Worth(o) ==
  IF IsSpent(o) THEN -2 ELSE IF Topups(o) = {} THEN -1 ELSE Capacity(o)

Ledger == INSTANCE CreditLedger
            WITH Lineages <- Openings, Largest <- U64Max,
                 worth <- [o \in Openings |-> Worth(o)], redeemed <- Redeemed

ImplementsLedger == Ledger!Spec
=============================================================================
