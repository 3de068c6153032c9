----------------------------- MODULE WireFormat -----------------------------
(***************************************************************************)
(* The canonical encodings of VOLE-ACT: the envelope and the cursor of     *)
(* crates/vole-act/src/wire.rs, the codecs of the ten protocol artifacts   *)
(* (protocol/*.rs), the proof codec nested in requests                     *)
(* (voleith/src/proof.rs) and bit vectors (voleith/src/bits.rs).           *)
(*                                                                         *)
(* An artifact is written to a medium (a file, a row, a connection), the   *)
(* medium may be damaged, and any reader may then be given its bytes.      *)
(* Readers keep no state, so what they answer is an operator of the bytes. *)
(*                                                                         *)
(* Bytes are numbers below 256.  A codec is given by its layout, the       *)
(* sequence of fields that the code writes and takes one after the other;  *)
(* widths and limits are constants, kept in the code's proportions.        *)
(***************************************************************************)
EXTENDS Integers, Sequences, SequencesExt, FiniteSets

CONSTANTS
  U32Bytes, U64Bytes,  (* Widths of u32 and u64 (4 and 8).                 *)
  HashBytes,           (* Width of contexts, keys, nonces, digests (32).   *)
  ElemBytes,           (* Width of a GF(2^128) element and a seed (16).    *)
  SaltBytes,           (* Width of a salt.                                 *)
  ParamSets,           (* Wire identifiers of the MAYO parameter sets.     *)
  TargetNibbles,       (* M of each parameter set.                         *)
  SignatureNibbles,    (* K * N of each parameter set.                     *)
  PublicNibbles, SecretNibbles, (* Entries of the expanded MAYO keys.      *)
  MaxWireBytes,        (* MAX_WIRE_BYTES.                                  *)
  MaxProofBytes,       (* MAX_PROOF_WIRE_BYTES.                            *)
  MaxContextBytes,     (* MAX_APPLICATION_CONTEXT_BYTES.                   *)
  MaxItems,            (* The absolute limits of counts (16 .. 128).       *)
  Contexts,            (* Issuer contexts.                                 *)
  Artifacts,           (* What is written: records [type, body].           *)
  SignedTokens,        (* Token bodies the issuer has signed.              *)
  DamageBytes,         (* Values a damaged byte may take.                  *)
  MaxFaults            (* How often the medium is damaged.                 *)

ASSUME WidthAssumption ==
  {U32Bytes, U64Bytes, HashBytes, ElemBytes, SaltBytes} \subseteq Nat \ {0}

Word == 256 ^ U64Bytes       (* usize arithmetic is modulo this number. *)

-----------------------------------------------------------------------------
(* Numbers, nibbles and bits as bytes.                                     *)

LittleEndian(n, width) == [i \in 1 .. width |-> (n \div 256 ^ (i - 1)) % 256]
FromLittleEndian(bytes) == FoldRight(LAMBDA b, n : b + 256 * n, bytes, 0)

CeilDiv(a, b) == (a + b - 1) \div b

(* pack_nibbles: the first of two nibbles is the low half of a byte. *)
PackNibbles(values) ==
  [j \in 1 .. CeilDiv(Len(values), 2) |->
     values[2 * j - 1] + (IF 2 * j <= Len(values) THEN 16 * values[2 * j] ELSE 0)]

UnpackNibbles(bytes, count) ==
  [i \in 1 .. count |-> IF i % 2 = 1 THEN bytes[(i + 1) \div 2] % 16
                                     ELSE bytes[i \div 2] \div 16]

(* Mutant: the unused half of the last byte is not looked at. *)
PaddingIgnored(bytes, count) == TRUE

(* Decoder::nibbles and NibbleReader: the unused half of the last byte is 0. *)
NibblesCanonical(bytes, count) ==
  count % 2 = 1 => bytes[Len(bytes)] \div 16 = 0

PackBits(bits) ==
  [j \in 1 .. CeilDiv(Len(bits), 8) |->
     FoldRight(LAMBDA b, n : b + 2 * n,
               SubSeq(bits, 8 * j - 7, IF 8 * j < Len(bits) THEN 8 * j ELSE Len(bits)), 0)]

UnpackBits(bytes, count) ==
  [i \in 1 .. count |-> (bytes[((i - 1) \div 8) + 1] \div 2 ^ ((i - 1) % 8)) % 2]

(* BitVec::from_bytes: masking the tail changes nothing. *)
BitsCanonical(bytes, count) ==
  count % 8 # 0 => bytes[Len(bytes)] \div 2 ^ (count % 8) = 0

-----------------------------------------------------------------------------
(* Layouts.                                                                *)

Const(bytes, error) == [form |-> "const", bytes |-> bytes, error |-> error]
Raw(n) == [form |-> "raw", n |-> n]
U64 == [form |-> "u64"]
Nibbles(n) == [form |-> "nibbles", n |-> n]
Bits == [form |-> "bits"]
Profile == [form |-> "profile"]
Blob(max) == [form |-> "blob", max |-> max]
Counted(items, min) == [form |-> "counted", items |-> items, min |-> min]
Framed(items, max) == [form |-> "framed", items |-> items, max |-> max]

(* Proof::to_bytes: the minima are the bytes the smallest item takes. *)
ProofMagic == <<86>>
ProofWireVersion == <<1>>
ProofLayout ==
  << Const(ProofMagic, "InvalidEncoding"),
     Const(ProofWireVersion, "UnsupportedVersion"),
     Raw(SaltBytes),
     Counted(<<Raw(HashBytes)>>, HashBytes),               (* coms            *)
     Counted(<<Bits>>, U64Bytes),                          (* corrections     *)
     Bits,                                                 (* d               *)
     Raw(ElemBytes),                                       (* u_tilde         *)
     Counted(<<Raw(ElemBytes)>>, ElemBytes),               (* v_tilde         *)
     Counted(<<Raw(ElemBytes)>>, ElemBytes),               (* qs_coefficients *)
     Counted(<<Counted(<<Raw(ElemBytes)>>, ElemBytes), Raw(HashBytes)>>,
             U32Bytes + HashBytes) >>                      (* openings        *)

(* PublicKey::to_bytes and SecretKey::to_bytes of crates/mayo. *)
MayoKeyLayout(magic, p, nibbles) ==
  << Const(magic, "InvalidEncoding"), Const(<<p>>, "InvalidEncoding"),
     Nibbles(nibbles) >>

PublicKeyMagic == <<77>>
SecretKeyMagic == <<83>>

(* An artifact's type: the four identifiers of the envelope. *)
Type(artifact, params, kind, settlement) ==
  [artifact |-> artifact, params |-> params, kind |-> kind, settlement |-> settlement]

DirectId == 1           (* Direct::WIRE_ID                *)
DeferredReturnId == 2   (* DeferredReturn::WIRE_ID        *)
FixedSpendId == 1       (* FixedSpend::WIRE_ID            *)
DeferredSpendId == 2    (* DeferredReturnSpend::WIRE_ID   *)
RetryRecordId == 10     (* WIRE_RETRY_RECORD              *)
TokenId == 6            (* WIRE_TOKEN                     *)
SpendResponseId == 8    (* WIRE_SPEND_RESPONSE            *)

(* The types whose envelope is fixed by the artifact, those that name a
   credential kind, those that name a kind and a settlement, and the record,
   whose settlement is that of the stored response. *)
Types ==
  {Type(a, p, 0, 0) : a \in 1 .. 5, p \in ParamSets}
    \cup {Type(TokenId, p, k, 0) : p \in ParamSets, k \in {DirectId, DeferredReturnId}}
    \cup {Type(a, p, k, s) : a \in 7 .. 9, p \in ParamSets,
                             k \in {DirectId, DeferredReturnId},
                             s \in {FixedSpendId, DeferredSpendId}}
    \cup {Type(RetryRecordId, p, 0, s) : p \in ParamSets,
                                         s \in {FixedSpendId, DeferredSpendId}}

(* What each to_bytes writes after the envelope, and from_bytes takes. *)
PublicKeyLayout(t) ==
  <<Profile, Blob(MaxContextBytes),
    Framed(MayoKeyLayout(PublicKeyMagic, t.params, PublicNibbles[t.params]), Word)>>
IssuerKeyLayout(t) ==
  <<Profile, Blob(MaxContextBytes),
    Framed(MayoKeyLayout(SecretKeyMagic, t.params, SecretNibbles[t.params]), Word)>>
IssueRequestLayout(t) ==
  <<Nibbles(TargetNibbles[t.params]), Framed(ProofLayout, MaxProofBytes)>>
IssueResponseLayout(t) == <<Nibbles(SignatureNibbles[t.params]), Raw(SaltBytes)>>
PendingIssueLayout(t) == <<Raw(HashBytes), Raw(HashBytes), U64, Raw(HashBytes)>>
TokenLayout(t) ==
  <<Raw(HashBytes), Nibbles(SignatureNibbles[t.params]), Raw(HashBytes), U64,
    Raw(HashBytes), U64, Raw(SaltBytes)>>
SpendRequestLayout(t) ==
  <<U64, Raw(HashBytes), Nibbles(TargetNibbles[t.params]), Framed(ProofLayout, MaxProofBytes)>>
SpendResponseLayout(t) == <<Nibbles(SignatureNibbles[t.params]), U64, Raw(SaltBytes)>>
PendingSpendLayout(t) ==
  <<Raw(HashBytes), Raw(HashBytes), U64, Raw(HashBytes), Raw(HashBytes)>>
RetryRecordLayout(t) ==
  <<Raw(HashBytes), Nibbles(SignatureNibbles[t.params]), U64, Raw(SaltBytes)>>

Layout(t) ==
  << PublicKeyLayout(t), IssuerKeyLayout(t), IssueRequestLayout(t),
     IssueResponseLayout(t), PendingIssueLayout(t), TokenLayout(t),
     SpendRequestLayout(t), SpendResponseLayout(t), PendingSpendLayout(t),
     RetryRecordLayout(t) >>[t.artifact]

-----------------------------------------------------------------------------
(* Encoding.                                                               *)

Magic == <<65>>
WireVersion == <<2>>
Identifiers(t) == <<t.artifact, t.params, t.kind, t.settlement>>
Header(t) == Magic \o WireVersion \o Identifiers(t)

RECURSIVE EncodeFields(_, _)
EncodeField(f, v) ==
  CASE f.form = "const"   -> f.bytes
    [] f.form = "raw"     -> v
    [] f.form = "u64"     -> LittleEndian(v, U64Bytes)
    [] f.form = "nibbles" -> PackNibbles(v)
    [] f.form = "bits"    -> LittleEndian(Len(v), U64Bytes) \o PackBits(v)
    [] f.form = "profile" -> <<v>>
    [] f.form = "blob"    -> LittleEndian(Len(v), U32Bytes) \o v
    [] f.form = "counted" ->
         LittleEndian(Len(v), U32Bytes)
           \o FlattenSeq([i \in 1 .. Len(v) |-> EncodeFields(f.items, v[i])])
    [] f.form = "framed"  ->
         LET inner == EncodeFields(f.items, v)
         IN  LittleEndian(Len(inner), U32Bytes) \o inner

EncodeFields(fields, values) ==
  FlattenSeq([i \in 1 .. Len(fields) |-> EncodeField(fields[i], values[i])])

Encode(artifact) == Header(artifact.type) \o EncodeFields(Layout(artifact.type), artifact.body)

-----------------------------------------------------------------------------
(* Decoding.  A cursor has taken `at` bytes of the input and read `values`; *)
(* `reserved` counts the bytes for which vectors were allocated ahead of    *)
(* reading their items.  After the first error nothing more is read.        *)

Cursor(error, at, values, reserved) ==
  [error |-> error, at |-> at, values |-> values, reserved |-> reserved]
Start == Cursor("none", 0, <<>>, 0)
Failed(c, error) == [c EXCEPT !.error = error]

(* Decoder::take: the bytes exist. *)
Available(input, c, n) == c.at + n <= Len(input)
Window(input, c, n) == SubSeq(input, c.at + 1, c.at + n)

(* Take n bytes and keep them as the value v. *)
Advance(c, n, v) == Cursor("none", c.at + n, Append(c.values, v), c.reserved)

TakeIf(input, c, n, valid, v) ==
  IF Available(input, c, n) /\ valid THEN Advance(c, n, v) ELSE Failed(c, "InvalidEncoding")

DecodeConst(f, input, c) ==
  LET n == Len(f.bytes) IN
  IF ~Available(input, c, n) THEN Failed(c, "InvalidEncoding")
  ELSE IF Window(input, c, n) # f.bytes THEN Failed(c, f.error)
  ELSE Advance(c, n, f.bytes)

DecodeNibbles(f, input, c) ==
  LET n == CeilDiv(f.n, 2)
      bytes == Window(input, c, n)
  IN  IF Available(input, c, n) /\ NibblesCanonical(bytes, f.n)
      THEN Advance(c, n, UnpackNibbles(bytes, f.n))
      ELSE Failed(c, "InvalidEncoding")

(* ProofDecoder::bits: bit_len + 7 may overflow usize. *)
DecodeBits(input, c) ==
  IF ~Available(input, c, U64Bytes) THEN Failed(c, "InvalidEncoding")
  ELSE LET count == FromLittleEndian(Window(input, c, U64Bytes))
           body == [c EXCEPT !.at = @ + U64Bytes]
           n == (count + 7) \div 8
       IN  IF /\ count + 7 < Word
              /\ Available(input, body, n)
              /\ BitsCanonical(Window(input, body, n), count)
           THEN Advance(body, n, UnpackBits(Window(input, body, n), count))
           ELSE Failed(c, "InvalidEncoding")

DecodeBlob(f, input, c) ==
  IF ~Available(input, c, U32Bytes) THEN Failed(c, "InvalidEncoding")
  ELSE LET n == FromLittleEndian(Window(input, c, U32Bytes))
           body == [c EXCEPT !.at = @ + U32Bytes]
       IN  TakeIf(input, body, n, n <= f.max, Window(input, body, n))

(* Mutant: a count is only compared with the absolute maximum. *)
CountUpToMaximum(count, remaining, min) == count <= MaxItems

(* ProofDecoder::count: what remains can hold that many items. *)
CountAccepted(count, remaining, min) ==
  /\ count <= remaining \div min
  /\ count <= MaxItems

RECURSIVE DecodeFields(_, _, _)

(* A count, the reservation for its items, the items. *)
DecodeCounted(f, input, c) ==
  IF ~Available(input, c, U32Bytes) THEN Failed(c, "InvalidEncoding")
  ELSE LET count == FromLittleEndian(Window(input, c, U32Bytes))
           at == c.at + U32Bytes
           Item(d, i) ==
             IF d.error # "none" THEN d
             ELSE LET item == DecodeFields(f.items, input, [d EXCEPT !.values = <<>>])
                  IN  [item EXCEPT !.values = Append(d.values, item.values)]
       IN  IF ~CountAccepted(count, Len(input) - at, f.min)
           THEN Failed(c, "InvalidEncoding")
           ELSE LET items == FoldLeft(Item,
                                      Cursor("none", at, <<>>, c.reserved + count * f.min),
                                      [i \in 1 .. count |-> i])
                IN  [items EXCEPT !.values = Append(c.values, items.values)]

(* Decoder::finish. *)
Finished(c, input) == c.at = Len(input)

(* A nested encoding is decoded by a decoder of its own over its bytes. *)
DecodeFramed(f, input, c) ==
  IF ~Available(input, c, U32Bytes) THEN Failed(c, "InvalidEncoding")
  ELSE LET n == FromLittleEndian(Window(input, c, U32Bytes))
           body == [c EXCEPT !.at = @ + U32Bytes]
           inner == Window(input, body, n)
           d == DecodeFields(f.items, inner, [Start EXCEPT !.reserved = c.reserved])
           after == [body EXCEPT !.reserved = d.reserved]
       IN  IF ~Available(input, body, n) THEN Failed(c, "InvalidEncoding")
           ELSE IF n > f.max THEN Failed(c, "TooLarge")
           ELSE IF d.error # "none" THEN Failed(after, d.error)
           ELSE IF ~Finished(d, inner) THEN Failed(after, "InvalidEncoding")
           ELSE Advance(after, n, d.values)

DecodeField(f, input, c) ==
  CASE f.form = "const"   -> DecodeConst(f, input, c)
    [] f.form = "raw"     -> TakeIf(input, c, f.n, TRUE, Window(input, c, f.n))
    [] f.form = "u64"     -> TakeIf(input, c, U64Bytes, TRUE,
                                    FromLittleEndian(Window(input, c, U64Bytes)))
    [] f.form = "nibbles" -> DecodeNibbles(f, input, c)
    [] f.form = "bits"    -> DecodeBits(input, c)
    [] f.form = "profile" -> TakeIf(input, c, 1, Window(input, c, 1) \in {<<1>>, <<2>>, <<3>>},
                                    Head(Window(input, c, 1)))
    [] f.form = "blob"    -> DecodeBlob(f, input, c)
    [] f.form = "counted" -> DecodeCounted(f, input, c)
    [] f.form = "framed"  -> DecodeFramed(f, input, c)

DecodeFields(fields, input, c) ==
  FoldLeft(LAMBDA d, f : IF d.error = "none" THEN DecodeField(f, input, d) ELSE d, c, fields)

(* The comparison of the four identifiers in Decoder::new. *)
EnvelopeError(identifiers, t) ==
  IF identifiers = Identifiers(t) THEN "none"
  ELSE IF identifiers[2] # t.params THEN "WrongParameterSet"
  ELSE "WrongArtifact"

(* Decoder::new: size, magic, version and identifiers, in this order. *)
HeaderBytes == 6
OpenError(input, t) ==
  IF Len(input) > MaxWireBytes THEN "TooLarge"
  ELSE IF Len(input) < 1 \/ SubSeq(input, 1, 1) # Magic \/ Len(input) < 2
       THEN "InvalidEncoding"
  ELSE IF SubSeq(input, 2, 2) # WireVersion THEN "UnsupportedVersion"
  ELSE IF Len(input) < HeaderBytes THEN "InvalidEncoding"
  ELSE EnvelopeError(SubSeq(input, 3, HeaderBytes), t)

(* The checks a from_bytes makes once every field has been read: the issuer
   context of local state, authenticity of a token, and the return amount of
   a response that must not carry one. *)
IsLocalState(t) == t.artifact \in {5, TokenId, 9}
BodyError(t, body, context) ==
  IF IsLocalState(t) /\ body[1] # context THEN "WrongArtifact"
  ELSE IF t.artifact = TokenId /\ t.kind = DirectId /\ body[6] # 0 THEN "WrongArtifact"
  ELSE IF t.artifact = TokenId /\ body \notin SignedTokens THEN "InvalidCredential"
  ELSE IF /\ \/ t.artifact = SpendResponseId /\ body[2] # 0
             \/ t.artifact = RetryRecordId /\ body[3] # 0
          /\ t.settlement = FixedSpendId THEN "InvalidEncoding"
  ELSE "none"

(* The rest of from_bytes, after the fields have been read by cursor c. *)
Result(t, context, input, c) ==
  [error |-> IF c.error # "none" THEN c.error
             ELSE IF ~Finished(c, input) THEN "InvalidEncoding"
             ELSE BodyError(t, c.values, context),
   type |-> t, body |-> c.values, reserved |-> c.reserved]

ReadTyped(t, context, input) ==
  Result(t, context, input,
         IF OpenError(input, t) # "none" THEN Failed(Start, OpenError(input, t))
         ELSE DecodeFields(Layout(t), input, [Start EXCEPT !.at = HeaderBytes]))

(* Mutant: the record reader does not try the second variant. *)
DirectVariant(t, input) == [t EXCEPT !.settlement = FixedSpendId]

(* RetryRecord::from_bytes: the direct envelope first, the other one only if
   the first is refused as another artifact. *)
RecordVariant(t, input) ==
  [t EXCEPT !.settlement =
     IF OpenError(input, [t EXCEPT !.settlement = FixedSpendId]) = "WrongArtifact"
     THEN DeferredSpendId ELSE FixedSpendId]

(* A reader is a from_bytes of the program: one per type, and one for the
   records of both variants. *)
Readers == {t \in Types : t.artifact # RetryRecordId}
             \cup {Type(RetryRecordId, p, 0, 0) : p \in ParamSets}

Read(r, context, input) ==
  ReadTyped(IF r.artifact = RetryRecordId THEN RecordVariant(r, input) ELSE r,
            context, input)

(* The reader that belongs to an artifact. *)
ReaderOf(t) == IF t.artifact = RetryRecordId THEN [t EXCEPT !.settlement = 0] ELSE t

-----------------------------------------------------------------------------
(* The medium.                                                             *)

VARIABLES
  written,   (* The artifact last written, or NotWritten.                  *)
  medium,    (* The bytes a reader is given.                               *)
  faults     (* How often they were damaged.                               *)

vars == <<written, medium, faults>>

NotWritten == [type |-> <<>>, body |-> <<>>]

Init ==
  /\ written = NotWritten
  /\ medium = <<>>
  /\ faults = 0

Write(a) ==
  /\ written = NotWritten
  /\ written' = a
  /\ medium' = Encode(a)
  /\ UNCHANGED faults

Damage(bytes) ==
  /\ faults < MaxFaults
  /\ written # NotWritten
  /\ medium' = bytes
  /\ faults' = faults + 1
  /\ UNCHANGED written

(* A torn write leaves a prefix, or a prefix followed by what an earlier
   artifact of the same sort had there. *)
Truncate == \E n \in 0 .. Len(medium) - 1 : Damage(SubSeq(medium, 1, n))
Overwrite ==
  /\ written # NotWritten
  /\ \E a \in {b \in Artifacts : b.type.artifact = written.type.artifact},
        n \in 1 .. Len(medium) - 1 :
       Damage(SubSeq(medium, 1, n) \o SubSeq(Encode(a), n + 1, Len(Encode(a))))

Extend == \E b \in DamageBytes : Damage(Append(medium, b))
SetByte == \E i \in 1 .. Len(medium), b \in DamageBytes : Damage([medium EXCEPT ![i] = b])

Next ==
  \/ \E a \in Artifacts : Write(a)
  \/ Truncate
  \/ Overwrite
  \/ Extend
  \/ SetByte

Spec == Init /\ [][Next]_vars

-----------------------------------------------------------------------------
(* Properties.                                                             *)

(* What the reader that belongs to artifact a must answer. *)
Recovered(a, context, result) ==
  IF IsLocalState(a.type) /\ a.body[1] # context
  THEN result.error = "WrongArtifact"
  ELSE /\ result.error = "none"
       /\ result.type = a.type
       /\ result.body = a.body

(* What any other reader must answer. *)
RefusedAs(a, r, result) ==
  result.error =
    IF r.params # a.type.params THEN "WrongParameterSet" ELSE "WrongArtifact"

(* What was written and not damaged reads back as itself, records of both
   variants included; local state of another issuer context is refused.  Every
   other reader refuses it by name, as another parameter set or another
   artifact, and never as garbage. *)
RoundTrip ==
  (written # NotWritten /\ faults = 0) =>
    \A r \in Readers, context \in Contexts :
      \E result \in {Read(r, context, medium)} :
        IF r = ReaderOf(written.type) THEN Recovered(written, context, result)
                                      ELSE RefusedAs(written, r, result)

(* Whatever happened to the bytes, a reader that accepts them has read the
   only value that is written so: encoding it again gives the same bytes
   (padding of odd nibbles and of bit vectors, trailing bytes, the unused
   return amount of direct records and fixed responses).  And no encoding is
   the beginning of another one of the same type, so a cut transmission is
   never taken for a complete artifact. *)
Canonical ==
  \A r \in Readers, context \in Contexts :
    \E result \in {Read(r, context, medium)} :
      result.error = "none" =>
        /\ medium = Encode([type |-> result.type, body |-> result.body])
        /\ \A n \in 0 .. Len(medium) - 1 :
             Read(r, context, SubSeq(medium, 1, n)).error # "none"

(* However the length fields lie, the decoders allocate ahead of reading at
   most twice what the input could fill: once for the items of the list being
   read, once for lists inside them. *)
ReservationBounded ==
  \A r \in Readers, context \in Contexts :
    Read(r, context, medium).reserved <= 2 * Len(medium)

=============================================================================
