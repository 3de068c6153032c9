---------------------------- MODULE MCWireFormat ----------------------------
(***************************************************************************)
(* A bounded instance of WireFormat: one byte stands for a 32-bit number, a *)
(* salt or a field element, two for 64-bit numbers and hashes.  Parameter   *)
(* set 1 has odd numbers of nibbles and set 2 even ones.                   *)
(***************************************************************************)
EXTENDS WireFormat

MCTargetNibbles == <<3, 2>>
MCSignatureNibbles == <<1, 2>>
MCPublicNibbles == <<3, 2>>
MCSecretNibbles == <<2, 1>>

Ctx(i) == <<i, 0>>
MCContexts == {Ctx(7), Ctx(8)}

Hash(i) == <<i, 16 * i>>
Fill(n, i) == [j \in 1 .. n |-> (i + 5 * j) % 16]

(* A proof with two of everything that is counted, and an empty one. *)
LongProof ==
  << ProofMagic, ProofWireVersion, <<9>>,
     << <<Hash(3)>>, <<Hash(4)>> >>, << << <<1, 0, 1>> >> >>,
     <<1, 1, 0, 0, 0, 0, 0, 0, 1>>, <<21>>, << <<<<1>>>>, <<<<2>>>> >>, << <<<<6>>>> >>,
     << << << <<<<1>>>>, <<<<2>>>> >>, Hash(5) >> >> >>
EmptyProof ==
  << ProofMagic, ProofWireVersion, <<0>>, <<>>, <<>>, <<>>, <<0>>, <<>>, <<>>, <<>> >>

SignatureA(t) == Fill(SignatureNibbles[t.params], 1)
TargetA(t) == Fill(TargetNibbles[t.params], 2)

MayoKey(magic, p, n) == << magic, <<p>>, Fill(n, 3) >>

Amounts(t) == IF t.settlement = FixedSpendId THEN {0} ELSE {0, 258}
Topups(t) == IF t.kind = DirectId THEN {0} ELSE {0, 258}

Bodies(t) ==
  << {<<1, <<>>, MayoKey(PublicKeyMagic, t.params, PublicNibbles[t.params])>>,
      <<3, <<5, 6>>, MayoKey(PublicKeyMagic, t.params, PublicNibbles[t.params])>>},
     {<<2, <<4>>, MayoKey(SecretKeyMagic, t.params, SecretNibbles[t.params])>>},
     {<<TargetA(t), pf>> : pf \in {LongProof, EmptyProof}},
     {<<SignatureA(t), <<1>>>>},
     {<<c, Hash(1), 515, Hash(2)>> : c \in Contexts},
     {<<c, SignatureA(t), Hash(1), 515, Hash(2), v, <<1>>>> : c \in Contexts, v \in Topups(t)},
     {<<513, Hash(1), TargetA(t), pf>> : pf \in {LongProof, EmptyProof}},
     {<<SignatureA(t), v, <<1>>>> : v \in Amounts(t)},
     {<<c, Hash(1), 515, Hash(2), Hash(3)>> : c \in Contexts},
     {<<Hash(1), SignatureA(t), v, <<1>>>> : v \in Amounts(t)} >>[t.artifact]

MCArtifacts == UNION {[type : {t}, body : Bodies(t)] : t \in Types}

(* The issuer signs for its own contexts, with every top-up a deferred token
   may carry. *)
MCSignedTokens == UNION {Bodies(t) : t \in {u \in Types : u.artifact = TokenId}}
=============================================================================
