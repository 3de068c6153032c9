--------------------------- MODULE ConsistencyHash --------------------------
(***************************************************************************)
(* The VOLE consistency check of voleith/src/proof.rs: the wide universal  *)
(* hash over a bit vector (prover) and over the columns of a matrix of      *)
(* field elements (both sides), the verifier's comparison row by row, and   *)
(* the mask groups of QuickSilver, which use the coordinates in between.    *)
(*                                                                         *)
(* A VOLE has l witness coordinates, MaxDegree - 1 groups of Bits mask      *)
(* coordinates and a last block of Bits coordinates that masks the hash.    *)
(***************************************************************************)
EXTENDS TagField

CONSTANTS
  Shapes,   (* Records of l, the witness length, and d, the maximal degree. *)
  Fillings, (* Records of u and tags, functions from the length of a VOLE.  *)
  DrawnKeys,(* Hash keys that the transcript draws, records of elements.    *)
  Trees     (* The positions of Delta that each vector commitment provides. *)

VARIABLES
  shape,
  delta,
  u, tags,  (* The prover's bits (the set of its ones) and tags.            *)
  keys,     (* The verifier's keys.                                         *)
  hashKey,  (* WideHashKey, from the transcript.                            *)
  sent,     (* u_tilde and v_tilde of the proof.                            *)
  verdict

vars == <<shape, delta, u, tags, keys, hashKey, sent, verdict>>

HashKeys == [r0 : Elements, r1 : Elements, s : Elements, t : Elements]
Plus(a, b) == SymDiff(a, b)
Scaled(a, bit) == IF bit THEN a ELSE {}

LHat(s) == s.l + s.d * Bits

PolynomialAt(point, chunks) ==
  LET after[n \in 0 .. Len(chunks)] ==
        IF n = 0 THEN {} ELSE Plus(Mul(after[n - 1], point), chunks[n])
  IN after[Len(chunks)]

(* Mutant: both polynomials are evaluated at the first point. *)
HornerOnePoint(key, chunks) ==
  [s |-> PolynomialAt(key.s, chunks), t |-> PolynomialAt(key.s, chunks)]

Horner(key, chunks) ==
  [s |-> PolynomialAt(key.s, chunks), t |-> PolynomialAt(key.t, chunks)]

Mixed(key, h) == Plus(Mul(key.r0, h.s), Mul(key.r1, h.t))

ChunkCount(x0Len) == (x0Len + Bits - 1) \div Bits

WideHashBits(key, input, len) ==
  LET x0Len == len - Bits
      Chunk(base) == {e - base : e \in input \cap base .. Min({base + Bits, x0Len}) - 1}
      chunks == [n \in 1 .. (x0Len + Bits - 1) \div Bits |-> Chunk((n - 1) * Bits)]
      mask == {e - x0Len : e \in {e \in input : e >= x0Len}}
  IN  Plus(Mixed(key, Horner(key, chunks)), mask)

WideHashRows(key, input, len) ==
  LET x0Len == len - Bits
      Column(base, column) ==
        {i \in 0 .. Min({x0Len - base, Bits}) - 1 : column \in input[base + i]}
      Chunks(column) == [n \in 1 .. ChunkCount(x0Len) |-> Column((n - 1) * Bits, column)]
      mixed == [column \in Positions |-> Mixed(key, Horner(key, Chunks(column)))]
  IN  [row \in Positions |->
         Plus({column \in Positions : row \in mixed[column]}, input[x0Len + row])]

(* Mutant: a group for each power of Delta, the last in the hash's block. *)
GroupCountOfDegree(s) == s.d

(* The masks of QuickSilver: value and tag (or key) of each group. *)
GroupCount(s) == s.d - 1

MaskCoordinate(s, group, b) == s.l + group * Bits + b

MaskTag(s, group, elems) ==
  XorOver(Positions, LAMBDA b : Mul({b}, elems[MaskCoordinate(s, group, b)]))

MaskValue(s, group, bits) == {b \in Positions : MaskCoordinate(s, group, b) \in bits}

-----------------------------------------------------------------------------
Unset == <<>>

Init ==
  /\ shape \in Shapes
  /\ delta \in Elements
  /\ \E f \in Fillings :
       /\ u = f.u \cap 0 .. LHat(shape) - 1
       /\ tags = [t \in 0 .. LHat(shape) - 1 |-> f.tags[t]]
  /\ keys = [t \in 0 .. LHat(shape) - 1 |-> Plus(tags[t], Scaled(delta, t \in u))]
  /\ hashKey = Unset
  /\ sent = Unset
  /\ verdict = Unset

(* A bit of a published correction is wrong: the keys of that tree deviate
   by its part of Delta in one coordinate. *)
WrongCorrection(t, tree) ==
  /\ hashKey = Unset
  /\ \A i \in DOMAIN keys : keys[i] = Plus(tags[i], Scaled(delta, i \in u))
  /\ keys' = [keys EXCEPT ![t] = Plus(@, tree \cap delta)]
  /\ UNCHANGED <<shape, delta, u, tags, hashKey, sent, verdict>>

(* The consistency message of prove_impl. *)
ConsistencyMessage(key) ==
  [uTilde |-> WideHashBits(key, u, LHat(shape)),
   vTilde |-> WideHashRows(key, tags, LHat(shape))]

Send(key) ==
  /\ hashKey = Unset
  /\ hashKey' = key
  /\ sent' = ConsistencyMessage(key)
  /\ UNCHANGED <<shape, delta, u, tags, keys, verdict>>

(* The first row that differs rejects the proof. *)
RowsAgree(key, message) ==
  LET keyTilde == WideHashRows(key, keys, LHat(shape))
  IN \A row \in Positions :
       keyTilde[row] = Plus(message.vTilde[row], Scaled(delta, row \in message.uTilde))

Verify ==
  /\ sent # Unset /\ verdict = Unset
  /\ verdict' = <<RowsAgree(hashKey, sent)>>
  /\ UNCHANGED <<shape, delta, u, tags, keys, hashKey, sent>>

Next ==
  \/ \E t \in DOMAIN keys, tree \in Trees : WrongCorrection(t, tree)
  \/ \E key \in DrawnKeys : Send(key)
  \/ Verify

Spec == Init /\ [][Next]_vars

-----------------------------------------------------------------------------
Correlated == \A t \in DOMAIN keys : keys[t] = Plus(tags[t], Scaled(delta, t \in u))

(* An honest prover is accepted for every Delta and every hash key, also
   where the last chunk is not full and where a wrong correction bit meets a
   zero part of Delta: the hash of a bit vector and the hash of the columns of
   a matrix are the same linear map (wide_hash_bits, wide_hash_rows, verify). *)
ConsistentAccepted == verdict # Unset /\ Correlated => verdict = <<TRUE>>

(* When a key deviates, few hash keys overlook it: two independent points are
   zeros of the polynomial together, or the random combination vanishes (the
   claim in the comment of WideHashKey). *)
DeviationsFound ==
  hashKey = Unset /\ ~Correlated =>
    LET q == 2 ^ Bits
        zeros == (ChunkCount(LHat(shape) - Bits) - 1) ^ 2
    IN Cardinality({key \in HashKeys : RowsAgree(key, ConsistencyMessage(key))})
         <= zeros * q ^ 2 + (q ^ 2 - zeros) * q

(* Whatever the witness coordinates are, the mask bits determine and are
   determined by what they mask: the hash and the mask values of all groups
   together take every value once, so no mask bit is used twice
   (the identity block of the hash, qs_mask_groups). *)
MasksAreIndependent ==
  hashKey # Unset =>
    LET free == SUBSET (shape.l .. LHat(shape) - 1)
        Masked(bits) ==
          << [g \in 0 .. GroupCount(shape) - 1 |-> MaskValue(shape, g, bits)],
             WideHashBits(hashKey, bits \cup (u \cap 0 .. shape.l - 1), LHat(shape)) >>
        masked == {Masked(bits) : bits \in free}
    IN /\ masked = [0 .. GroupCount(shape) - 1 -> Elements] \X Elements
       /\ Cardinality(masked) = Cardinality(free)

(* The verifier's key of a mask group is the prover's tag plus value times
   Delta: grouping bits to elements keeps the correlation. *)
MaskGroupsCorrelate ==
  Correlated =>
    \A g \in 0 .. GroupCount(shape) - 1 :
      MaskTag(shape, g, keys) =
        Plus(MaskTag(shape, g, tags), Mul(MaskValue(shape, g, u), delta))

=============================================================================
