----------------------------- MODULE NizkProofs -----------------------------
(***************************************************************************)
(* Proofs about Nizk, for every set of circuits, geometries and public     *)
(* inputs, every lambda and degree, and any number of proofs and           *)
(* alterations.                                                            *)
(***************************************************************************)
EXTENDS Nizk, TLAPS

-----------------------------------------------------------------------------
(***************************************************************************)
(* Types.                                                                  *)
(***************************************************************************)

Names == Seq(Int)
BitVectors == [id : Names, len : Int]
Openings == [id : Names, siblings : Int]

Proofs ==
  [salt : Nat, coms : Seq(Names), corrections : Seq(BitVectors), d : BitVectors,
   u_tilde : Nat, v_tilde : Seq(Names), qs_coefficients : Seq(Names),
   openings : Seq(Openings)]

Data == {<<p>> : p \in Publics} \cup Seq(Int \cup Seq(Int))
Labels == {"public", "dims", "salt", "com", "correction", "witness-d", "alpha",
           "consistency", "chi", "quicksilver", "delta"}
Entries == [op : {"absorb", "challenge", "ratchet"}, label : Labels, data : Data]

(* Counts of an admitted circuit are natural numbers. *)
LEMMA CountTypes ==
  ASSUME NEW circuit \in Circuits
  PROVE  /\ WitnessLength(circuit) \in Nat
         /\ MaxDegree(circuit) \in Nat
         /\ Count[circuit].maxBuilt \in Nat
BY UsizeAssumption DEF WitnessLength, MaxDegree, Larger

(* lambda and the length of an extended VOLE are natural numbers. *)
LEMMA LengthTypes ==
  ASSUME NEW params \in Geometries, NEW circuit \in Circuits
  PROVE  /\ params.tau \in Nat /\ params.k \in Nat
         /\ Lambda(params) \in Nat
         /\ ExtendedLength(params, circuit) \in Nat
<1>1. params.tau \in Nat /\ params.k \in Nat
  BY UsizeAssumption
<1>2. Lambda(params) \in Nat
  BY <1>1 DEF Lambda
<1> QED
  BY <1>1, <1>2, CountTypes DEF ExtendedLength

-----------------------------------------------------------------------------
(***************************************************************************)
(* The transcript is readable: from a state, everything absorbed can be    *)
(* told.                                                                   *)
(***************************************************************************)

(* Appending an entry loses nothing. *)
LEMMA AppendReadable ==
  ASSUME NEW S, NEW s \in Seq(S), NEW t \in Seq(S), NEW e \in S, NEW f \in S,
         Append(s, e) = Append(t, f)
  PROVE  s = t /\ e = f
<1>1. Len(Append(s, e)) = Len(s) + 1 /\ Len(Append(t, f)) = Len(t) + 1
  OBVIOUS
<1>2. Len(s) = Len(t)
  BY <1>1
<1>3. \A i \in 1 .. Len(s) : s[i] = t[i]
  <2> TAKE i \in 1 .. Len(s)
  <2>1. Append(s, e)[i] = s[i] /\ Append(t, f)[i] = t[i]
    BY <1>2
  <2> QED
    BY <2>1
<1>4. e = f
  <2>1. Append(s, e)[Len(s) + 1] = e /\ Append(t, f)[Len(t) + 1] = f
    OBVIOUS
  <2> QED
    BY <1>2, <2>1
<1> QED
  BY <1>2, <1>3, <1>4

(* Absorbing adds one entry. *)
LEMMA AbsorbReadable ==
  ASSUME NEW tr \in Seq(Entries), NEW label \in Labels, NEW data \in Data
  PROVE  /\ Absorb(tr, label, data) \in Seq(Entries)
         /\ Len(Absorb(tr, label, data)) = Len(tr) + 1
         /\ \A i \in 1 .. Len(tr) : Absorb(tr, label, data)[i] = tr[i]
         /\ Absorb(tr, label, data)[Len(tr) + 1] = Entry("absorb", label, data)
<1>1. Entry("absorb", label, data) \in Entries
  BY DEF Entry, Entries
<1> HIDE DEF Entry
<1> QED
  BY <1>1 DEF Absorb

(* Absorbing a list adds its items in order. *)
LEMMA AbsorbEachReadable ==
  ASSUME NEW tr \in Seq(Entries), NEW label \in Labels, NEW items \in Seq(Data)
  PROVE  /\ AbsorbEach(tr, label, items) \in Seq(Entries)
         /\ Len(AbsorbEach(tr, label, items)) = Len(tr) + Len(items)
         /\ \A i \in 1 .. Len(tr) : AbsorbEach(tr, label, items)[i] = tr[i]
         /\ \A j \in 1 .. Len(items) :
              AbsorbEach(tr, label, items)[Len(tr) + j] = Entry("absorb", label, items[j])
<1> DEFINE new == [j \in 1 .. Len(items) |-> Entry("absorb", label, items[j])]
<1>1. Len(items) \in Nat /\ \A j \in 1 .. Len(items) : items[j] \in Data
  OBVIOUS
<1>2. \A j \in 1 .. Len(items) : Entry("absorb", label, items[j]) \in Entries
  BY <1>1 DEF Entry, Entries
<1>3. new \in Seq(Entries) /\ Len(new) = Len(items)
  BY <1>1, <1>2
<1>4. \A j \in 1 .. Len(items) : new[j] = Entry("absorb", label, items[j])
  OBVIOUS
<1>5. AbsorbEach(tr, label, items) = tr \o new
  BY DEF AbsorbEach
<1> HIDE DEF new
<1>6. tr \o new \in Seq(Entries) /\ Len(tr \o new) = Len(tr) + Len(new)
  BY <1>3
<1>7. \A i \in 1 .. Len(tr) : (tr \o new)[i] = tr[i]
  BY <1>3
<1>8. \A j \in 1 .. Len(new) : (tr \o new)[Len(tr) + j] = new[j]
  BY <1>3
<1> QED
  BY <1>3, <1>4, <1>5, <1>6, <1>7, <1>8

(* What absorb_prologue is given is data. *)
LEMMA PrologueData ==
  ASSUME NEW public \in Publics, NEW params \in Geometries, NEW circuit \in Circuits,
         NEW proof \in Proofs
  PROVE  /\ <<public>> \in Data
         /\ Dims(params, circuit) \in Data
         /\ <<proof.salt>> \in Data
         /\ proof.coms \in Seq(Data)
         /\ [j \in 1 .. Len(proof.corrections) |-> AsBytes(proof.corrections[j])] \in Seq(Data)
         /\ AsBytes(proof.d) \in Data
<1>1. \A s \in Seq(Int) : s \in Data
  BY DEF Data
<1>2. Dims(params, circuit) \in Seq(Int)
  BY LengthTypes, CountTypes DEF Dims
<1>3. <<proof.salt>> \in Seq(Int)
  BY DEF Proofs
<1>4. proof.coms \in Seq(Data)
  BY <1>1 DEF Proofs, Names
<1>5. \A b \in BitVectors : AsBytes(b) \in Seq(Int)
  BY DEF BitVectors, Names, AsBytes, CeilDiv
<1>6. proof.corrections \in Seq(BitVectors) /\ proof.d \in BitVectors
  BY DEF Proofs
<1>7. \A j \in 1 .. Len(proof.corrections) : AsBytes(proof.corrections[j]) \in Data
  BY <1>1, <1>5, <1>6
<1>8. [j \in 1 .. Len(proof.corrections) |-> AsBytes(proof.corrections[j])] \in Seq(Data)
  BY <1>6, <1>7
<1> QED
  BY <1>1, <1>2, <1>3, <1>4, <1>5, <1>6, <1>8 DEF Data

(* Where each part of the statement and of the commitments is found. *)
Located(tr, public, params, circuit, proof) ==
  LET coms == Len(proof.coms)
      corrections == Len(proof.corrections)
  IN  /\ tr[1] = Entry("absorb", "public", <<public>>)
      /\ tr[2] = Entry("absorb", "dims", Dims(params, circuit))
      /\ tr[3] = Entry("absorb", "salt", <<proof.salt>>)
      /\ \A j \in 1 .. coms : tr[3 + j] = Entry("absorb", "com", proof.coms[j])
      /\ \A j \in 1 .. corrections :
           tr[3 + coms + j] = Entry("absorb", "correction", AsBytes(proof.corrections[j]))
      /\ tr[4 + coms + corrections] = Entry("absorb", "witness-d", AsBytes(proof.d))

(* absorb_prologue puts them there. *)
LEMMA PrologueReadable ==
  ASSUME NEW public \in Publics, NEW params \in Geometries, NEW circuit \in Circuits,
         NEW proof \in Proofs
  PROVE  LET tr == Prologue(public, params, circuit, proof)
         IN  tr \in Seq(Entries) /\ Located(tr, public, params, circuit, proof)
<1> DEFINE published == [j \in 1 .. Len(proof.corrections) |-> AsBytes(proof.corrections[j])]
           a == Absorb(<<>>, "public", <<public>>)
           b == Absorb(a, "dims", Dims(params, circuit))
           c == Absorb(b, "salt", <<proof.salt>>)
           d == AbsorbEach(c, "com", proof.coms)
           e == AbsorbEach(d, "correction", published)
           f == Absorb(e, "witness-d", AsBytes(proof.d))
           m == Len(proof.coms)
           n == Len(proof.corrections)
<1>1. Prologue(public, params, circuit, proof) = f
  BY DEF Prologue
<1>2. /\ <<public>> \in Data
      /\ Dims(params, circuit) \in Data
      /\ <<proof.salt>> \in Data
      /\ proof.coms \in Seq(Data)
      /\ published \in Seq(Data)
      /\ AsBytes(proof.d) \in Data
  BY PrologueData
<1>3. m \in Nat /\ n \in Nat /\ Len(published) = n
  BY DEF Proofs
<1>4. \A j \in 1 .. n : published[j] = AsBytes(proof.corrections[j])
  OBVIOUS
<1>5. {"public", "dims", "salt", "com", "correction", "witness-d"} \subseteq Labels
  BY DEF Labels
<1> HIDE DEF published
<1>6. /\ a \in Seq(Entries) /\ Len(a) = 1
      /\ a[1] = Entry("absorb", "public", <<public>>)
  <2>1. <<>> \in Seq(Entries)
    OBVIOUS
  <2>2. /\ a \in Seq(Entries) /\ Len(a) = Len(<<>>) + 1
        /\ a[Len(<<>>) + 1] = Entry("absorb", "public", <<public>>)
    BY <1>2, <1>5, <2>1, AbsorbReadable
  <2>3. Len(<<>>) + 1 = 1
    OBVIOUS
  <2> HIDE DEF a
  <2> QED
    BY <2>2, <2>3
<1> HIDE DEF a
<1>7. /\ b \in Seq(Entries) /\ Len(b) = 2
      /\ b[1] = a[1] /\ b[2] = Entry("absorb", "dims", Dims(params, circuit))
  <2>1. /\ b \in Seq(Entries) /\ Len(b) = Len(a) + 1
        /\ \A i \in 1 .. Len(a) : b[i] = a[i]
        /\ b[Len(a) + 1] = Entry("absorb", "dims", Dims(params, circuit))
    BY <1>2, <1>5, <1>6, AbsorbReadable
  <2>2. 1 \in 1 .. Len(a) /\ Len(a) + 1 = 2
    BY <1>6
  <2> HIDE DEF b
  <2> QED
    BY <2>1, <2>2
<1> HIDE DEF b
<1>8. /\ c \in Seq(Entries) /\ Len(c) = 3
      /\ c[1] = b[1] /\ c[2] = b[2] /\ c[3] = Entry("absorb", "salt", <<proof.salt>>)
  <2>1. /\ c \in Seq(Entries) /\ Len(c) = Len(b) + 1
        /\ \A i \in 1 .. Len(b) : c[i] = b[i]
        /\ c[Len(b) + 1] = Entry("absorb", "salt", <<proof.salt>>)
    BY <1>2, <1>5, <1>7, AbsorbReadable
  <2>2. 1 \in 1 .. Len(b) /\ 2 \in 1 .. Len(b) /\ Len(b) + 1 = 3
    BY <1>7
  <2> HIDE DEF c
  <2> QED
    BY <2>1, <2>2
<1> HIDE DEF c
<1>9. /\ d \in Seq(Entries) /\ Len(d) = 3 + m
      /\ d[1] = c[1] /\ d[2] = c[2] /\ d[3] = c[3]
      /\ \A j \in 1 .. m : d[3 + j] = Entry("absorb", "com", proof.coms[j])
  <2>1. /\ d \in Seq(Entries) /\ Len(d) = Len(c) + m
        /\ \A i \in 1 .. Len(c) : d[i] = c[i]
        /\ \A j \in 1 .. m : d[Len(c) + j] = Entry("absorb", "com", proof.coms[j])
    BY <1>2, <1>5, <1>8, AbsorbEachReadable
  <2>2. 1 \in 1 .. Len(c) /\ 2 \in 1 .. Len(c) /\ 3 \in 1 .. Len(c) /\ Len(c) = 3
    BY <1>8
  <2> HIDE DEF d, m
  <2> QED
    BY <2>1, <2>2
<1> HIDE DEF d
<1>10. /\ e \in Seq(Entries) /\ Len(e) = 3 + m + n
       /\ \A i \in 1 .. 3 + m : e[i] = d[i]
       /\ \A j \in 1 .. n : e[3 + m + j] = Entry("absorb", "correction", published[j])
  <2>1. /\ e \in Seq(Entries) /\ Len(e) = Len(d) + Len(published)
        /\ \A i \in 1 .. Len(d) : e[i] = d[i]
        /\ \A j \in 1 .. Len(published) :
             e[Len(d) + j] = Entry("absorb", "correction", published[j])
    BY <1>2, <1>5, <1>9, AbsorbEachReadable
  <2>2. Len(d) = 3 + m /\ Len(published) = n
    BY <1>3, <1>9
  <2> HIDE DEF e, m, n
  <2> QED
    BY <2>1, <2>2
<1> HIDE DEF e
<1>11. /\ f \in Seq(Entries)
       /\ \A i \in 1 .. 3 + m + n : f[i] = e[i]
       /\ f[4 + m + n] = Entry("absorb", "witness-d", AsBytes(proof.d))
  <2>1. /\ f \in Seq(Entries)
        /\ \A i \in 1 .. Len(e) : f[i] = e[i]
        /\ f[Len(e) + 1] = Entry("absorb", "witness-d", AsBytes(proof.d))
    BY <1>2, <1>5, <1>10, AbsorbReadable
  <2> HIDE DEF f, m, n
  <2>2. Len(e) = 3 + m + n /\ Len(e) + 1 = 4 + m + n
    BY <1>3, <1>10
  <2> QED
    BY <2>1, <2>2
<1> HIDE DEF f, m, n
<1>12. f[1] = a[1] /\ f[2] = b[2] /\ f[3] = c[3]
  <2>1. \A i \in 1 .. 3 : i \in 1 .. 3 + m /\ i \in 1 .. 3 + m + n
    BY <1>3
  <2>2. 1 \in 1 .. 3 /\ 2 \in 1 .. 3 /\ 3 \in 1 .. 3
    OBVIOUS
  <2>3. \A i \in 1 .. 3 : f[i] = d[i]
    BY <2>1, <1>10, <1>11
  <2> QED
    BY <2>2, <2>3, <1>7, <1>8, <1>9
<1>13. \A j \in 1 .. m : f[3 + j] = Entry("absorb", "com", proof.coms[j])
  <2> TAKE j \in 1 .. m
  <2>1. 3 + j \in 1 .. 3 + m /\ 3 + j \in 1 .. 3 + m + n
    BY <1>3
  <2>2. f[3 + j] = d[3 + j]
    BY <2>1, <1>10, <1>11
  <2> QED
    BY <2>2, <1>9
<1>14. \A j \in 1 .. n :
         f[3 + m + j] = Entry("absorb", "correction", AsBytes(proof.corrections[j]))
  <2> TAKE j \in 1 .. n
  <2>1. 3 + m + j \in 1 .. 3 + m + n
    BY <1>3
  <2>2. f[3 + m + j] = e[3 + m + j]
    BY <2>1, <1>11
  <2> QED
    BY <2>2, <1>4, <1>10
<1> QED
  BY <1>1, <1>3, <1>6, <1>7, <1>8, <1>11, <1>12, <1>13, <1>14 DEF Located, m, n

(* What is in an entry can be told from it. *)
LEMMA EntryReadable ==
  ASSUME NEW op, NEW label, NEW x, NEW y, Entry(op, label, x) = Entry(op, label, y)
  PROVE  x = y
<1>1. Entry(op, label, x).data = x /\ Entry(op, label, y).data = y
  BY DEF Entry
<1> QED
  BY <1>1

(* The name of a bit vector can be told from its bytes, its length cannot. *)
LEMMA BytesReadable ==
  ASSUME NEW b \in BitVectors, NEW c \in BitVectors, AsBytes(b) = AsBytes(c)
  PROVE  b.id = c.id
<1> DEFINE m == CeilDiv(b.len, 8)
           n == CeilDiv(c.len, 8)
<1>1. b.id \in Seq(Int) /\ c.id \in Seq(Int)
  BY DEF BitVectors, Names
<1>2. m \in Int /\ n \in Int
  BY DEF BitVectors, CeilDiv
<1>3. Append(b.id, m) = Append(c.id, n)
  BY DEF AsBytes
<1>4. \A s, t \in Seq(Int), x, y \in Int : Append(s, x) = Append(t, y) => s = t
  BY AppendReadable
<1> HIDE DEF m, n
<1> QED
  BY <1>1, <1>2, <1>3, <1>4

(* Bit vectors with one name and one length are the same. *)
LEMMA SameVector ==
  ASSUME NEW b \in BitVectors, NEW c \in BitVectors, b.id = c.id, b.len = c.len
  PROVE  b = c
BY DEF BitVectors

(* Two proofs of admissible shape with one prologue are about one statement
   and have the same commitments: the dimensions in the prologue determine
   where each part of it ends, and the lengths its bytes do not show. *)
LEMMA PrologueBinds ==
  ASSUME NEW public1 \in Publics, NEW params1 \in Geometries, NEW circuit1 \in Circuits,
         NEW proof1 \in Proofs, ShapeValid(params1, circuit1, proof1),
         NEW public2 \in Publics, NEW params2 \in Geometries, NEW circuit2 \in Circuits,
         NEW proof2 \in Proofs, ShapeValid(params2, circuit2, proof2),
         Prologue(public1, params1, circuit1, proof1) =
           Prologue(public2, params2, circuit2, proof2)
  PROVE  /\ public1 = public2 /\ params1 = params2
         /\ proof1.salt = proof2.salt /\ proof1.coms = proof2.coms
         /\ proof1.corrections = proof2.corrections /\ proof1.d = proof2.d
<1> DEFINE tr == Prologue(public1, params1, circuit1, proof1)
           m1 == Len(proof1.coms)
           n1 == Len(proof1.corrections)
           m2 == Len(proof2.coms)
           n2 == Len(proof2.corrections)
<1>1. /\ m1 \in Nat /\ n1 \in Nat
      /\ tr[1] = Entry("absorb", "public", <<public1>>)
      /\ tr[2] = Entry("absorb", "dims", Dims(params1, circuit1))
      /\ tr[3] = Entry("absorb", "salt", <<proof1.salt>>)
      /\ \A j \in 1 .. m1 : tr[3 + j] = Entry("absorb", "com", proof1.coms[j])
      /\ \A j \in 1 .. n1 :
           tr[3 + m1 + j] = Entry("absorb", "correction", AsBytes(proof1.corrections[j]))
      /\ tr[4 + m1 + n1] = Entry("absorb", "witness-d", AsBytes(proof1.d))
  <2>1. Located(tr, public1, params1, circuit1, proof1)
    BY PrologueReadable
  <2>2. m1 \in Nat /\ n1 \in Nat
    BY DEF Proofs
  <2> HIDE DEF tr
  <2> QED
    BY <2>1, <2>2 DEF Located
<1>2. /\ m2 \in Nat /\ n2 \in Nat
      /\ tr[1] = Entry("absorb", "public", <<public2>>)
      /\ tr[2] = Entry("absorb", "dims", Dims(params2, circuit2))
      /\ tr[3] = Entry("absorb", "salt", <<proof2.salt>>)
      /\ \A j \in 1 .. m2 : tr[3 + j] = Entry("absorb", "com", proof2.coms[j])
      /\ \A j \in 1 .. n2 :
           tr[3 + m2 + j] = Entry("absorb", "correction", AsBytes(proof2.corrections[j]))
      /\ tr[4 + m2 + n2] = Entry("absorb", "witness-d", AsBytes(proof2.d))
  <2>1. Located(tr, public2, params2, circuit2, proof2)
    BY PrologueReadable
  <2>2. m2 \in Nat /\ n2 \in Nat
    BY DEF Proofs
  <2> HIDE DEF tr
  <2> QED
    BY <2>1, <2>2 DEF Located
<1> HIDE DEF tr
<1>3. public1 = public2 /\ proof1.salt = proof2.salt
  <2>1. <<public1>> = <<public2>> /\ <<proof1.salt>> = <<proof2.salt>>
    BY <1>1, <1>2, EntryReadable
  <2> QED
    BY <2>1
<1>4. /\ params1 = params2
      /\ WitnessLength(circuit1) = WitnessLength(circuit2)
      /\ MaxDegree(circuit1) = MaxDegree(circuit2)
  <2>1. Dims(params1, circuit1) = Dims(params2, circuit2)
    BY <1>1, <1>2, EntryReadable
  <2>2. /\ params1.tau = params2.tau /\ params1.k = params2.k
        /\ WitnessLength(circuit1) = WitnessLength(circuit2)
        /\ MaxDegree(circuit1) = MaxDegree(circuit2)
    BY <2>1 DEF Dims
  <2>3. params1 \in [tau : Nat, k : Nat] /\ params2 \in [tau : Nat, k : Nat]
    BY UsizeAssumption
  <2> QED
    BY <2>2, <2>3
<1>5. /\ m1 = m2 /\ n1 = n2
      /\ proof1.d.len = proof2.d.len
      /\ \A j \in 1 .. n1 : proof1.corrections[j].len = proof2.corrections[j].len
  <2>1. ExtendedLength(params1, circuit1) = ExtendedLength(params2, circuit2)
    BY <1>4 DEF ExtendedLength
  <2>2. DOMAIN proof1.corrections = 1 .. n1 /\ DOMAIN proof2.corrections = 1 .. n2
    BY DEF Proofs
  <2>3. m1 = m2 /\ n1 = n2 /\ proof1.d.len = proof2.d.len
    BY <1>4 DEF ShapeValid
  <2> QED
    BY <2>1, <2>2, <2>3 DEF ShapeValid
<1>6. proof1.coms = proof2.coms
  <2>1. \A j \in 1 .. m1 : proof1.coms[j] = proof2.coms[j]
    BY <1>1, <1>2, <1>5, EntryReadable
  <2>2. proof1.coms \in Seq(Names) /\ proof2.coms \in Seq(Names)
    BY DEF Proofs
  <2> QED
    BY <1>5, <2>1, <2>2
<1>7. proof1.corrections = proof2.corrections
  <2>1. proof1.corrections \in Seq(BitVectors) /\ proof2.corrections \in Seq(BitVectors)
    BY DEF Proofs
  <2>2. \A j \in 1 .. n1 :
          proof1.corrections[j] \in BitVectors /\ proof2.corrections[j] \in BitVectors
    BY <1>5, <2>1
  <2>3. \A j \in 1 .. n1 : AsBytes(proof1.corrections[j]) = AsBytes(proof2.corrections[j])
    BY <1>1, <1>2, <1>5, EntryReadable
  <2>4. \A j \in 1 .. n1 : proof1.corrections[j] = proof2.corrections[j]
    BY <1>5, <2>2, <2>3, BytesReadable, SameVector
  <2> QED
    BY <1>5, <2>1, <2>4
<1>8. proof1.d = proof2.d
  <2>1. proof1.d \in BitVectors /\ proof2.d \in BitVectors
    BY DEF Proofs
  <2>2. AsBytes(proof1.d) = AsBytes(proof2.d)
    <3>1. tr[4 + m1 + n1] = tr[4 + m2 + n2]
      BY <1>5
    <3>2. Entry("absorb", "witness-d", AsBytes(proof1.d)) =
            Entry("absorb", "witness-d", AsBytes(proof2.d))
      BY <1>1, <1>2, <3>1
    <3> QED
      BY <3>2, EntryReadable
  <2> QED
    BY <1>5, <2>1, <2>2, BytesReadable, SameVector
<1> QED
  BY <1>3, <1>4, <1>6, <1>7, <1>8

(* Each call of the transcript loses nothing of the state it is made in. *)
LEMMA CallsReadable ==
  ASSUME NEW tr1 \in Seq(Entries), NEW tr2 \in Seq(Entries), NEW label \in Labels
  PROVE  /\ Challenge(tr1, label) = Challenge(tr2, label) => tr1 = tr2
         /\ Ratchet(tr1, label) \in Seq(Entries)
         /\ Ratchet(tr1, label) = Ratchet(tr2, label) => tr1 = tr2
         /\ \A x, y \in Data : Absorb(tr1, label, x) = Absorb(tr2, label, y) =>
              tr1 = tr2 /\ x = y
<1>1. \A e, f \in Entries : Append(tr1, e) = Append(tr2, f) => tr1 = tr2 /\ e = f
  BY AppendReadable
<1>2. <<>> \in Data
  BY DEF Data
<1>3. /\ Entry("challenge", label, <<>>) \in Entries
      /\ Entry("ratchet", label, <<>>) \in Entries
      /\ \A x \in Data : Entry("absorb", label, x) \in Entries
  BY <1>2 DEF Entry, Entries
<1>4. \A x, y \in Data : Entry("absorb", label, x) = Entry("absorb", label, y) => x = y
  BY EntryReadable
<1>5. Challenge(tr1, label) = Challenge(tr2, label) => tr1 = tr2
  BY <1>1, <1>3 DEF Challenge
<1>6. Ratchet(tr1, label) = Ratchet(tr2, label) => tr1 = tr2
  BY <1>1, <1>3 DEF Ratchet
<1>7. Ratchet(tr1, label) \in Seq(Entries)
  BY <1>3 DEF Ratchet
<1>8. ASSUME NEW x \in Data, NEW y \in Data, Absorb(tr1, label, x) = Absorb(tr2, label, y)
      PROVE  tr1 = tr2 /\ x = y
  BY <1>1, <1>3, <1>4, <1>8 DEF Absorb
<1> QED
  BY <1>5, <1>6, <1>7, <1>8

(* The message of the consistency check, and that of QuickSilver, are data. *)
LEMMA MessageData ==
  ASSUME NEW proof \in Proofs
  PROVE  <<proof.u_tilde>> \o proof.v_tilde \in Data /\ proof.qs_coefficients \in Data
<1> DEFINE Items == Int \cup Seq(Int)
<1>1. <<proof.u_tilde>> \in Seq(Items) /\ proof.v_tilde \in Seq(Items)
  BY DEF Proofs, Names
<1>2. proof.qs_coefficients \in Seq(Items)
  BY DEF Proofs, Names
<1>3. \A s \in Seq(Items) : s \in Data
  BY DEF Data
<1> HIDE DEF Items
<1>4. <<proof.u_tilde>> \o proof.v_tilde \in Seq(Items)
  BY <1>1
<1> QED
  BY <1>2, <1>3, <1>4

(* A concatenation is one sequence and then the other. *)
LEMMA ConcatReadable ==
  ASSUME NEW S, NEW s \in Seq(S), NEW t \in Seq(S)
  PROVE  /\ Len(s \o t) = Len(s) + Len(t)
         /\ \A i \in 1 .. Len(s) : (s \o t)[i] = s[i]
         /\ \A i \in 1 .. Len(t) : (s \o t)[Len(s) + i] = t[i]
OBVIOUS

(* A first element and the rest can be told from a sequence. *)
LEMMA HeadReadable ==
  ASSUME NEW S, NEW x \in S, NEW y \in S, NEW s \in Seq(S), NEW t \in Seq(S),
         <<x>> \o s = <<y>> \o t
  PROVE  x = y /\ s = t
<1> DEFINE a == <<x>>
           b == <<y>>
<1>1. a \in Seq(S) /\ b \in Seq(S) /\ Len(a) = 1 /\ Len(b) = 1 /\ a[1] = x /\ b[1] = y
  OBVIOUS
<1>2. a \o s = b \o t
  OBVIOUS
<1> HIDE DEF a, b
<1>concat. \A u, v \in Seq(S) :
         /\ Len(u \o v) = Len(u) + Len(v)
         /\ \A i \in 1 .. Len(u) : (u \o v)[i] = u[i]
         /\ \A i \in 1 .. Len(v) : (u \o v)[Len(u) + i] = v[i]
  BY ConcatReadable
<1>3. /\ Len(a \o s) = Len(a) + Len(s)
      /\ \A i \in 1 .. Len(a) : (a \o s)[i] = a[i]
      /\ \A i \in 1 .. Len(s) : (a \o s)[Len(a) + i] = s[i]
  BY <1>1, <1>concat, Zenon
<1>4. /\ Len(b \o t) = Len(b) + Len(t)
      /\ \A i \in 1 .. Len(b) : (b \o t)[i] = b[i]
      /\ \A i \in 1 .. Len(t) : (b \o t)[Len(b) + i] = t[i]
  BY <1>1, <1>concat, Zenon
<1>5. Len(s) \in Nat /\ Len(t) \in Nat
  OBVIOUS
<1>8. Len(s) = Len(t)
  <2>1. 1 + Len(s) = 1 + Len(t)
    BY <1>1, <1>2, <1>3, <1>4
  <2> QED
    BY <1>5, <2>1
<1>9. \A i \in 1 .. Len(s) : s[i] = t[i]
  BY <1>1, <1>2, <1>3, <1>4, <1>8
<1>10. x = y
  <2>1. 1 \in 1 .. Len(a) /\ 1 \in 1 .. Len(b)
    BY <1>1
  <2> QED
    BY <1>1, <1>2, <1>3, <1>4, <2>1
<1> QED
  BY <1>8, <1>9, <1>10

(* The parts of the consistency message can be told from it. *)
LEMMA MessageReadable ==
  ASSUME NEW proof1 \in Proofs, NEW proof2 \in Proofs,
         <<proof1.u_tilde>> \o proof1.v_tilde = <<proof2.u_tilde>> \o proof2.v_tilde
  PROVE  proof1.u_tilde = proof2.u_tilde /\ proof1.v_tilde = proof2.v_tilde
<1> DEFINE Items == Int \cup Seq(Int)
<1>1. /\ proof1.u_tilde \in Items /\ proof2.u_tilde \in Items
      /\ proof1.v_tilde \in Seq(Items) /\ proof2.v_tilde \in Seq(Items)
  BY DEF Proofs, Names
<1>2. \A x, y \in Items, s, t \in Seq(Items) : <<x>> \o s = <<y>> \o t => x = y /\ s = t
  BY HeadReadable
<1> HIDE DEF Items
<1> QED
  BY <1>1, <1>2

(* Proofs of admissible shape that have alpha in common agree in everything
   that is fixed before it; if they have Delta in common, also in the answers
   to alpha and chi. *)
LEMMA ChallengesDetermine ==
  ASSUME NEW public1 \in Publics, NEW params1 \in Geometries, NEW circuit1 \in Circuits,
         NEW proof1 \in Proofs, ShapeValid(params1, circuit1, proof1),
         NEW public2 \in Publics, NEW params2 \in Geometries, NEW circuit2 \in Circuits,
         NEW proof2 \in Proofs, ShapeValid(params2, circuit2, proof2)
  PROVE  LET Same == /\ public1 = public2 /\ params1 = params2
                     /\ proof1.salt = proof2.salt /\ proof1.coms = proof2.coms
                     /\ proof1.corrections = proof2.corrections /\ proof1.d = proof2.d
         IN  /\ Alpha(public1, params1, circuit1, proof1) =
                  Alpha(public2, params2, circuit2, proof2) => Same
             /\ Chi(public1, params1, circuit1, proof1) =
                  Chi(public2, params2, circuit2, proof2) =>
                /\ Same
                /\ proof1.u_tilde = proof2.u_tilde /\ proof1.v_tilde = proof2.v_tilde
             /\ Delta(public1, params1, circuit1, proof1) =
                  Delta(public2, params2, circuit2, proof2) =>
                /\ Same
                /\ proof1.u_tilde = proof2.u_tilde /\ proof1.v_tilde = proof2.v_tilde
                /\ proof1.qs_coefficients = proof2.qs_coefficients
<1> DEFINE Same == /\ public1 = public2 /\ params1 = params2
                   /\ proof1.salt = proof2.salt /\ proof1.coms = proof2.coms
                   /\ proof1.corrections = proof2.corrections /\ proof1.d = proof2.d
           p1 == Prologue(public1, params1, circuit1, proof1)
           p2 == Prologue(public2, params2, circuit2, proof2)
           message1 == <<proof1.u_tilde>> \o proof1.v_tilde
           message2 == <<proof2.u_tilde>> \o proof2.v_tilde
           r1 == Ratchet(p1, "alpha")
           r2 == Ratchet(p2, "alpha")
           c1 == Absorb(r1, "consistency", message1)
           c2 == Absorb(r2, "consistency", message2)
           s1 == Ratchet(c1, "chi")
           s2 == Ratchet(c2, "chi")
           q1 == Absorb(s1, "quicksilver", proof1.qs_coefficients)
           q2 == Absorb(s2, "quicksilver", proof2.qs_coefficients)
<1>1. p1 \in Seq(Entries) /\ p2 \in Seq(Entries)
  BY PrologueReadable
<1>2. p1 = p2 => Same
  BY PrologueBinds
<1>3. {"alpha", "consistency", "chi", "quicksilver", "delta"} \subseteq Labels
  BY DEF Labels
<1>4. /\ message1 \in Data /\ message2 \in Data
      /\ proof1.qs_coefficients \in Data /\ proof2.qs_coefficients \in Data
  BY MessageData
<1>5. message1 = message2 =>
        proof1.u_tilde = proof2.u_tilde /\ proof1.v_tilde = proof2.v_tilde
  BY MessageReadable
<1>6. /\ Alpha(public1, params1, circuit1, proof1) = Challenge(p1, "alpha")
      /\ Alpha(public2, params2, circuit2, proof2) = Challenge(p2, "alpha")
      /\ Chi(public1, params1, circuit1, proof1) = Challenge(c1, "chi")
      /\ Chi(public2, params2, circuit2, proof2) = Challenge(c2, "chi")
      /\ Delta(public1, params1, circuit1, proof1) = Challenge(q1, "delta")
      /\ Delta(public2, params2, circuit2, proof2) = Challenge(q2, "delta")
  BY DEF Alpha, Chi, Delta, Consistency
<1> HIDE DEF p1, p2, message1, message2, Same
<1>7. Challenge(p1, "alpha") = Challenge(p2, "alpha") => Same
  BY <1>1, <1>2, <1>3, CallsReadable
<1>8. r1 \in Seq(Entries) /\ r2 \in Seq(Entries) /\ (r1 = r2 => p1 = p2)
  BY <1>1, <1>3, CallsReadable
<1> HIDE DEF r1, r2
<1>9. /\ c1 \in Seq(Entries) /\ c2 \in Seq(Entries)
      /\ c1 = c2 => r1 = r2 /\ message1 = message2
  BY <1>3, <1>4, <1>8, CallsReadable, AbsorbReadable
<1> HIDE DEF c1, c2
<1>10. s1 \in Seq(Entries) /\ s2 \in Seq(Entries) /\ (s1 = s2 => c1 = c2)
  BY <1>3, <1>9, CallsReadable
<1> HIDE DEF s1, s2
<1>11. /\ q1 \in Seq(Entries) /\ q2 \in Seq(Entries)
       /\ q1 = q2 => s1 = s2 /\ proof1.qs_coefficients = proof2.qs_coefficients
  <2>1. \A x, y \in Data :
          Absorb(s1, "quicksilver", x) = Absorb(s2, "quicksilver", y) => s1 = s2 /\ x = y
    BY <1>3, <1>10, CallsReadable
  <2>2. \A x \in Data : /\ Absorb(s1, "quicksilver", x) \in Seq(Entries)
                        /\ Absorb(s2, "quicksilver", x) \in Seq(Entries)
    BY <1>3, <1>10, AbsorbReadable
  <2> QED
    BY <1>4, <2>1, <2>2
<1> HIDE DEF q1, q2
<1>12. Challenge(q1, "delta") = Challenge(q2, "delta") => q1 = q2
  BY <1>3, <1>11, CallsReadable
<1>13. Challenge(q1, "delta") = Challenge(q2, "delta") =>
         /\ Same
         /\ proof1.u_tilde = proof2.u_tilde /\ proof1.v_tilde = proof2.v_tilde
         /\ proof1.qs_coefficients = proof2.qs_coefficients
  BY <1>2, <1>5, <1>8, <1>9, <1>10, <1>11, <1>12
<1>14. Challenge(c1, "chi") = Challenge(c2, "chi") =>
         /\ Same
         /\ proof1.u_tilde = proof2.u_tilde /\ proof1.v_tilde = proof2.v_tilde
  <2>1. Challenge(c1, "chi") = Challenge(c2, "chi") => c1 = c2
    BY <1>3, <1>9, CallsReadable
  <2> QED
    BY <1>2, <1>5, <1>8, <1>9, <2>1
<1> QED
  BY <1>6, <1>7, <1>13, <1>14 DEF Same

-----------------------------------------------------------------------------
(***************************************************************************)
(* What the provers publish, and what the verifier can be asked about.     *)
(***************************************************************************)

Runs == [params : Geometries, public : Publics, circuit : Circuits,
         satisfies : BOOLEAN, proof : Proofs]

(* A successful run proved an admissible statement and published its proof. *)
RunsKnown ==
  /\ runs \in Seq(Runs)
  /\ \A n \in 1 .. Len(runs) :
       /\ Valid(runs[n].params)
       /\ ProverAdmits(runs[n].circuit)
       /\ runs[n].proof = ProofOf(n, runs[n].params, runs[n].circuit)

(* However it was altered, the offered proof can be decoded and carries the
   salt of a run. *)
OfferKnown ==
  /\ offered \in Proofs
  /\ offered # NoProof => offered.salt \in 1 .. Len(runs)

(* A prover that made no proof refused for the reasons the verifier has. *)
RefusedKnown ==
  /\ refused.outcome # "panic"
  /\ refused # NotRefused =>
       (refused.outcome = "InvalidParameters" <=>
          ~Valid(refused.params) \/ ~ProverAdmits(refused.circuit))

ProofInv == RunsKnown /\ OfferKnown /\ RefusedKnown

(* What each component of a proof is. *)
Component ==
  [salt |-> Nat, coms |-> Seq(Names), corrections |-> Seq(BitVectors),
   d |-> BitVectors, u_tilde |-> Nat, v_tilde |-> Seq(Names),
   qs_coefficients |-> Seq(Names), openings |-> Seq(Openings)]
Fields == {"salt", "coms", "corrections", "d", "u_tilde", "v_tilde",
           "qs_coefficients", "openings"}

(* The components of a proof, of which the lists are some. *)
LEMMA FieldNames == DOMAIN NoProof = Fields /\ Lists \subseteq Fields
BY DEF NoProof, Fields, Lists

(* "No proof" is a proof to the decoder. *)
LEMMA NoProofType == NoProof \in Proofs /\ NoProof.salt = 0
<1>1. <<>> \in Seq(Names) /\ <<>> \in Seq(BitVectors) /\ <<>> \in Seq(Openings) /\ <<>> \in Seq(Int)
  OBVIOUS
<1>2. [id |-> <<>>, len |-> 0] \in BitVectors
  BY <1>1 DEF BitVectors, Names
<1> QED
  BY <1>1, <1>2 DEF NoProof, Proofs

(* A proof with one component exchanged is a proof. *)
LEMMA ExchangedType ==
  ASSUME NEW proof \in Proofs, NEW f \in Fields
  PROVE  /\ proof[f] \in Component[f]
         /\ \A v \in Component[f] : [proof EXCEPT ![f] = v] \in Proofs
         /\ \A v : f # "salt" => [proof EXCEPT ![f] = v].salt = proof.salt
<1>1. CASE f = "salt"
  BY <1>1 DEF Proofs, Component
<1>2. CASE f = "coms"
  BY <1>2 DEF Proofs, Component
<1>3. CASE f = "corrections"
  BY <1>3 DEF Proofs, Component
<1>4. CASE f = "d"
  BY <1>4 DEF Proofs, Component
<1>5. CASE f = "u_tilde"
  BY <1>5 DEF Proofs, Component
<1>6. CASE f = "v_tilde"
  BY <1>6 DEF Proofs, Component
<1>7. CASE f = "qs_coefficients"
  BY <1>7 DEF Proofs, Component
<1>8. CASE f = "openings"
  BY <1>8 DEF Proofs, Component
<1> QED
  BY <1>1, <1>2, <1>3, <1>4, <1>5, <1>6, <1>7, <1>8 DEF Fields

(* A list that is shorter, longer or in another order is a list. *)
LEMMA AlteredLists ==
  ASSUME NEW S, NEW s \in Seq(S)
  PROVE  /\ s # <<>> => Front(s) \in Seq(S) /\ Append(s, Last(s)) \in Seq(S)
         /\ Reverse(s) \in Seq(S)
<1>1. ASSUME s # <<>>
      PROVE  Front(s) \in Seq(S) /\ Append(s, Last(s)) \in Seq(S)
  <2>1. Len(s) \in Nat /\ Len(s) # 0
    BY <1>1
  <2>2. s[Len(s)] \in S
    BY <2>1
  <2> QED
    BY <2>1, <2>2 DEF Front, Last
<1>2. Reverse(s) \in Seq(S)
  <2>1. \A i \in 1 .. Len(s) : Len(s) - i + 1 \in 1 .. Len(s)
    OBVIOUS
  <2>2. \A i \in 1 .. Len(s) : s[Len(s) - i + 1] \in S
    BY <2>1
  <2> QED
    BY <2>2 DEF Reverse
<1> QED
  BY <1>1, <1>2

(* What a prover publishes can be decoded. *)
LEMMA PublishedType ==
  ASSUME NEW r \in Nat, NEW params \in Geometries, NEW circuit \in Circuits, Valid(params)
  PROVE  ProofOf(r, params, circuit) \in Proofs
<1>1. /\ params.tau \in Nat /\ params.tau - 1 \in Nat /\ params.k \in Nat
      /\ Lambda(params) \in Nat /\ ExtendedLength(params, circuit) \in Nat
      /\ WitnessLength(circuit) \in Nat /\ MaxDegree(circuit) \in Nat
  BY LengthTypes, CountTypes DEF Valid
<1>2. \A j \in Int : <<r, j>> \in Names
  BY DEF Names
<1>3. \A n \in Nat : [j \in 1 .. n |-> <<r, j>>] \in Seq(Names)
  BY <1>2
<1>4. [j \in 1 .. params.tau - 1 |->
         [id |-> <<r, j + 1>>, len |-> ExtendedLength(params, circuit)]] \in Seq(BitVectors)
  <2>1. \A j \in 1 .. params.tau - 1 :
          [id |-> <<r, j + 1>>, len |-> ExtendedLength(params, circuit)] \in BitVectors
    BY <1>1, <1>2 DEF BitVectors
  <2> QED
    BY <1>1, <2>1
<1>5. [id |-> <<r, 0>>, len |-> WitnessLength(circuit)] \in BitVectors
  BY <1>1, <1>2 DEF BitVectors
<1>6. [j \in 1 .. params.tau |-> [id |-> <<r, j>>, siblings |-> params.k]] \in Seq(Openings)
  <2>1. \A j \in 1 .. params.tau : [id |-> <<r, j>>, siblings |-> params.k] \in Openings
    BY <1>1, <1>2 DEF Openings
  <2> QED
    BY <1>1, <2>1
<1> QED
  BY <1>1, <1>3, <1>4, <1>5, <1>6 DEF ProofOf, Proofs

-----------------------------------------------------------------------------
(***************************************************************************)
(* The invariant is inductive.                                             *)
(***************************************************************************)

(* Before any run nothing is published, offered or refused. *)
LEMMA ProofInit == Init => ProofInv
<1> SUFFICES ASSUME Init PROVE ProofInv
  OBVIOUS
<1>1. RunsKnown
  BY DEF Init, RunsKnown
<1>2. OfferKnown
  BY NoProofType DEF Init, OfferKnown
<1>3. RefusedKnown
  BY DEF Init, RefusedKnown, NotRefused
<1> QED
  BY <1>1, <1>2, <1>3 DEF ProofInv

(* prove_impl. *)
LEMMA ProveKeeps ==
  ASSUME ProofInv, NEW params \in Geometries, NEW public \in Publics,
         NEW circuit \in Circuits, NEW length, NEW satisfies \in BOOLEAN, NEW enforce \in BOOLEAN,
         Prove(params, public, circuit, length, satisfies, enforce)
  PROVE  ProofInv'
<1> DEFINE outcome == ProverOutcome(params, circuit, length, satisfies, enforce)
           run == [params |-> params, public |-> public, circuit |-> circuit,
                   satisfies |-> satisfies,
                   proof |-> ProofOf(Len(runs) + 1, params, circuit)]
<1>1. runs \in Seq(Runs) /\ Len(runs) \in Nat
  BY DEF ProofInv, RunsKnown
<1>2. /\ outcome = "InvalidParameters" <=> ~Valid(params) \/ ~ProverAdmits(circuit)
      /\ outcome # "panic"
  BY DEF ProverOutcome, ProverAdmits, ExpressionsFit
<1>3. /\ offered = NoProof /\ offered' = offered
      /\ IF outcome = "proof"
         THEN runs' = Append(runs, run) /\ refused' = NotRefused
         ELSE /\ refused' = [params |-> params, circuit |-> circuit, outcome |-> outcome]
              /\ runs' = runs
  BY DEF Prove
<1>4. OfferKnown'
  BY <1>3, NoProofType DEF OfferKnown
<1>5. CASE outcome = "proof"
  <2>1. Valid(params) /\ ProverAdmits(circuit)
    BY <1>2, <1>5
  <2>2. run \in Runs
    BY <1>1, <2>1, PublishedType DEF Runs
  <2>3. runs' = Append(runs, run) /\ refused' = NotRefused
    BY <1>3, <1>5
  <2>4. /\ run.params = params /\ run.circuit = circuit
        /\ run.proof = ProofOf(Len(runs) + 1, params, circuit)
    OBVIOUS
  <2> HIDE DEF run, outcome
  <2>5. /\ runs' \in Seq(Runs) /\ Len(runs') = Len(runs) + 1
        /\ \A n \in 1 .. Len(runs) : runs'[n] = runs[n]
        /\ runs'[Len(runs) + 1] = run
    BY <1>1, <2>2, <2>3
  <2>6. ASSUME NEW n \in 1 .. Len(runs')
        PROVE  /\ Valid(runs'[n].params)
               /\ ProverAdmits(runs'[n].circuit)
               /\ runs'[n].proof = ProofOf(n, runs'[n].params, runs'[n].circuit)
    <3>1. CASE n \in 1 .. Len(runs)
      BY <2>5, <3>1 DEF ProofInv, RunsKnown
    <3>2. CASE n = Len(runs) + 1
      BY <2>1, <2>4, <2>5, <3>2
    <3> QED
      BY <1>1, <2>5, <3>1, <3>2
  <2>7. RunsKnown'
    BY <2>5, <2>6 DEF RunsKnown
  <2>8. RefusedKnown'
    BY <2>3 DEF RefusedKnown, NotRefused
  <2> QED
    BY <1>4, <2>7, <2>8 DEF ProofInv
<1>6. CASE outcome # "proof"
  <2>1. /\ runs' = runs
        /\ refused' = [params |-> params, circuit |-> circuit, outcome |-> outcome]
    BY <1>3, <1>6
  <2>2. RunsKnown'
    BY <2>1 DEF ProofInv, RunsKnown
  <2> HIDE DEF outcome
  <2>3. refused'.outcome = outcome /\ refused'.params = params /\ refused'.circuit = circuit
    BY <2>1
  <2>4. RefusedKnown'
    BY <1>2, <2>3 DEF RefusedKnown
  <2> QED
    BY <1>4, <2>2, <2>4 DEF ProofInv
<1> QED
  BY <1>5, <1>6

(* An alteration that leaves a proof with the salt of a run. *)
LEMMA AlterKeeps ==
  ASSUME ProofInv, NEW proof \in Proofs, proof.salt \in 1 .. Len(runs), Alter(proof)
  PROVE  ProofInv'
BY DEF Alter, ProofInv, RunsKnown, OfferKnown, RefusedKnown

(* The salt of an altered proof was that of a run before. *)
LEMMA AlterFrom ==
  ASSUME ProofInv, NEW proof, Alter(proof)
  PROVE  offered \in Proofs /\ offered.salt \in 1 .. Len(runs)
BY DEF Alter, ProofInv, OfferKnown

(* A component of another run's proof. *)
LEMMA ExchangeKeeps ==
  ASSUME ProofInv, NEW f \in DOMAIN NoProof, NEW r \in DOMAIN runs, Exchange(f, r)
  PROVE  ProofInv'
<1>1. f \in Fields
  BY FieldNames
<1>2. r \in 1 .. Len(runs) /\ r \in Nat /\ runs[r] \in Runs
  BY DEF ProofInv, RunsKnown
<1>3. runs[r].proof \in Proofs /\ runs[r].proof.salt = r
  <2>1. runs[r].proof \in Proofs
    BY <1>2 DEF Runs
  <2>2. runs[r].proof = ProofOf(r, runs[r].params, runs[r].circuit)
    BY <1>2 DEF ProofInv, RunsKnown
  <2> QED
    BY <2>1, <2>2 DEF ProofOf
<1>4. offered \in Proofs /\ offered.salt \in 1 .. Len(runs)
  BY AlterFrom DEF Exchange
<1> DEFINE altered == [offered EXCEPT ![f] = runs[r].proof[f]]
<1>5. altered \in Proofs
  BY <1>1, <1>3, <1>4, ExchangedType
<1>6. altered.salt \in 1 .. Len(runs)
  <2>1. CASE f = "salt"
    BY <1>2, <1>3, <1>4, <2>1 DEF Proofs
  <2>2. CASE f # "salt"
    BY <1>1, <1>4, <2>2, ExchangedType
  <2> QED
    BY <2>1, <2>2
<1> QED
  BY <1>5, <1>6, AlterKeeps DEF Exchange

(* A list component with its elements cut, repeated or turned round. *)
LEMMA ListKeeps ==
  ASSUME ProofInv, NEW f \in Lists, Shorten(f) \/ Lengthen(f) \/ Reorder(f)
  PROVE  ProofInv'
<1>1. f \in Fields /\ f # "salt"
  BY FieldNames DEF Lists
<1>2. offered \in Proofs /\ offered.salt \in 1 .. Len(runs)
  BY AlterFrom DEF Shorten, Lengthen, Reorder
<1>3. /\ offered[f] # <<>> => /\ Front(offered[f]) \in Component[f]
                              /\ Append(offered[f], Last(offered[f])) \in Component[f]
      /\ Reverse(offered[f]) \in Component[f]
  <2>1. offered[f] \in Component[f]
    BY <1>1, <1>2, ExchangedType
  <2>2. PICK S : Component[f] = Seq(S)
    <3>1. \/ Component[f] = Seq(Names) \/ Component[f] = Seq(BitVectors)
          \/ Component[f] = Seq(Openings)
      BY DEF Lists, Component
    <3> QED
      BY <3>1
  <2> QED
    BY <2>1, <2>2, AlteredLists
<1>4. \A v \in Component[f] :
        /\ [offered EXCEPT ![f] = v] \in Proofs
        /\ [offered EXCEPT ![f] = v].salt = offered.salt
  BY <1>1, <1>2, ExchangedType
<1>5. CASE Shorten(f)
  <2>1. /\ offered[f] # <<>>
        /\ Alter([offered EXCEPT ![f] = Front(offered[f])])
    BY <1>5 DEF Shorten
  <2> QED
    BY <1>2, <1>3, <1>4, <2>1, AlterKeeps
<1>6. CASE Lengthen(f)
  <2>1. /\ offered[f] # <<>>
        /\ Alter([offered EXCEPT ![f] = Append(offered[f], Last(offered[f]))])
    BY <1>6 DEF Lengthen
  <2> QED
    BY <1>2, <1>3, <1>4, <2>1, AlterKeeps
<1>7. CASE Reorder(f)
  <2>1. Alter([offered EXCEPT ![f] = Reverse(offered[f])])
    BY <1>7 DEF Reorder
  <2> QED
    BY <1>2, <1>3, <1>4, <2>1, AlterKeeps
<1> QED
  BY <1>5, <1>6, <1>7

(* A bit vector with the same bits under another length. *)
LEMMA ResizeKeeps ==
  ASSUME ProofInv
  PROVE  /\ \A n \in Int : ResizeWitness(n) => ProofInv'
         /\ \A j \in DOMAIN offered.corrections, n \in Int :
              ResizeCorrection(j, n) => ProofInv'
<1>1. ASSUME NEW n \in Int, ResizeWitness(n)
      PROVE  ProofInv'
  <2>1. offered \in Proofs /\ offered.salt \in 1 .. Len(runs)
    BY <1>1, AlterFrom DEF ResizeWitness
  <2>2. [offered.d EXCEPT !.len = n] \in BitVectors
    BY <2>1 DEF Proofs, BitVectors
  <2>3. /\ [offered EXCEPT !.d.len = n] \in Proofs
        /\ [offered EXCEPT !.d.len = n].salt = offered.salt
    BY <2>1, <2>2 DEF Proofs
  <2> QED
    BY <1>1, <2>1, <2>3, AlterKeeps DEF ResizeWitness
<1>2. ASSUME NEW j \in DOMAIN offered.corrections, NEW n \in Int, ResizeCorrection(j, n)
      PROVE  ProofInv'
  <2>1. offered \in Proofs /\ offered.salt \in 1 .. Len(runs)
    BY <1>2, AlterFrom DEF ResizeCorrection
  <2>2. offered.corrections \in Seq(BitVectors)
    BY <2>1 DEF Proofs
  <2>3. [offered.corrections[j] EXCEPT !.len = n] \in BitVectors
    <3>1. offered.corrections[j] \in BitVectors
      BY <2>2
    <3> QED
      BY <3>1 DEF BitVectors
  <2>4. [offered.corrections EXCEPT ![j].len = n] \in Seq(BitVectors)
    BY <2>2, <2>3
  <2>5. /\ [offered EXCEPT !.corrections[j].len = n] \in Proofs
        /\ [offered EXCEPT !.corrections[j].len = n].salt = offered.salt
    BY <2>1, <2>4 DEF Proofs
  <2> QED
    BY <1>2, <2>1, <2>5, AlterKeeps DEF ResizeCorrection
<1> QED
  BY <1>1, <1>2

(* An opening with one seed less. *)
LEMMA ShortenOpeningKeeps ==
  ASSUME ProofInv, NEW j \in DOMAIN offered.openings, ShortenOpening(j)
  PROVE  ProofInv'
<1>1. offered \in Proofs /\ offered.salt \in 1 .. Len(runs)
  BY AlterFrom DEF ShortenOpening
<1>2. offered.openings \in Seq(Openings)
  BY <1>1 DEF Proofs
<1>3. [offered.openings[j] EXCEPT !.siblings = @ - 1] \in Openings
  <2>1. offered.openings[j] \in Openings
    BY <1>2
  <2> QED
    BY <2>1 DEF Openings
<1>4. [offered.openings EXCEPT ![j].siblings = @ - 1] \in Seq(Openings)
  BY <1>2, <1>3
<1>5. /\ [offered EXCEPT !.openings[j].siblings = @ - 1] \in Proofs
      /\ [offered EXCEPT !.openings[j].siblings = @ - 1].salt = offered.salt
  BY <1>1, <1>4 DEF Proofs
<1> QED
  BY <1>1, <1>5, AlterKeeps DEF ShortenOpening

(* Every run, every offer and every alteration keeps the invariant. *)
LEMMA ProofStep == ProofInv /\ [Next]_vars => ProofInv'
<1> SUFFICES ASSUME ProofInv, [Next]_vars PROVE ProofInv'
  OBVIOUS
<1>1. ASSUME NEW params \in Geometries, NEW public \in Publics, NEW circuit \in Circuits,
             NEW length, NEW satisfies \in BOOLEAN, NEW enforce \in BOOLEAN,
             Prove(params, public, circuit, length, satisfies, enforce)
      PROVE  ProofInv'
  BY <1>1, ProveKeeps
<1>2. ASSUME NEW r \in DOMAIN runs, Offer(r)
      PROVE  ProofInv'
  <2>1. /\ r \in 1 .. Len(runs) /\ runs[r] \in Runs
        /\ runs[r].proof = ProofOf(r, runs[r].params, runs[r].circuit)
    BY DEF ProofInv, RunsKnown
  <2>2. runs[r].proof \in Proofs /\ runs[r].proof.salt = r
    <3>1. runs[r].proof \in Proofs
      BY <2>1 DEF Runs
    <3> QED
      BY <2>1, <3>1 DEF ProofOf
  <2>3. offered' = runs[r].proof /\ runs' = runs /\ refused' = NotRefused
    BY <1>2 DEF Offer
  <2>4. OfferKnown'
    BY <2>1, <2>2, <2>3 DEF OfferKnown
  <2>5. RunsKnown' /\ RefusedKnown'
    BY <2>3 DEF ProofInv, RunsKnown, RefusedKnown, NotRefused
  <2> QED
    BY <2>4, <2>5 DEF ProofInv
<1>3. ASSUME Alterations
      PROVE  ProofInv'
  <2>1. offered \in Proofs /\ offered.d.len \in Int
    BY DEF ProofInv, OfferKnown, Proofs, BitVectors
  <2>2. \A j \in DOMAIN offered.corrections : offered.corrections[j].len \in Int
    <3>1. offered.corrections \in Seq(BitVectors)
      BY <2>1 DEF Proofs
    <3>2. \A j \in DOMAIN offered.corrections : offered.corrections[j] \in BitVectors
      BY <3>1
    <3> QED
      BY <3>2 DEF BitVectors
  <2> QED
    BY <1>3, <2>1, <2>2, ExchangeKeeps, ListKeeps, ResizeKeeps, ShortenOpeningKeeps
       DEF Alterations
<1>4. CASE UNCHANGED vars
  BY <1>4 DEF vars, ProofInv, RunsKnown, OfferKnown, RefusedKnown
<1> QED
  BY <1>1, <1>2, <1>3, <1>4 DEF Next

(* The inductive invariant: what runs published, what the verifier can be
   asked about, and why provers refused (prove_impl). *)
THEOREM ProofInvariant == Spec => []ProofInv
<1> QED
  BY ProofInit, ProofStep, PTL DEF Spec

-----------------------------------------------------------------------------
(***************************************************************************)
(* The promises.                                                           *)
(***************************************************************************)

(* A run's proof has the shape of its statement. *)
LEMMA PublishedShape ==
  ASSUME NEW r \in Nat, NEW params \in Geometries, NEW circuit \in Circuits, Valid(params)
  PROVE  ShapeValid(params, circuit, ProofOf(r, params, circuit))
<1>1. /\ params.tau \in Nat /\ params.tau - 1 \in Nat
      /\ Lambda(params) \in Nat /\ MaxDegree(circuit) \in Nat
  BY LengthTypes, CountTypes DEF Valid
<1> DEFINE proof == ProofOf(r, params, circuit)
<1>2. proof \in Proofs
  BY PublishedType
<1>3. proof.d.len = WitnessLength(circuit)
  BY DEF ProofOf
<1>4. /\ DOMAIN proof.coms = 1 .. params.tau
      /\ DOMAIN proof.corrections = 1 .. params.tau - 1
      /\ DOMAIN proof.openings = 1 .. params.tau
      /\ DOMAIN proof.v_tilde = 1 .. Lambda(params)
      /\ DOMAIN proof.qs_coefficients = 1 .. MaxDegree(circuit)
  BY DEF ProofOf
<1>5. \A j \in 1 .. params.tau - 1 :
        proof.corrections[j].len = ExtendedLength(params, circuit)
  BY DEF ProofOf
<1>6. \A S : \A s \in Seq(S), n \in Nat : DOMAIN s = 1 .. n => Len(s) = n
  OBVIOUS
<1> HIDE DEF proof
<1>7. /\ Len(proof.coms) = params.tau
      /\ Len(proof.corrections) = params.tau - 1
      /\ Len(proof.openings) = params.tau
      /\ Len(proof.v_tilde) = Lambda(params)
      /\ Len(proof.qs_coefficients) = MaxDegree(circuit)
  BY <1>1, <1>2, <1>4, <1>6 DEF Proofs
<1> QED
  BY <1>3, <1>4, <1>5, <1>7 DEF ShapeValid, proof

(* What is known of a run. *)
LEMMA RunFacts ==
  ASSUME ProofInv, NEW n \in DOMAIN runs
  PROVE  /\ n \in Nat
         /\ runs[n].params \in Geometries /\ runs[n].public \in Publics
         /\ runs[n].circuit \in Circuits /\ runs[n].proof \in Proofs
         /\ Valid(runs[n].params) /\ ProverAdmits(runs[n].circuit)
         /\ runs[n].proof = ProofOf(n, runs[n].params, runs[n].circuit)
         /\ runs[n].proof.salt = n
         /\ ShapeValid(runs[n].params, runs[n].circuit, runs[n].proof)
<1>1. n \in 1 .. Len(runs) /\ n \in Nat /\ runs[n] \in Runs
  BY DEF ProofInv, RunsKnown
<1>2. /\ Valid(runs[n].params) /\ ProverAdmits(runs[n].circuit)
      /\ runs[n].proof = ProofOf(n, runs[n].params, runs[n].circuit)
  BY <1>1 DEF ProofInv, RunsKnown
<1>3. /\ runs[n].params \in Geometries /\ runs[n].public \in Publics
      /\ runs[n].circuit \in Circuits /\ runs[n].proof \in Proofs
  BY <1>1 DEF Runs
<1>4. runs[n].proof.salt = n
  BY <1>2 DEF ProofOf
<1> QED
  BY <1>1, <1>2, <1>3, <1>4, PublishedShape

(* Lists and proofs are the same when their parts are. *)
LEMMA SameParts ==
  /\ \A S : \A s, t \in Seq(S) :
       Len(s) = Len(t) /\ (\A i \in 1 .. Len(s) : s[i] = t[i]) => s = t
  /\ \A p, q \in Proofs : (\A f \in Fields : p[f] = q[f]) => p = q
<1>1. ASSUME NEW S, NEW s \in Seq(S), NEW t \in Seq(S), Len(s) = Len(t),
             \A i \in 1 .. Len(s) : s[i] = t[i]
      PROVE  s = t
  BY <1>1
<1>2. ASSUME NEW p \in Proofs, NEW q \in Proofs, \A f \in Fields : p[f] = q[f]
      PROVE  p = q
  <2>1. /\ p.salt = q.salt /\ p.coms = q.coms /\ p.corrections = q.corrections
        /\ p.d = q.d /\ p.u_tilde = q.u_tilde /\ p.v_tilde = q.v_tilde
        /\ p.qs_coefficients = q.qs_coefficients /\ p.openings = q.openings
    BY <1>2 DEF Fields
  <2> QED
    BY <1>2, <2>1 DEF Proofs
<1> QED
  BY <1>1, <1>2

(* What an admissible shape and valid parameters rule out. *)
LEMMA ShapeCovers ==
  ASSUME NEW params \in Geometries, NEW circuit \in Circuits, NEW proof \in Proofs,
         ShapeValid(params, circuit, proof)
  PROVE  /\ {row \in 1 .. Lambda(params) : row <= Len(proof.v_tilde)} = 1 .. Lambda(params)
         /\ ~ (proof.d.len < WitnessLength(circuit))
<1>1. Lambda(params) \in Nat /\ WitnessLength(circuit) \in Nat
  BY LengthTypes, CountTypes
<1>2. Len(proof.v_tilde) = Lambda(params) /\ proof.d.len = WitnessLength(circuit)
  BY DEF ShapeValid
<1> QED
  BY <1>1, <1>2

(* verify neither indexes a row nor a witness bit that is not there, for any
   proof that can be decoded and any statement, and the prover's expressions
   fit whenever it gets to make them. *)
THEOREM NoPanics == Spec => []NeverPanics
<1>1. ProofInv => NeverPanics
  <2> SUFFICES ASSUME ProofInv, NEW s \in Statements
               PROVE  VerdictOn(s, offered) # "panic"
    BY DEF NeverPanics, ProofInv, RefusedKnown
  <2>1. s.params \in Geometries /\ s.circuit \in Circuits
    BY DEF Statements
  <2>2. offered \in Proofs
    BY DEF ProofInv, OfferKnown
  <2>3. CASE ShapeValid(s.params, s.circuit, offered)
    <3>1. /\ {row \in 1 .. Lambda(s.params) : row <= Len(offered.v_tilde)} =
               1 .. Lambda(s.params)
          /\ ~ (offered.d.len < WitnessLength(s.circuit))
      BY <2>1, <2>2, <2>3, ShapeCovers
    <3> QED
      BY <3>1 DEF VerdictOn, Verdict
  <2>4. CASE ~ShapeValid(s.params, s.circuit, offered)
    BY <2>4 DEF VerdictOn, Verdict
  <2> QED
    BY <2>3, <2>4
<1> QED
  BY <1>1, ProofInvariant, PTL

(* absorb_prologue and the order of absorbing and drawing: a proof of
   admissible shape that has a run's alpha, chi or Delta agrees with the run in
   all that is fixed before it. *)
THEOREM OrderBinds == Spec => []ChallengesBind
<1>1. ProofInv => ChallengesBind
  <2> SUFFICES ASSUME ProofInv, NEW s \in Statements, NEW n \in DOMAIN runs,
                      ShapeValid(s.params, s.circuit, offered)
               PROVE  LET r == runs[n]
                          Agree(fields) == \A f \in fields : offered[f] = r.proof[f]
                      IN  /\ Alpha(s.public, s.params, s.circuit, offered) = RunAlpha(r) =>
                               /\ s.public = r.public /\ s.params = r.params
                               /\ Agree(PrologueFields)
                          /\ Chi(s.public, s.params, s.circuit, offered) = RunChi(r) =>
                               Agree(PrologueFields \cup {"u_tilde", "v_tilde"})
                          /\ Delta(s.public, s.params, s.circuit, offered) = RunDelta(r) =>
                               Agree(DOMAIN NoProof \ {"openings"})
    BY DEF ChallengesBind
  <2> DEFINE r == runs[n]
  <2>1. s.params \in Geometries /\ s.circuit \in Circuits /\ s.public \in Publics
    BY DEF Statements
  <2>2. offered \in Proofs
    BY DEF ProofInv, OfferKnown
  <2>3. /\ r.params \in Geometries /\ r.public \in Publics /\ r.circuit \in Circuits
        /\ r.proof \in Proofs /\ ShapeValid(r.params, r.circuit, r.proof)
    BY RunFacts
  <2> HIDE DEF r
  <2>4. /\ RunAlpha(r) = Alpha(r.public, r.params, r.circuit, r.proof)
        /\ RunChi(r) = Chi(r.public, r.params, r.circuit, r.proof)
        /\ RunDelta(r) = Delta(r.public, r.params, r.circuit, r.proof)
    BY DEF RunAlpha, RunChi, RunDelta
  <2>5. ASSUME Alpha(s.public, s.params, s.circuit, offered) = RunAlpha(r)
        PROVE  /\ s.public = r.public /\ s.params = r.params
               /\ \A f \in PrologueFields : offered[f] = r.proof[f]
    BY <2>1, <2>2, <2>3, <2>4, <2>5, ChallengesDetermine DEF PrologueFields
  <2>6. ASSUME Delta(s.public, s.params, s.circuit, offered) = RunDelta(r)
        PROVE  \A f \in DOMAIN NoProof \ {"openings"} : offered[f] = r.proof[f]
    <3>1. /\ offered.salt = r.proof.salt /\ offered.coms = r.proof.coms
          /\ offered.corrections = r.proof.corrections /\ offered.d = r.proof.d
          /\ offered.u_tilde = r.proof.u_tilde /\ offered.v_tilde = r.proof.v_tilde
          /\ offered.qs_coefficients = r.proof.qs_coefficients
      BY <2>1, <2>2, <2>3, <2>4, <2>6, ChallengesDetermine
    <3> QED
      BY <3>1, FieldNames DEF Fields
  <2>7. ASSUME Chi(s.public, s.params, s.circuit, offered) = RunChi(r)
        PROVE  \A f \in PrologueFields \cup {"u_tilde", "v_tilde"} : offered[f] = r.proof[f]
    <3>1. /\ offered.salt = r.proof.salt /\ offered.coms = r.proof.coms
          /\ offered.corrections = r.proof.corrections /\ offered.d = r.proof.d
          /\ offered.u_tilde = r.proof.u_tilde /\ offered.v_tilde = r.proof.v_tilde
      BY <2>1, <2>2, <2>3, <2>4, <2>7, ChallengesDetermine
    <3> QED
      BY <3>1 DEF PrologueFields
  <2> QED
    BY <2>5, <2>6, <2>7 DEF r
<1> QED
  BY <1>1, ProofInvariant, PTL

(* Completeness of verify for what prove_impl publishes, and the same circuits
   and geometries refused by both. *)
THEOREM BothSidesAgree == Spec => []SidesAgree
<1>1. ProofInv => SidesAgree
  <2> SUFFICES ASSUME ProofInv PROVE SidesAgree
    OBVIOUS
  <2>1. ASSUME NEW n \in DOMAIN runs, NEW agree \in BOOLEAN, NEW fits \in BOOLEAN,
               runs[n].satisfies
        PROVE  Verdict(runs[n].params, runs[n].public, runs[n].circuit, runs[n].proof,
                       agree, fits) = "accepted"
    <3> DEFINE params == runs[n].params
               circuit == runs[n].circuit
               proof == runs[n].proof
    <3>1. /\ params \in Geometries /\ circuit \in Circuits /\ proof \in Proofs
          /\ Valid(params) /\ ProverAdmits(circuit) /\ proof.salt = n
          /\ ShapeValid(params, circuit, proof)
          /\ proof = ProofOf(n, params, circuit)
      BY RunFacts
    <3>2. VerifierAdmits(circuit)
      BY <3>1 DEF ProverAdmits, VerifierAdmits
    <3>3. RunOf(proof) = runs[n]
      BY <3>1 DEF RunOf
    <3>4. OpeningsVerify(params, proof, RunDelta(runs[n]), agree)
      <4>1. \A j \in 1 .. params.tau :
              /\ proof.openings[j] = [id |-> <<n, j>>, siblings |-> params.k]
              /\ proof.coms[j] = <<n, j>>
        BY <3>1 DEF ProofOf
      <4> QED
        BY <3>1, <3>3, <4>1 DEF OpeningsVerify
    <3>5. \A row \in 1 .. Lambda(params) : RowHolds(proof, RunAlpha(runs[n]), row)
      <4>1. /\ proof.u_tilde = n
            /\ \A row \in 1 .. Lambda(params) : proof.v_tilde[row] = <<n, row>>
        BY <3>1 DEF ProofOf
      <4> QED
        BY <3>1, <3>3, <4>1 DEF RowHolds
    <3>6. QuickSilverHolds(circuit, proof, RunChi(runs[n]), fits)
      BY <2>1, <3>3 DEF QuickSilverHolds, WitnessFits
    <3>7. /\ {row \in 1 .. Lambda(params) : row <= Len(proof.v_tilde)} = 1 .. Lambda(params)
          /\ ~ (proof.d.len < WitnessLength(circuit))
      BY <3>1, ShapeCovers
    <3> QED
      BY <3>1, <3>2, <3>4, <3>5, <3>6, <3>7 DEF Verdict, RunAlpha, RunChi, RunDelta
  <2>2. ASSUME refused # NotRefused, NEW public \in Publics,
               NEW agree \in BOOLEAN, NEW fits \in BOOLEAN
        PROVE  Verdict(refused.params, public, refused.circuit, NoProof, agree, fits)
                 = "InvalidParameters" <=> refused.outcome = "InvalidParameters"
    <3>1. refused.outcome = "InvalidParameters" <=>
            ~Valid(refused.params) \/ ~ProverAdmits(refused.circuit)
      BY <2>2 DEF ProofInv, RefusedKnown
    <3>2. ProverAdmits(refused.circuit) <=> VerifierAdmits(refused.circuit)
      BY DEF ProverAdmits, VerifierAdmits
    <3> QED
      BY <3>1, <3>2 DEF Verdict
  <2> QED
    BY <2>1, <2>2 DEF SidesAgree
<1> QED
  BY <1>1, ProofInvariant, PTL

(* Soundness of the composition: what verify accepts is the unaltered proof of
   one run, for exactly its public input, parameters and dimensions, and the
   witness that it commits to satisfies the verifier's circuit. *)
THEOREM AcceptedAreIntact == Spec => []AcceptedIsIntact
<1>1. ProofInv => AcceptedIsIntact
  <2> SUFFICES ASSUME ProofInv, offered # NoProof, NEW s \in Statements,
                      VerdictOn(s, offered) = "accepted"
               PROVE  \E r \in DOMAIN runs : /\ offered = runs[r].proof
                                             /\ IsStatementOf(s, runs[r])
                                             /\ WitnessFits(s.circuit, runs[r], s.fits)
    BY DEF AcceptedIsIntact
  <2> DEFINE params == s.params
             circuit == s.circuit
             n == offered.salt
             r == runs[n]
             alpha == Alpha(s.public, params, circuit, offered)
             delta == Delta(s.public, params, circuit, offered)
             chi == Chi(s.public, params, circuit, offered)
  <2>1. params \in Geometries /\ circuit \in Circuits /\ s.public \in Publics
    BY DEF Statements
  <2>2. offered \in Proofs /\ n \in DOMAIN runs
    BY DEF ProofInv, OfferKnown, RunsKnown
  <2>3. Valid(params) /\ VerifierAdmits(circuit) /\ ShapeValid(params, circuit, offered)
    BY DEF VerdictOn, Verdict
  <2>4. /\ {row \in 1 .. Lambda(params) : row <= Len(offered.v_tilde)} = 1 .. Lambda(params)
        /\ ~ (offered.d.len < WitnessLength(circuit))
    BY <2>1, <2>2, <2>3, ShapeCovers
  <2>5. /\ OpeningsVerify(params, offered, delta, s.agree)
        /\ \A row \in 1 .. Lambda(params) : RowHolds(offered, alpha, row)
        /\ QuickSilverHolds(circuit, offered, chi, s.fits)
    BY <2>4 DEF VerdictOn, Verdict
  <2>6. /\ r.params \in Geometries /\ r.public \in Publics /\ r.circuit \in Circuits
        /\ r.proof \in Proofs /\ ShapeValid(r.params, r.circuit, r.proof)
        /\ r.proof = ProofOf(n, r.params, r.circuit) /\ r.proof.salt = n
    BY <2>2, RunFacts
  <2>7. RunOf(offered) = r
    BY DEF RunOf
  <2>8. 1 \in 1 .. Lambda(params)
    BY <2>3, BoundsAssumption DEF Valid
  <2>9. /\ WitnessFits(circuit, r, s.fits)
        /\ offered.d = r.proof.d /\ offered.qs_coefficients = r.proof.qs_coefficients
    BY <2>5, <2>7 DEF QuickSilverHolds
  <2>10. /\ alpha = RunAlpha(r)
         /\ offered.coms = r.proof.coms /\ offered.corrections = r.proof.corrections
         /\ offered.u_tilde = n
         /\ \A row \in 1 .. Lambda(params) : offered.v_tilde[row] = <<n, row>>
    BY <2>5, <2>7, <2>8 DEF RowHolds
  <2>11. s.public = r.public /\ params = r.params
    BY <2>1, <2>2, <2>3, <2>6, <2>10, ChallengesDetermine DEF RunAlpha
  <2>12. offered.v_tilde = r.proof.v_tilde
    <3>1. /\ offered.v_tilde \in Seq(Names) /\ r.proof.v_tilde \in Seq(Names)
          /\ Len(offered.v_tilde) = Lambda(params) /\ Len(r.proof.v_tilde) = Lambda(params)
      BY <2>2, <2>3, <2>6, <2>11 DEF Proofs, ShapeValid
    <3>2. \A row \in 1 .. Lambda(params) : r.proof.v_tilde[row] = <<n, row>>
      BY <2>6, <2>11 DEF ProofOf
    <3>3. \A row \in 1 .. Len(offered.v_tilde) : offered.v_tilde[row] = r.proof.v_tilde[row]
      BY <2>10, <3>1, <3>2
    <3>4. Len(offered.v_tilde) = Len(r.proof.v_tilde)
      BY <3>1
    <3> QED
      BY <3>1, <3>3, <3>4, SameParts, Zenon
  <2>13. offered.openings = r.proof.openings
    <3>1. /\ offered.openings \in Seq(Openings) /\ r.proof.openings \in Seq(Openings)
          /\ Len(offered.openings) = params.tau /\ Len(r.proof.openings) = params.tau
      BY <2>2, <2>3, <2>6, <2>11 DEF Proofs, ShapeValid
    <3>2. \A j \in 1 .. params.tau :
            offered.openings[j] = [id |-> <<n, j>>, siblings |-> params.k]
      BY <2>5 DEF OpeningsVerify
    <3>3. \A j \in 1 .. params.tau :
            r.proof.openings[j] = [id |-> <<n, j>>, siblings |-> params.k]
      BY <2>6, <2>11 DEF ProofOf
    <3>4. \A j \in 1 .. Len(offered.openings) : offered.openings[j] = r.proof.openings[j]
      BY <3>1, <3>2, <3>3
    <3>5. Len(offered.openings) = Len(r.proof.openings)
      BY <3>1
    <3> QED
      BY <3>1, <3>4, <3>5, SameParts, Zenon
  <2>14. offered.u_tilde = r.proof.u_tilde
    BY <2>6, <2>10 DEF ProofOf
  <2>15. offered = r.proof
    <3>1. \A f \in Fields : offered[f] = r.proof[f]
      BY <2>6, <2>9, <2>10, <2>12, <2>13, <2>14 DEF Fields
    <3> HIDE DEF r, n
    <3> QED
      BY <2>2, <2>6, <3>1, SameParts, Zenon
  <2>16. Dims(params, circuit) = Dims(r.params, r.circuit)
    <3>1. /\ WitnessLength(circuit) = offered.d.len
          /\ MaxDegree(circuit) = Len(offered.qs_coefficients)
      BY <2>3 DEF ShapeValid
    <3>2. /\ WitnessLength(r.circuit) = r.proof.d.len
          /\ MaxDegree(r.circuit) = Len(r.proof.qs_coefficients)
      BY <2>6 DEF ShapeValid
    <3> QED
      BY <2>11, <2>15, <3>1, <3>2 DEF Dims
  <2> QED
    BY <2>2, <2>9, <2>11, <2>15, <2>16 DEF IsStatementOf
<1> QED
  BY <1>1, ProofInvariant, PTL
=============================================================================
