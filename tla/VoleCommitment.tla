--------------------------- MODULE VoleCommitment ---------------------------
(***************************************************************************)
(* VOLE correlations from seed trees (crates/voleith/src/vole.rs).         *)
(*                                                                         *)
(* The prover commits to Tau trees of depth K and sums the leaf expansions *)
(* into a vector u and Tau * K tag planes V.  The verifier draws Delta,    *)
(* receives every leaf except leaf Delta_j of tree j, and sums the same    *)
(* expansions into keys.  The point is K = V + u * Delta, position by      *)
(* position, with nobody ever computing the hidden leaves again.           *)
(*                                                                         *)
(* A leaf expansion is a formal symbol and a bit vector the set of symbols *)
(* it is the sum of, so what holds here holds for all values of the        *)
(* expansions and for each of their coordinates.  Trees are worked on by   *)
(* independent tasks, as with the parallel feature, and collected in       *)
(* order.                                                                  *)
(***************************************************************************)
EXTENDS SeedTree

CONSTANTS
  Tau,          (* Number of trees.                                         *)
  K,            (* Depth of a tree.                                         *)
  Salt          (* The salt of the proof.                                   *)

ASSUME ParamsAssumption == Tau \in Nat \ {0} /\ K \in Nat \ {0}

VARIABLES
  phase,        (* Stage of the protocol.                                   *)
  acc,          (* The accumulator of each tree's task.                     *)
  opened,       (* The challenge the prover opened for.                     *)
  delta,        (* The challenge the verifier works with.                   *)
  openings,     (* The openings of the trees.                               *)
  committed     (* What the prover assembled: u, tags and corrections.      *)

vars == <<phase, acc, opened, delta, openings, committed>>

Trees == 0 .. Tau - 1
Lambda == Tau * K
Leaves == NodesAt(K)
Bit(value, b) == (value \div 2^b) % 2

(* A root seed is drawn at random, hence no expansion of another seed.  The
   trees have equal ones, which is the worst. *)
RootSeed == <<"root-seed">>

TreeSalt(j) == <<"tree-salt", Salt, j>>
ExpandLeaf(j, i, seed) == {<<"leaf-expand", Salt, j, i, seed>>}

ProverTrees == [j \in Trees |-> Commit(RootSeed, TreeSalt(j), K)]
LeafVector(j, i) == ExpandLeaf(j, i, ProverTrees[j].levels[K][i])

(* split_delta: the chunk of the challenge that indexes tree j. *)
Chunk(challenge, j) == (challenge \div 2^(j * K)) % 2^K
-----------------------------------------------------------------------------
(***************************************************************************)
(* PlaneAccumulator: pending[l] is the sum of a completed subtree with     *)
(* 2^l leaves that waits for its right sibling.                            *)
(***************************************************************************)
Fresh == [planes |-> [b \in 0 .. K - 1 |-> {}], pending |-> [l \in {} |-> {}], count |-> 0]

(* What r is merged into on its way up to a level. *)
Carried(a, r, top) ==
  LET cur[l \in 0 .. top] == IF l = 0 THEN r ELSE SymDiff(cur[l - 1], a.pending[l - 1])
  IN cur

Push(a, r) ==
  LET top == Min((0 .. K) \ DOMAIN a.pending)
      cur == Carried(a, r, top)
  IN [planes |-> [b \in 0 .. K - 1 |->
                    IF b < top THEN SymDiff(a.planes[b], cur[b]) ELSE a.planes[b]],
      pending |-> [l \in {d \in DOMAIN a.pending : d > top} \cup {top} |->
                     IF l = top THEN cur[top] ELSE a.pending[l]],
      count |-> a.count + 1]

Full(a) == a.count = 2^K

(* assemble: plane b of tree j is bit j * K + b of every field element. *)
Assemble(planes) == [pos \in 0 .. Lambda - 1 |-> planes[pos \div K][pos % K]]
-----------------------------------------------------------------------------
Init ==
  /\ phase = "commit"
  /\ acc = [j \in Trees |-> Fresh]
  /\ opened = 0
  /\ delta = 0
  /\ openings = <<>>
  /\ committed = <<>>

(* ProverVole::commit, one leaf of the task of tree j. *)
ProverPush(j) ==
  /\ phase = "commit"
  /\ ~Full(acc[j])
  /\ acc' = [acc EXCEPT ![j] = Push(@, LeafVector(j, acc[j].count))]
  /\ UNCHANGED <<phase, opened, delta, openings, committed>>

(* ProverVole::commit after all tasks have finished. *)
ProverAssemble ==
  LET u(j) == acc[j].pending[K]
  IN /\ phase = "commit"
     /\ \A j \in Trees : Full(acc[j])
     /\ committed' =
          [u |-> u(0),
           tags |-> Assemble([j \in Trees |-> acc[j].planes]),
           corrections |-> [j \in Trees \ {0} |-> SymDiff(u(0), u(j))]]
     /\ phase' = "committed"
     /\ acc' = [j \in Trees |-> Fresh]
     /\ UNCHANGED <<opened, delta, openings>>

(* The prover opens for its challenge, and the verifier derives its own from
   what it received: another one if anything it received differs. *)
Open(challenge, derived) ==
  /\ phase = "committed"
  /\ opened' = challenge
  /\ delta' = derived
  /\ openings' = [j \in Trees |-> OpenAllButOne(ProverTrees[j], K, Chunk(challenge, j))]
  /\ phase' = "reconstruct"
  /\ UNCHANGED <<acc, committed>>

TreeVerifies(j) ==
  Verifies(ProverTrees[j].com, TreeSalt(j), K, Chunk(delta, j), openings[j])

(* reconstruct_keys fails as soon as one tree does not verify. *)
Reject(j) ==
  /\ phase = "reconstruct"
  /\ acc[j].count = 0
  /\ ~TreeVerifies(j)
  /\ phase' = "rejected"
  /\ UNCHANGED <<acc, opened, delta, openings, committed>>

XorIndex(a, b) ==
  LET low[l \in 0 .. K] ==
        IF l = 0 THEN 0
        ELSE low[l - 1] + 2^(l - 1) * ((Bit(a, l - 1) + Bit(b, l - 1)) % 2)
  IN low[K]

(* reconstruct_keys, one leaf of the task of tree j: leaves are visited in
   the order e = i ^ Delta_j, and the hidden one counts as the zero vector. *)
VerifierPush(j) ==
  LET d == Chunk(delta, j)
      e == acc[j].count
      i == XorIndex(e, d)
      leaves == RecomputedLeaves(TreeSalt(j), K, d, openings[j])
  IN /\ phase = "reconstruct"
     /\ e = 0 => TreeVerifies(j)
     /\ ~Full(acc[j])
     /\ acc' = [acc EXCEPT ![j] =
                  Push(@, IF e = 0 THEN {} ELSE ExpandLeaf(j, i, leaves[i]))]
     /\ UNCHANGED <<phase, opened, delta, openings, committed>>

VerifierFinish ==
  /\ phase = "reconstruct"
  /\ \A j \in Trees : Full(acc[j])
  /\ phase' = "done"
  /\ UNCHANGED <<acc, opened, delta, openings, committed>>

(* Mutant: every tree uses the first chunk of the challenge. *)
CorrectedByFirstChunk(j, b) ==
  IF j > 0 /\ Bit(Chunk(delta, 0), b) = 1
  THEN SymDiff(acc[j].planes[b], committed.corrections[j])
  ELSE acc[j].planes[b]

(* The correction makes tree j's keys refer to the first tree's u. *)
CorrectedPlane(j, b) ==
  IF j > 0 /\ Bit(Chunk(delta, j), b) = 1
  THEN SymDiff(acc[j].planes[b], committed.corrections[j])
  ELSE acc[j].planes[b]

Keys == Assemble([j \in Trees |-> [b \in 0 .. K - 1 |-> CorrectedPlane(j, b)]])

Next ==
  \/ \E j \in Trees : ProverPush(j) \/ Reject(j) \/ VerifierPush(j)
  \/ ProverAssemble
  \/ \E challenge, derived \in 0 .. 2^Lambda - 1 : Open(challenge, derived)
  \/ VerifierFinish

Spec == Init /\ [][Next]_vars
-----------------------------------------------------------------------------
(* The sum of the vectors f at the positions S: the symbols that an odd
   number of them hold. *)
XorSum(S, f) ==
  {x \in UNION {f[i] : i \in S} : Cardinality({i \in S : x \in f[i]}) % 2 = 1}

(* Half way through a tree, the accumulator of the prover holds the sums it
   is documented to hold: a plane b covers the completed pairs of subtrees
   at level b, and pending[l] is the left subtree that the l-th bit of the
   number of leaves stands for (vole.rs, PlaneAccumulator). *)
AccumulatorExact ==
  phase = "commit" =>
    \A j \in Trees :
      LET n == acc[j].count
          R == [i \in Leaves |-> LeafVector(j, i)]
          Whole(l) == 2^l * (n \div 2^l)
      IN /\ DOMAIN acc[j].pending = {l \in 0 .. K : Bit(n, l) = 1}
         /\ \A l \in DOMAIN acc[j].pending :
              acc[j].pending[l] = XorSum(Whole(l + 1) .. Whole(l + 1) + 2^l - 1, R)
         /\ \A b \in 0 .. K - 1 :
              acc[j].planes[b] =
                XorSum({i \in 0 .. Whole(b + 1) - 1 : Bit(i, b) = 1}, R)

(* The VOLE correlation K = V + u * Delta at every position of the field
   element, whatever the challenge, and the documented partial sums on the way
   to it (vole.rs commit, reconstruct_keys). *)
Correlation ==
  /\ AccumulatorExact
  /\ phase = "done" =>
       \A pos \in 0 .. Lambda - 1 :
         Keys[pos] = IF Bit(delta, pos) = 1
                     THEN SymDiff(committed.tags[pos], committed.u)
                     ELSE committed.tags[pos]

(* Openings are accepted exactly under the challenge they were made for:
   whichever tree is looked at first, a verifier with another challenge
   rejects, and one with the same challenge does not. *)
ChallengeIsBound ==
  /\ phase = "done" => delta = opened
  /\ phase = "rejected" => delta # opened

(* No opening reveals a seed on the path to the hidden leaf, so the hidden
   leaf cannot be recomputed, while every other leaf is, as the prover has
   it. *)
HiddenLeafOnly ==
  phase = "reconstruct" =>
    \A j \in Trees :
      LET hide == Chunk(opened, j)
          leaves == RecomputedLeaves(TreeSalt(j), K, hide, openings[j])
          revealed == {openings[j].siblings[level] : level \in 1 .. K}
      IN /\ \A level \in 0 .. K :
              ProverTrees[j].levels[level][PathIndex(hide, K, level)] \notin revealed
         /\ \A i \in Leaves :
              leaves[i] = IF i = hide THEN NoSeed ELSE ProverTrees[j].levels[K][i]
=============================================================================
