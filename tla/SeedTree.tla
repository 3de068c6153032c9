------------------------------ MODULE SeedTree ------------------------------
(***************************************************************************)
(* The all-but-one vector commitment of crates/vector-commit: a seed is    *)
(* expanded down a binary tree, the hash of all leaf commitments is        *)
(* published, and an opening reveals the siblings of the path to one leaf, *)
(* from which every other leaf can be recomputed.                          *)
(*                                                                         *)
(* A PRG or hash output is the tuple of its inputs.                        *)
(***************************************************************************)
EXTENDS Integers, FiniteSetsExt

NodesAt(level) == 0 .. 2^level - 1

ExpandNode(salt, level, index, seed) ==
  [side \in {0, 1} |-> <<"expand", salt, level, index, seed, side>>]

LeafCom(salt, index, seed) == <<"leaf-com", salt, index, seed>>

RootHash(salt, depth, coms) == <<"root", salt, depth, coms>>

(* All node seeds, level by level. *)
SeedLevels(root, salt, depth) ==
  LET levels[l \in 0 .. depth] ==
        [i \in NodesAt(l) |->
           IF l = 0 THEN root
           ELSE ExpandNode(salt, l - 1, i \div 2, levels[l - 1][i \div 2])[i % 2]]
  IN levels

(* AllButOneVc::commit: all node seeds, the leaf commitments and the root. *)
Commit(root, salt, depth) ==
  LET levels == SeedLevels(root, salt, depth)
      coms == [i \in NodesAt(depth) |-> LeafCom(salt, i, levels[depth][i])]
  IN [levels |-> levels, leafComs |-> coms, com |-> RootHash(salt, depth, coms)]

(* The ancestor of a leaf at a level, and a node's sibling (index ^ 1). *)
PathIndex(leaf, depth, level) == leaf \div 2^(depth - level)
SiblingIndex(index) == IF index % 2 = 0 THEN index + 1 ELSE index - 1

(* Mutant: the nodes of the path are revealed, not their siblings. *)
OpenPath(tree, depth, hide) ==
  [siblings |-> [level \in 1 .. depth |->
                   tree.levels[level][PathIndex(hide, depth, level)]],
   hiddenCom |-> tree.leafComs[hide]]

OpenAllButOne(tree, depth, hide) ==
  [siblings |-> [level \in 1 .. depth |->
                   tree.levels[level][SiblingIndex(PathIndex(hide, depth, level))]],
   hiddenCom |-> tree.leafComs[hide]]

(* The seed of a leaf below a node whose seed is given. *)
Descend(salt, depth, level, seed, leaf) ==
  LET seedAt[l \in level .. depth] ==
        IF l = level THEN seed
        ELSE ExpandNode(salt, l - 1, PathIndex(leaf, depth, l - 1), seedAt[l - 1])
               [PathIndex(leaf, depth, l) % 2]
  IN seedAt[depth]

(* The leaves verify recomputes: those below some revealed sibling.  The
   others have no seed (None, the empty tuple). *)
NoSeed == <<>>

RecomputedLeaves(salt, depth, hide, opening) ==
  [leaf \in NodesAt(depth) |->
     LET covering == {level \in 1 .. depth :
           PathIndex(leaf, depth, level) = SiblingIndex(PathIndex(hide, depth, level))}
     IN IF covering = {} THEN NoSeed
        ELSE LET level == Max(covering)
             IN Descend(salt, depth, level, opening.siblings[level], leaf)]

(* Mutant: the root hash is not compared. *)
VerifiesAlways(com, salt, depth, hide, opening) == TRUE

(* verify accepts iff the recomputed root is the commitment. *)
Verifies(com, salt, depth, hide, opening) ==
  LET leaves == RecomputedLeaves(salt, depth, hide, opening)
      coms == [i \in NodesAt(depth) |->
                 IF leaves[i] = NoSeed THEN opening.hiddenCom
                 ELSE LeafCom(salt, i, leaves[i])]
  IN RootHash(salt, depth, coms) = com
=============================================================================
