--------------------------------- MODULE Merkle ---------------------------------
(****************************************************************************)
(* The Merkle trees of the store's readings (orchard_chia/datalayer/        *)
(* merkle.py).  SHA-256 is a free constructor: a hash is a tuple of what    *)
(* was hashed, with the prefix that tells a leaf from an inner node, so two *)
(* hashes are equal only if what was hashed is.                             *)
(****************************************************************************)
EXTENDS Integers, SequencesExt

LeafHash(data) == <<"leaf", data>>
NodeHash(left, right) == <<"node", left, right>>
EmptyRoot == <<"empty">>

(* One level up: neighbours are paired, an odd last one is promoted.        *)
Up(level) ==
  [i \in 1 .. (Len(level) + 1) \div 2 |->
     IF 2 * i <= Len(level) THEN NodeHash(level[2 * i - 1], level[2 * i]) ELSE level[2 * i - 1]]

(* The levels of a tree, from the leaves; a level is repeated once it is    *)
(* one hash.                                                                *)
Levels(leaves) ==
  LET level[k \in 0 .. Len(leaves)] == IF k = 0 THEN leaves ELSE Up(level[k - 1]) IN level

MerkleRoot(leaves) == IF leaves = <<>> THEN EmptyRoot ELSE Levels(leaves)[Len(leaves)][1]

(* Where the leaf of an index has got to on each of n levels.               *)
Positions(index, n) ==
  LET at[k \in 0 .. n] == IF k = 0 THEN index ELSE (at[k - 1] + 1) \div 2 IN at

(* Variation: a promoted node is paired with itself.                        *)
WrongStep(level, p) ==
  IF p % 2 = 0 THEN <<[side |-> "L", sibling |-> level[p - 1]]>>
  ELSE IF p < Len(level) THEN <<[side |-> "R", sibling |-> level[p + 1]]>>
  ELSE IF Len(level) > 1 THEN <<[side |-> "R", sibling |-> level[p]]>>
  ELSE <<>>

(* A level's step of an audit path: the sibling, or nothing if promoted.    *)
Step(level, p) ==
  IF p % 2 = 0 THEN <<[side |-> "L", sibling |-> level[p - 1]]>>
  ELSE IF p < Len(level) THEN <<[side |-> "R", sibling |-> level[p + 1]]>>
  ELSE <<>>

MerkleProof(leaves, index) ==
  LET levels == Levels(leaves)  at == Positions(index, Len(leaves))
  IN FlattenSeq([k \in 1 .. Len(leaves) |-> Step(levels[k - 1], at[k - 1])])

(* The hash of a leaf folded up an audit path.                              *)
Folded(leaf, proof) ==
  LET hash[k \in 0 .. Len(proof)] ==
        IF k = 0 THEN leaf
        ELSE IF proof[k].side = "R" THEN NodeHash(hash[k - 1], proof[k].sibling)
        ELSE NodeHash(proof[k].sibling, hash[k - 1])
  IN hash[Len(proof)]

VerifyProof(leaf, proof, root) == Folded(leaf, proof) = root

(* The tree hash by its definition in RFC 6962: the leaves are split at the *)
(* largest power of two below their number.  hash is that of m leaves from  *)
(* lo on.                                                                   *)
Powers(n) == LET power[e \in 0 .. n] == IF e = 0 THEN 1 ELSE 2 * power[e - 1] IN power
Split(n) == CHOOSE k \in 1 .. n - 1 : 2 * k >= n /\ \E e \in 0 .. n : k = Powers(n)[e]

TreeHashes(leaves) ==
  LET n == Len(leaves)
      hash[m \in 1 .. n] ==
        [lo \in 1 .. n - m + 1 |->
           IF m = 1 THEN leaves[lo]
           ELSE NodeHash(hash[Split(m)][lo], hash[m - Split(m)][lo + Split(m)])]
  IN hash

TreeHash(leaves) == IF leaves = <<>> THEN EmptyRoot ELSE TreeHashes(leaves)[Len(leaves)][1]

(* The root is the tree hash, and an audit path proves its own leaf and no  *)
(* other.                                                                   *)
Exact(leaves) ==
  \E root \in {MerkleRoot(leaves)} :
    /\ root = TreeHash(leaves)
    /\ \A i \in DOMAIN leaves : \E proof \in {MerkleProof(leaves, i)} :
         \A j \in DOMAIN leaves : VerifyProof(leaves[j], proof, root) <=> leaves[i] = leaves[j]
================================================================================
