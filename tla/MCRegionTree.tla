---------------------------- MODULE MCRegionTree ----------------------------
(* Model-checking instance of RegionTree: three index-space uids, two      *)
(* partition uids and two region trees are enough for a root, a partition, *)
(* two sibling subspaces (or a nested partition) and a region declared     *)
(* before or after the subtree below it; two field spaces let a           *)
(* requirement name a field space other than its tree's.                   *)
EXTENDS RegionTree, TLC

CONSTANTS s1, s2, s3, p1, p2, t1, t2, f1, f2, x1

MCSpaceIds == {s1, s2, s3}
MCPartIds == {p1, p2}
MCTreeIds == {t1, t2}
MCPoints == {1, 2}
MCFieldSpaceIds == {f1, f2}
MCFieldIds == {x1}

\* uids are opaque: any renaming of spaces, partitions or trees is sound.
MCSymmetry == Permutations(MCSpaceIds) \cup Permutations(MCPartIds)
                \cup Permutations(MCTreeIds) \cup Permutations(MCFieldSpaceIds)
=============================================================================
