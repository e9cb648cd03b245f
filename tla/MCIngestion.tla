---------------------------- MODULE MCIngestion ----------------------------
EXTENDS Ingestion, TLC

\* The kinds without add_operation or add_point; the other five have the same code.
MCOtherKinds == {"mapping", "deletion"}

\* No uid and no slice is distinguished by the code; objects are not permuted
\* (Fresh picks among them with CHOOSE).
Symmetry == Permutations(Uids) \cup Permutations(SliceIds) \cup Permutations(Spaces)
====
