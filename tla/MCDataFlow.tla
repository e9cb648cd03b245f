------------------------------ MODULE MCDataFlow ------------------------------
(***************************************************************************)
(* Model-checking instance of DataFlow.  op1 writes field f of region A in *)
(* instance I0; op2 reads f of R in instance J.  Three copy-across ops:    *)
(* k3 copies I0.f to I.f, k1 copies I.g to J.f and k2 copies I.f to J.f.   *)
(* k1 and k2 start when k3 ends (event x).  The trace may order op1 before *)
(* k3 and op2, k1 and k2 before op2, and k3 directly before op2.  A        *)
(* low-level copy c0 of I0 to J starts when op1 ends and ends at tc, which *)
(* the trace may order before op2; its one field record names f.  A second *)
(* record names an event no copy ends at, and is refused.                 *)
(***************************************************************************)
EXTENDS DataFlow

CONSTANTS op1, op2, k1, k2, k3, c0, s1, t1, s2, t2, s3, x, tk1, tk2, tc,
          I0, I, J, f, g, R, P, A, B

MCTasks == {op1, op2}
MCCopyOps == {k1, k2, k3}
MCEvents == {s1, t1, s2, t2, s3, x, tk1, tk2, tc}
MCOpEvents == [o \in MCTasks \cup MCCopyOps |->
                 CASE o = op1 -> <<s1, t1>> [] o = op2 -> <<s2, t2>>
                   [] o = k3 -> <<s3, x>>   [] o = k1 -> <<x, tk1>>
                   [] OTHER -> <<x, tk2>>]
MCEdgeCandidates == {<<t1, s3>>, <<tk1, s2>>, <<tk2, s2>>, <<t1, s2>>, <<x, s2>>,
                     <<tc, s2>>}

MCCopies == {c0}
MCCopyEvents == [c \in MCCopies |-> <<t1, tc>>]
MCCopySrc == [c \in MCCopies |-> I0]
MCCopyDst == [c \in MCCopies |-> J]
MCCopyFieldRecords == {[start |-> t1, term |-> tc, fid |-> f],
                       [start |-> s1, term |-> t1, fid |-> g]}

MCTreeSpaces == {R, A, B}
MCTreeParts == {P}
MCTreeParent == [n \in {R, P, A, B} |-> CASE n = R -> NoNode [] n = P -> R [] OTHER -> P]
MCTreeDepth == [n \in {R, P, A, B} |-> CASE n = R -> 0 [] n = P -> 1 [] OTHER -> 2]
MCTreeDisjoint == [n \in {P} |-> TRUE]

Rq(p, n, fs) == [priv |-> p, node |-> n, fields |-> fs]
MCReq == [o \in MCTasks \cup MCCopyOps |->
            CASE o = op1 -> [i \in {0} |-> Rq("READ_WRITE", A, <<f>>)]
              [] o = op2 -> [i \in {0} |-> Rq("READ_ONLY", R, <<f>>)]
              [] o = k1 -> [i \in {0, 1} |-> IF i = 0 THEN Rq("READ_ONLY", B, <<g>>)
                                                      ELSE Rq("READ_WRITE", R, <<f>>)]
              [] o = k2 -> [i \in {0, 1} |-> IF i = 0 THEN Rq("READ_ONLY", R, <<f>>)
                                                      ELSE Rq("READ_WRITE", R, <<f>>)]
              [] OTHER -> [i \in {0, 1} |-> IF i = 0 THEN Rq("READ_ONLY", R, <<f>>)
                                                   ELSE Rq("WRITE_ONLY", R, <<f>>)]]
MCOpInst == [o \in MCTasks \cup MCCopyOps |->
               CASE o = op1 -> [i \in {0} |-> I0]
                 [] o = op2 -> [i \in {0} |-> J]
                 [] o = k3 -> [i \in {0, 1} |-> IF i = 0 THEN I0 ELSE I]
                 [] OTHER -> [i \in {0, 1} |-> IF i = 0 THEN I ELSE J]]

Dep(a, ia, b, ib, t) == [op1 |-> a, idx1 |-> ia, op2 |-> b, idx2 |-> ib, dtype |-> t]
MCDepCandidates ==
  { Dep(op1, 0, op2, 0, "TRUE_DEPENDENCE"),  \* the flow through k3 and k2
    Dep(op1, 0, op2, 0, "ANTI_DEPENDENCE"),  \* not a data-flow dependence
    Dep(op1, 0, k3, 0, "TRUE_DEPENDENCE"),   \* a copy read at its source
    Dep(op1, 0, k3, 1, "TRUE_DEPENDENCE"),   \* a WRITE_ONLY consumer
    Dep(op1, 0, k1, 0, "TRUE_DEPENDENCE") }  \* disjoint regions A and B
=============================================================================
