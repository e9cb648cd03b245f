----------------------------- MODULE MCRaceCheck -----------------------------
(***************************************************************************)
(* Model-checking instance of RaceCheck.  Three operations with their own  *)
(* start and termination events.  The trace may order o1 before o2 and o3, *)
(* o2 before o3, and implicitly o2 or o3 before o1, so orders, diamonds    *)
(* and cycles all occur.  o1 writes A, o2 reads all of R, o3 writes B:     *)
(* o1 and o3 never conflict, o2 conflicts with both.  One instance id may  *)
(* be created twice, so users can land in different versions.              *)
(***************************************************************************)
EXTENDS RaceCheck

CONSTANTS o1, o2, o3, s1, t1, s2, t2, s3, t3, i1, f1, R, P, A, B

MCOps == {o1, o2, o3}
MCEvents == {s1, t1, s2, t2, s3, t3}
MCOpEvents == [o \in MCOps |-> CASE o = o1 -> <<s1, t1>>
                                 [] o = o2 -> <<s2, t2>>
                                 [] OTHER  -> <<s3, t3>>]
MCPhysCandidates == {<<t1, s2>>, <<t2, s3>>, <<t1, s3>>}
MCImplCandidates == {<<t2, s1>>, <<t3, s1>>}

MCTreeSpaces == {R, A, B}
MCTreeParts == {P}
MCTreeParent == [n \in {R, P, A, B} |-> CASE n = R -> NoNode [] n = P -> R [] OTHER -> P]
MCTreeDepth == [n \in {R, P, A, B} |-> CASE n = R -> 0 [] n = P -> 1 [] OTHER -> 2]
MCTreeDisjoint == [n \in {P} |-> TRUE]

Excl(p) == [priv |-> p, coher |-> "EXCLUSIVE", redop |-> NoRedop]
MCOpReq == [o \in MCOps |->
              CASE o = o1 -> [acc |-> Excl("READ_WRITE"), node |-> A, fields |-> {f1}]
                [] o = o2 -> [acc |-> Excl("READ_ONLY"), node |-> R, fields |-> {f1}]
                [] OTHER  -> [acc |-> Excl("READ_WRITE"), node |-> B, fields |-> {f1}]]
=============================================================================
