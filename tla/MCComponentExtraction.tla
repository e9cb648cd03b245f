------------------------ MODULE MCComponentExtraction ------------------------
EXTENDS ComponentExtraction

(***************************************************************************)
(* Two tasks t1 (uid 1) and t2 (uid 2) chained through e1, a copy-across  *)
(* op k (uid 3), a mapping m (uid 4) and one Copy object c made by         *)
(* add_copy_events.  t1 and k start at the event with uid 0.  Without      *)
(* further orderings the graph has the components {t1, e1, t2, e2, c, e3} *)
(* and {k, e4, m}; the candidate orderings join them, or link through the *)
(* non-existent event.                                                     *)
(***************************************************************************)
MCUnits == {"t1", "t2", "k", "m", "c"}

MCContainer ==
  [u \in MCUnits |-> CASE u \in {"t1", "t2"} -> "tasks"
                       [] u \in {"k", "c"}   -> "copies"
                       [] u = "m"            -> "maps"]

MCUnitEvents ==
  [u \in MCUnits |-> CASE u = "t1" -> <<"e0", "e1">>
                       [] u = "t2" -> <<"e1", "e2">>
                       [] u = "c"  -> <<"e2", "e3">>
                       [] u = "k"  -> <<"e0", "e4">>
                       [] u = "m"  -> <<"e4", "e5">>]

MCEdgeCandidates == {<<"e3", "e4">>, <<"e0", "e2">>, <<"e5", "e1">>}

\* The Copy is the first one add_copy_events numbers: copy_uid 1.
KeyFirstCopy == [u \in MCUnits |-> CASE u = "t1" -> 1 [] u = "t2" -> 2
                                     [] u = "k" -> 3 [] u = "m" -> 4
                                     [] u = "c" -> 1]

\* The Copy is the third one numbered, and shares uid 3 with the CopyOp k.
KeyThirdCopy == [KeyFirstCopy EXCEPT !["c"] = 3]
====
