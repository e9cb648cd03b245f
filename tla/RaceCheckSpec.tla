---------------------------- MODULE RaceCheckSpec ----------------------------
(***************************************************************************)
(* What the instance race check promises (design document, section 5 and   *)
(* the example of section 8), in one step: once the trace is loaded, a     *)
(* pair of operations that use one physical instance with conflicting      *)
(* requirements on a field is reported exactly when neither operation is   *)
(* ordered before the other by the event graph.                            *)
(*                                                                         *)
(* ordered and conflicts are what the loaded trace determines: the pairs   *)
(* <<a, b>> such that b precedes a in the event graph (b is reached from a *)
(* going backwards), and the triples <<op1, op2, field>> of users of one   *)
(* instance whose requirements conflict.  The trace is loaded by steps     *)
(* this module does not restrict; only the check is specified.            *)
(***************************************************************************)
CONSTANTS Ops, Fields

VARIABLES ordered, conflicts, reported, phase

vars == <<ordered, conflicts, reported, phase>>

Init ==
  /\ ordered \in SUBSET (Ops \X Ops)
  /\ conflicts \in SUBSET (Ops \X Ops \X Fields)
  /\ reported = {}
  /\ phase = "ingest"

\* A trace record arrives.
Load ==
  /\ phase = "ingest"
  /\ ordered' \in SUBSET (Ops \X Ops)
  /\ conflicts' \in SUBSET (Ops \X Ops \X Fields)
  /\ UNCHANGED <<reported, phase>>

\* The check: every conflict between two mutually unordered users.
Check ==
  /\ phase = "ingest"
  /\ phase' = "done"
  /\ reported' = {c \in conflicts : /\ <<c[1], c[2]>> \notin ordered
                                    /\ <<c[2], c[1]>> \notin ordered}
  /\ UNCHANGED <<ordered, conflicts>>

Next == Load \/ Check

Spec == Init /\ [][Next]_vars

=============================================================================
