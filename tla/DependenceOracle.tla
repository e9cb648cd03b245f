-------------------------- MODULE DependenceOracle --------------------------
(***************************************************************************)
(* The privilege / coherence dependence algebra of Legion Spy               *)
(* (tools/spy_analysis.py): the Requirement predicates and                  *)
(* compute_dependence_type with its helper check_for_anti_dependence.       *)
(*                                                                          *)
(* compute_dependence_type is a pure function; MCDependenceOracle makes     *)
(* TLC enumerate every ordered pair of requirement accesses.                *)
(* An `assert` of the code that fails is the outcome AssertFailed: the      *)
(* Python process stops with an AssertionError.                             *)
(***************************************************************************)
EXTENDS Naturals

CONSTANTS
  Redops,      \* reduction operator ids a REDUCE requirement may carry
  NoRedop      \* the redop recorded for a requirement that does not reduce

ASSUME NoRedop \notin Redops

\* The dependence types of legion_types.h, and the outcome of a failed assert.
NoDependence           == "NO_DEPENDENCE"
TrueDependence         == "TRUE_DEPENDENCE"
AntiDependence         == "ANTI_DEPENDENCE"
AtomicDependence       == "ATOMIC_DEPENDENCE"
SimultaneousDependence == "SIMULTANEOUS_DEPENDENCE"
AssertFailed           == "ASSERT_FAILED"

DependenceTypes == {NoDependence, TrueDependence, AntiDependence,
                    AtomicDependence, SimultaneousDependence}

Privileges == {"NO_ACCESS", "READ_ONLY", "READ_WRITE", "WRITE_ONLY", "REDUCE"}
Coherences == {"EXCLUSIVE", "ATOMIC", "SIMULTANEOUS", "RELAXED"}

\* The access part of a Requirement (priv, coher, redop); the redop of a
\* requirement that does not reduce is NoRedop.
Accesses ==
  {a \in [priv : Privileges, coher : Coherences, redop : Redops \cup {NoRedop}] :
     (a.priv = "REDUCE") <=> (a.redop # NoRedop)}

\* Requirement.is_read_only: NO_ACCESS counts as reading.
IsReadOnly(r)  == r.priv \in {"NO_ACCESS", "READ_ONLY"}
HasWrite(r)    == r.priv \in {"READ_WRITE", "REDUCE", "WRITE_ONLY"}
IsWriteOnly(r) == r.priv = "WRITE_ONLY"
IsReduce(r)    == r.priv = "REDUCE"

\* check_for_anti_dependence: the earlier requirement only reads, or the
\* later one only writes, so no value flows and the order is an anti one.
CheckForAntiDependence(req1, req2, actual) ==
  IF IsReadOnly(req1)
    THEN IF HasWrite(req2) THEN AntiDependence ELSE AssertFailed
    ELSE IF IsWriteOnly(req2) THEN AntiDependence ELSE actual

\* compute_dependence_type(req1, req2), req1 from the earlier operation.
\* Note the both-ATOMIC branch: the code passes req1 twice.
ComputeDependenceType(req1, req2) ==
  LET atomic1 == req1.coher = "ATOMIC"
      atomic2 == req2.coher = "ATOMIC"
      either(c) == req1.coher = c \/ req2.coher = c
  IN
  IF IsReadOnly(req1) /\ IsReadOnly(req2) THEN NoDependence
  ELSE IF IsReduce(req1) /\ IsReduce(req2)
    THEN IF req1.redop = req2.redop THEN NoDependence ELSE TrueDependence
  ELSE IF ~(HasWrite(req1) \/ HasWrite(req2)) THEN AssertFailed
  ELSE IF either("EXCLUSIVE")
    THEN CheckForAntiDependence(req1, req2, TrueDependence)
  ELSE IF either("ATOMIC")
    THEN IF atomic1 /\ atomic2
           THEN CheckForAntiDependence(req1, req1, AtomicDependence)
         ELSE IF (~atomic1 /\ IsReadOnly(req1)) \/ (~atomic2 /\ IsReadOnly(req2))
           THEN NoDependence
         ELSE CheckForAntiDependence(req1, req2, TrueDependence)
  ELSE IF either("SIMULTANEOUS")
    THEN CheckForAntiDependence(req1, req2, SimultaneousDependence)
  ELSE IF req1.coher = "RELAXED" /\ req2.coher = "RELAXED"
    THEN CheckForAntiDependence(req1, req2, SimultaneousDependence)
  ELSE AssertFailed

\* is_mapping_dependence: every type but NO_DEPENDENCE orders the two.
IsMappingDependence(dtype) == dtype # NoDependence

(***************************************************************************)
(* The algebra as the design document states it: after the read/read and   *)
(* reduce/reduce cases, the strongest coherence of either side decides,    *)
(* and every branch uses the same anti downgrade on (req1, req2).          *)
(***************************************************************************)
SpecAnti(req1, req2, actual) ==
  IF IsReadOnly(req1) \/ IsWriteOnly(req2) THEN AntiDependence ELSE actual

SpecDependenceType(req1, req2) ==
  LET atomic1 == req1.coher = "ATOMIC"
      atomic2 == req2.coher = "ATOMIC"
      either(c) == req1.coher = c \/ req2.coher = c
  IN
  IF IsReadOnly(req1) /\ IsReadOnly(req2) THEN NoDependence
  ELSE IF IsReduce(req1) /\ IsReduce(req2)
    THEN IF req1.redop = req2.redop THEN NoDependence ELSE TrueDependence
  ELSE IF either("EXCLUSIVE") THEN SpecAnti(req1, req2, TrueDependence)
  ELSE IF atomic1 /\ atomic2 THEN SpecAnti(req1, req2, AtomicDependence)
  ELSE IF either("ATOMIC")
    THEN IF (~atomic1 /\ IsReadOnly(req1)) \/ (~atomic2 /\ IsReadOnly(req2))
           THEN NoDependence
           ELSE SpecAnti(req1, req2, TrueDependence)
  ELSE SpecAnti(req1, req2, SimultaneousDependence)

=============================================================================
