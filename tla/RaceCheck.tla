------------------------------ MODULE RaceCheck ------------------------------
(***************************************************************************)
(* The event graph of Legion Spy and the instance race check,             *)
(* tools/spy_analysis.py:                                                  *)
(*                                                                         *)
(*  - ingestion: State.add_op_events, add_event_dependence,                *)
(*    add_implicit_dependence (with get_event_from_id), add_physical_      *)
(*    instance and add_reduction_instance (versions of an id), add_op_user;*)
(*  - State.check_instance_dependences: for every version of every         *)
(*    instance, every field and every ordered pair of distinct users whose *)
(*    requirements give a TRUE or ANTI dependence, a backward traversal    *)
(*    from op2 looking for op1, then, with a fresh generation, one from    *)
(*    op1 looking for op2; a race is reported when neither finds the other.*)
(*  - EventGraphTraverser with forwards = False, implicit = True,          *)
(*    use_gen = True: a node whose generation equals the traverser's is    *)
(*    skipped, otherwise it is stamped and, unless the callback stops, its *)
(*    predecessors are visited: the start event of an operation, the       *)
(*    physical and implicit incoming edges of an event.                    *)
(*                                                                         *)
(* The traversal is recursive in the code; it is modelled one visit at a   *)
(* time with a stack of the sets of predecessors still to visit.  Python   *)
(* iterates those sets in an order the model does not fix.  A stack deeper *)
(* than RecursionLimit stands for Python's recursion limit: the process    *)
(* dies with a RuntimeError.                                               *)
(*                                                                         *)
(* Every operation has one requirement (index 0), OpReq[op].  The          *)
(* outgoing edge sets are recorded by the code but never read by the       *)
(* checks; only incoming ones are kept.                                    *)
(***************************************************************************)
EXTENDS Naturals, Sequences, FiniteSets

CONSTANTS
  Ops,            \* operations that may use instances
  Events,         \* event handles (id, generation) of the trace
  NoEvent,        \* start_event / term_event before add_op_events
  OpEvents,       \* op -> <<start, term>> the runtime recorded for it
  PhysCandidates, \* event pairs the trace may order physically
  ImplCandidates, \* event pairs the trace may order implicitly
  Iids,           \* physical instance ids
  VersionBound,   \* instances re-created under one id, at most
  Fields,
  OpReq,          \* op -> its requirement [acc, node, fields]
  NoInst,         \* op.instances[0] before add_op_user
  RecursionLimit, \* traversal depth at which Python gives up
  Redops, NoRedop,
  TreeSpaces, TreeParts, TreeParent, TreeDepth, TreeDisjoint, NoNode

Nodes == Ops \cup Events

Oracle == INSTANCE DependenceOracle

Tree == INSTANCE RegionTree WITH
          SpaceIds <- TreeSpaces, PartIds <- TreeParts, TreeIds <- {},
          Points <- {}, FieldSpaceIds <- {}, FieldIds <- {}, None <- NoNode,
          ispaces <- TreeSpaces, iparts <- TreeParts, parent <- TreeParent,
          depth <- TreeDepth, disjoint <- TreeDisjoint,
          instances <- [n \in TreeSpaces \cup TreeParts |-> {}],
          regionTrees <- [t \in {} |-> NoNode],
          extent <- [n \in TreeSpaces \cup TreeParts |-> {}],
          fspaces <- {}, fields <- [f \in {} |-> {}],
          treeField <- [t \in {} |-> NoNode], named <- {}

VARIABLES
  events,        \* State.events: the events created so far
  startEv,       \* op.start_event
  termEv,        \* op.term_event
  physIn,        \* event.physical_incoming: events and operations
  implIn,        \* event.implicit_incoming
  versions,      \* State.instances[iid]: versions, each field -> op_users
  opInst,        \* op.instances[0]: <<iid, version>> or NoInst
  traverserGen,  \* State.traverser_gen
  generation,    \* node.generation of every operation and event
  phase,         \* "ingest", "check", "done", "crashed"
  pending,       \* conflicting user pairs the loops have still to examine
  item,          \* the pair being examined
  pass,          \* "idle", "first" (op2 -> op1), "second" (op1 -> op2)
  target,        \* traverser.target
  curGen,        \* traverser.generation
  found,         \* traverser.found
  stack,         \* the recursion: sets of nodes still to visit per level
  reports        \* "Potential data race" ERRORs, in order

ingestVars == <<events, startEv, termEv, physIn, implIn, versions, opInst>>
checkVars == <<traverserGen, generation, phase, pending, item, pass, target,
               curGen, found, stack, reports>>
vars == <<ingestVars, checkVars>>

\* State.compute_dependence with one field set per requirement.
ComputeDependence(r1, r2) ==
  IF r1.fields \cap r2.fields = {} THEN Oracle!NoDependence
  ELSE IF ~Tree!IsAliased(r1.node, r2.node) THEN Oracle!NoDependence
  ELSE Oracle!ComputeDependenceType(r1.acc, r2.acc)

\* The nodes a backward visit goes on to.
Pred(n) ==
  IF n \in Ops THEN IF startEv[n] = NoEvent THEN {} ELSE {startEv[n]}
  ELSE physIn[n] \cup implIn[n]

\* The pairs whose requirements give a TRUE or ANTI dependence; OpReq is
\* fixed, so this is a constant.
Dependent ==
  {p \in Ops \X Ops : ComputeDependence(OpReq[p[1]], OpReq[p[2]])
                        \in {Oracle!TrueDependence, Oracle!AntiDependence}}

\* The work of the nested loops: every ordered pair of distinct users of a
\* field of one instance version whose dependence is TRUE or ANTI.
Conflicts ==
  {c \in [iid : Iids, ver : 1..VersionBound, field : Fields, op1 : Ops, op2 : Ops] :
     /\ c.ver <= Len(versions[c.iid])
     /\ {c.op1, c.op2} \subseteq versions[c.iid][c.ver][c.field]
     /\ c.op1 # c.op2
     /\ <<c.op1, c.op2>> \in Dependent}

\* Every operation that uses an instance has had its events recorded.
UsersHaveEvents ==
  \A o \in Ops : opInst[o] # NoInst => startEv[o] # NoEvent

-----------------------------------------------------------------------------
Init ==
  /\ events = {}
  /\ startEv = [o \in Ops |-> NoEvent]
  /\ termEv = [o \in Ops |-> NoEvent]
  /\ physIn = [e \in Events |-> {}]
  /\ implIn = [e \in Events |-> {}]
  /\ versions = [i \in Iids |-> <<>>]
  /\ opInst = [o \in Ops |-> NoInst]
  /\ traverserGen = 1
  /\ generation = [n \in Nodes |-> 0]
  /\ phase = "ingest"
  /\ pending = {}
  /\ item = [iid |-> NoInst, ver |-> 0, field |-> NoInst, op1 |-> NoInst, op2 |-> NoInst]
  /\ pass = "idle"
  /\ target = NoInst
  /\ curGen = 0
  /\ found = FALSE
  /\ stack = <<>>
  /\ reports = <<>>

\* SingleTask.add_events (every class alike): asserts the op has no events
\* yet, so only an op's first record is enumerated.
EventsUnset(op) == startEv[op] = NoEvent

\* State.get_event_from_id on each id of ids: the event of a handle already
\* in State.events is returned, a new Event is created otherwise, so a
\* second record naming an event never duplicates it.  Phase barrier
\* handles are events like any other for the race check.
GetEventsFromIds(ids) == events \cup ids

\* State.add_op_events: get_event_from_id creates the two events if new;
\* the op becomes a physical incoming node of its termination event.  A
\* second record for one op fails the assert of add_events.
AddOpEvents(op) ==
  /\ phase = "ingest"
  /\ EventsUnset(op)
  /\ events' = GetEventsFromIds({OpEvents[op][1], OpEvents[op][2]})
  /\ physIn' = [physIn EXCEPT ![OpEvents[op][2]] = @ \cup {op}]
  /\ startEv' = [startEv EXCEPT ![op] = OpEvents[op][1]]
  /\ termEv' = [termEv EXCEPT ![op] = OpEvents[op][2]]
  /\ UNCHANGED <<implIn, versions, opInst, checkVars>>

\* State.add_event_dependence: e1 precedes e2.
AddEventDependence(e1, e2) ==
  /\ phase = "ingest"
  /\ <<e1, e2>> \in PhysCandidates
  /\ events' = GetEventsFromIds({e1, e2})
  /\ physIn' = [physIn EXCEPT ![e2] = @ \cup {e1}]
  /\ UNCHANGED <<startEv, termEv, implIn, versions, opInst, checkVars>>

\* State.add_implicit_dependence: an ordering the race check may assume.
AddImplicitDependence(e1, e2) ==
  /\ phase = "ingest"
  /\ <<e1, e2>> \in ImplCandidates
  /\ events' = GetEventsFromIds({e1, e2})
  /\ implIn' = [implIn EXCEPT ![e2] = @ \cup {e1}]
  /\ UNCHANGED <<startEv, termEv, physIn, versions, opInst, checkVars>>

\* PhysicalInstance.__init__ (ReductionInstance alike): no users yet.
NewVersion == [f \in Fields |-> {}]

\* PhysicalInstance.add_op_user (ReductionInstance alike): op becomes a user
\* of every field of its requirement (op_users[field][op] gains the req).
AddUsers(ver, op) ==
  [f \in Fields |-> IF f \in OpReq[op].fields THEN ver[f] \cup {op} ELSE ver[f]]

\* State.add_physical_instance: a record for a known id opens a new version.
AddPhysicalInstance(iid) ==
  /\ phase = "ingest"
  /\ Len(versions[iid]) < VersionBound
  /\ versions' = [versions EXCEPT ![iid] = Append(@, NewVersion)]
  /\ UNCHANGED <<events, startEv, termEv, physIn, implIn, opInst, checkVars>>

\* State.add_reduction_instance: a ReductionInstance goes into the same
\* State.instances lists, so the race check treats it as any version.
AddReductionInstance(iid) ==
  /\ phase = "ingest"
  /\ Len(versions[iid]) < VersionBound
  /\ versions' = [versions EXCEPT ![iid] = Append(@, NewVersion)]
  /\ UNCHANGED <<events, startEv, termEv, physIn, implIn, opInst, checkVars>>

\* State.add_op_user: the op becomes a user of the latest version, and the
\* op records the instance (add_instance asserts it had none).
AddOpUser(op, iid) ==
  /\ phase = "ingest"
  /\ versions[iid] # <<>>
  /\ opInst[op] = NoInst
  /\ LET v == Len(versions[iid])
     IN  /\ versions' = [versions EXCEPT ![iid][v] = AddUsers(@, op)]
         /\ opInst' = [opInst EXCEPT ![op] = <<iid, v>>]
  /\ UNCHANGED <<events, startEv, termEv, physIn, implIn, checkVars>>

-----------------------------------------------------------------------------
(***************************************************************************)
(* State.check_instance_dependences                                        *)
(***************************************************************************)

\* Entry: the loops will meet every conflicting pair once.
StartCheck ==
  /\ phase = "ingest"
  /\ phase' = "check"
  /\ pending' = Conflicts
  /\ UNCHANGED <<ingestVars, traverserGen, generation, item, pass, target,
                 curGen, found, stack, reports>>

\* Mutant: get_next_traverser_gen hands out the counter without advancing it.
NextPairNoIncrement ==
  /\ phase = "check"
  /\ pass = "idle"
  /\ \E c \in pending :
       /\ pending' = pending \ {c}
       /\ item' = c
       /\ target' = c.op1
       /\ stack' = <<{c.op2}>>
  /\ curGen' = traverserGen
  /\ traverserGen' = traverserGen
  /\ found' = FALSE
  /\ pass' = "first"
  /\ UNCHANGED <<ingestVars, generation, phase, reports>>

\* A new traverser with a fresh generation; op2.event_graph_traverse.
NextPair ==
  /\ phase = "check"
  /\ pass = "idle"
  /\ \E c \in pending :
       /\ pending' = pending \ {c}
       /\ item' = c
       /\ target' = c.op1
       /\ stack' = <<{c.op2}>>
  /\ curGen' = traverserGen
  /\ traverserGen' = traverserGen + 1
  /\ found' = FALSE
  /\ pass' = "first"
  /\ UNCHANGED <<ingestVars, generation, phase, reports>>

\* Mutant: a traverser built with use_gen = False never skips a node.
VisitIgnoringGeneration ==
  /\ phase = "check"
  /\ stack # <<>>
  /\ \E c \in stack[Len(stack)] :
       LET rest == [stack EXCEPT ![Len(stack)] = @ \ {c}]
           stop == found \/ (c \in Ops /\ c = target)
       IN  /\ generation' = [generation EXCEPT ![c] = curGen]
           /\ found' = stop
           /\ IF stop THEN stack' = rest /\ UNCHANGED phase
              ELSE IF (c \in Ops /\ startEv[c] = NoEvent)
                     \/ Len(stack) >= RecursionLimit
              THEN phase' = "crashed" /\ UNCHANGED stack
              ELSE stack' = Append(rest, Pred(c)) /\ UNCHANGED phase
  /\ UNCHANGED <<ingestVars, traverserGen, pending, item, pass, target,
                 curGen, reports>>

\* EventGraphTraverser.visit_event with use_gen: skip an event stamped with
\* this generation; otherwise stamp it and run traverse_event, which stops
\* once found; unless it stopped, go on to the incoming physical and
\* implicit edges.
VisitEvent ==
  /\ phase = "check"
  /\ stack # <<>>
  /\ \E c \in stack[Len(stack)] \cap Events :
       LET rest == [stack EXCEPT ![Len(stack)] = @ \ {c}]
       IN  IF generation[c] = curGen
           THEN /\ stack' = rest
                /\ UNCHANGED <<generation, phase>>
           ELSE /\ generation' = [generation EXCEPT ![c] = curGen]
                /\ IF found THEN stack' = rest /\ UNCHANGED phase
                   ELSE IF Len(stack) >= RecursionLimit
                   THEN phase' = "crashed" /\ UNCHANGED stack
                   ELSE stack' = Append(rest, Pred(c)) /\ UNCHANGED phase
  /\ UNCHANGED <<ingestVars, traverserGen, pending, item, pass, target,
                 curGen, found, reports>>

\* EventGraphTraverser.visit_task (visit_mapping ... visit_release alike):
\* skip an operation stamped with this generation; otherwise stamp it and
\* run traverse_op, which sets found when the node is the target and stops
\* once found; unless it stopped, go on to the start event.  An operation
\* without a start event makes the code call None.event_graph_traverse
\* and die.
VisitOp ==
  /\ phase = "check"
  /\ stack # <<>>
  /\ \E c \in stack[Len(stack)] \cap Ops :
       LET rest == [stack EXCEPT ![Len(stack)] = @ \ {c}]
           stop == found \/ c = target
       IN  IF generation[c] = curGen
           THEN /\ stack' = rest
                /\ UNCHANGED <<generation, found, phase>>
           ELSE /\ generation' = [generation EXCEPT ![c] = curGen]
                /\ found' = stop
                /\ IF stop THEN stack' = rest /\ UNCHANGED phase
                   ELSE IF startEv[c] = NoEvent \/ Len(stack) >= RecursionLimit
                   THEN phase' = "crashed" /\ UNCHANGED stack
                   ELSE stack' = Append(rest, Pred(c)) /\ UNCHANGED phase
  /\ UNCHANGED <<ingestVars, traverserGen, pending, item, pass, target,
                 curGen, reports>>

\* n.event_graph_traverse(traverser): the visitor of the node's class.
Visit == VisitEvent \/ VisitOp

\* A visit returns when its predecessors are done.
Return ==
  /\ phase = "check"
  /\ stack # <<>>
  /\ stack[Len(stack)] = {}
  /\ stack' = SubSeq(stack, 1, Len(stack) - 1)
  /\ UNCHANGED <<ingestVars, traverserGen, generation, phase, pending, item,
                 pass, target, curGen, found, reports>>

\* Mutant: the flipped traversal keeps the first traversal's generation.
FlipSameGeneration ==
  /\ phase = "check"
  /\ pass = "first"
  /\ stack = <<>>
  /\ ~found
  /\ pass' = "second"
  /\ target' = item.op2
  /\ stack' = <<{item.op1}>>
  /\ UNCHANGED <<ingestVars, traverserGen, generation, phase, pending, item,
                 curGen, found, reports>>

\* op1 was not found from op2: look for op2 from op1, new generation.
Flip ==
  /\ phase = "check"
  /\ pass = "first"
  /\ stack = <<>>
  /\ ~found
  /\ pass' = "second"
  /\ target' = item.op2
  /\ curGen' = traverserGen
  /\ traverserGen' = traverserGen + 1
  /\ found' = FALSE
  /\ stack' = <<{item.op1}>>
  /\ UNCHANGED <<ingestVars, generation, phase, pending, item, reports>>

\* Mutant: a pair not ordered from op2 back to op1 is reported without the
\* flipped traversal.
FinishPairOneWay ==
  /\ phase = "check"
  /\ pass \in {"first", "second"}
  /\ stack = <<>>
  /\ reports' = IF found THEN reports ELSE Append(reports, item)
  /\ pass' = "idle"
  /\ UNCHANGED <<ingestVars, traverserGen, generation, phase, pending, item,
                 target, curGen, found, stack>>

\* The pair is done: ordered one way, or reported as a race.
FinishPair ==
  /\ phase = "check"
  /\ pass \in {"first", "second"}
  /\ stack = <<>>
  /\ pass = "first" => found
  /\ reports' = IF found THEN reports ELSE Append(reports, item)
  /\ pass' = "idle"
  /\ UNCHANGED <<ingestVars, traverserGen, generation, phase, pending, item,
                 target, curGen, found, stack>>

EndCheck ==
  /\ phase = "check"
  /\ pass = "idle"
  /\ pending = {}
  /\ phase' = "done"
  /\ UNCHANGED <<ingestVars, traverserGen, generation, pending, item, pass,
                 target, curGen, found, stack, reports>>

Next ==
  \/ \E op \in Ops : AddOpEvents(op)
  \/ \E e1, e2 \in Events : AddEventDependence(e1, e2)
  \/ \E e1, e2 \in Events : AddImplicitDependence(e1, e2)
  \/ \E iid \in Iids : AddPhysicalInstance(iid)
  \/ \E iid \in Iids : AddReductionInstance(iid)
  \/ \E op \in Ops, iid \in Iids : AddOpUser(op, iid)
  \/ StartCheck
  \/ NextPair
  \/ Visit
  \/ Return
  \/ Flip
  \/ FinishPair
  \/ EndCheck

\* One thread runs check_instance_dependences to its end once called.
Fairness == WF_vars(NextPair \/ Visit \/ Return \/ Flip \/ FinishPair \/ EndCheck)

Spec == Init /\ [][Next]_vars /\ Fairness

-----------------------------------------------------------------------------
TypeOK ==
  /\ events \subseteq Events
  /\ startEv \in [Ops -> Events \cup {NoEvent}]
  /\ physIn \in [Events -> SUBSET Nodes] /\ implIn \in [Events -> SUBSET Events]
  /\ opInst \in [Ops -> (Iids \X (1..VersionBound)) \cup {NoInst}]
  /\ traverserGen \in Nat \ {0}
  \* a node only carries a generation already handed out
  /\ generation \in [Nodes -> 0..(traverserGen - 1)]
  /\ phase \in {"ingest", "check", "done", "crashed"}
  /\ pass \in {"idle", "first", "second"}
  /\ stack \in Seq(SUBSET Nodes)

\* The nodes a backward traversal from n could reach if it never stopped:
\* n and its predecessors, iterated to a fixed point.
BackwardReach(n) ==
  LET R[k \in 0..Cardinality(Nodes)] ==
        IF k = 0 THEN {n} ELSE UNION {{m} \cup Pred(m) : m \in R[k-1]}
  IN  R[Cardinality(Nodes)]

Abstract == INSTANCE RaceCheckSpec WITH
  Ops <- Ops, Fields <- Fields,
  ordered <- {p \in Ops \X Ops : p[2] \in BackwardReach(p[1])},
  conflicts <- {<<c.op1, c.op2, c.field>> : c \in Conflicts},
  reported <- IF phase = "done"
              THEN {<<reports[i].op1, reports[i].op2, reports[i].field>> :
                      i \in 1..Len(reports)}
              ELSE {},
  phase <- IF phase = "done" THEN "done" ELSE "ingest"

(***************************************************************************)
(* The generation-stamped traversals decide reachability: a finished check *)
(* has reported exactly the conflicting pairs of users that the event      *)
(* graph, implicit edges included, leaves unordered in both directions, in *)
(* any order of trace records and of set iteration, although all pairs     *)
(* share one graph and one generation field per node.                     *)
(***************************************************************************)
ImplementsRaceSpec == Abstract!Spec

(***************************************************************************)
(* check_instance_dependences terminates, cycles of implicit orderings     *)
(* included, whenever every user has its events: the generation stamps     *)
(* stop each traversal from revisiting a node.                             *)
(***************************************************************************)
RaceCheckTerminates ==
  (phase = "check" /\ UsersHaveEvents) ~> (phase = "done")

(***************************************************************************)
(* Every "Potential data race" ERROR printed so far names two conflicting  *)
(* users of one field that the event graph leaves unordered both ways, in  *)
(* every state, also when the check dies half way (a user without events   *)
(* makes visit_task call None.event_graph_traverse): the part of the       *)
(* report a crash leaves behind is true.                                   *)
(***************************************************************************)
ReportsAreRaces ==
  \A i \in 1..Len(reports) :
    /\ reports[i] \in Conflicts
    /\ reports[i].op1 \notin BackwardReach(reports[i].op2)
    /\ reports[i].op2 \notin BackwardReach(reports[i].op1)

(***************************************************************************)
(* Design section 8: with no path in either direction between two          *)
(* conflicting accesses, exactly one race is reported.  The code visits    *)
(* the pair as (op1, op2) and as (op2, op1).                               *)
(***************************************************************************)
RaceReportedOnce ==
  phase = "done" =>
    \A i, j \in 1..Len(reports) :
      (i # j /\ reports[i].field = reports[j].field
             /\ reports[i].iid = reports[j].iid /\ reports[i].ver = reports[j].ver)
        => {reports[i].op1, reports[i].op2} # {reports[j].op1, reports[j].op2}

=============================================================================
