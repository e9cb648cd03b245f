------------------------------ MODULE DataFlow ------------------------------
(***************************************************************************)
(* The physical data-flow check of Legion Spy, SingleTask.check_data_flow  *)
(* in tools/spy_analysis.py, over one context.                             *)
(*                                                                         *)
(* For every claimed TRUE_DEPENDENCE (op1, idx1) -> (op2, idx2), every     *)
(* field the two requirements share, unless the consumer's requirement is  *)
(* WRITE_ONLY or REDUCE or the two regions are not aliased, a backward     *)
(* traversal of the event graph starts at op2 with the pair (instance,     *)
(* field) that op2 read on a stack.  Events and tasks pass the traversal   *)
(* on; a copy operation passes it on only when its destination is the      *)
(* instance and field on top of the stack, and then pushes its source.    *)
(* Reaching op1 is success; otherwise an ERROR is printed.  A low-level    *)
(* Copy object (add_copy_events) is a copy node too: its one field list,   *)
(* filled by add_copy_field_to_copy_event, serves as source and            *)
(* destination fields.                                                     *)
(*                                                                         *)
(* The traverser is built with use_gen = False: instead of generation      *)
(* stamps, the callbacks keep a dict visited from each node to the         *)
(* instances that were on top of the stack when it was reached, and a      *)
(* node already reached under the same instance stops the visit.           *)
(*                                                                         *)
(* The recursion is a stack of frames [node, todo]; Python iterates the    *)
(* sets of predecessors in an order the model does not fix.  The physical  *)
(* event graph of an execution is acyclic, and the recursion is as deep as *)
(* its longest path, far below Python's limit.                             *)
(***************************************************************************)
EXTENDS Naturals, FiniteSets, SequencesExt

CONSTANTS
  Tasks,          \* single tasks (mappings and closes visit alike)
  CopyOps,        \* copy-across operations: requirement 0 source, 1 destination
  Events,
  Insts,          \* physical instances
  FieldIds,
  NoNode,
  OpEvents,       \* op -> <<start event, termination event>>
  EdgeCandidates, \* <<e1, e2>>: the trace may order event e1 before e2
  Req,            \* op -> idx -> [priv, node, fields: a sequence of field ids]
  OpInst,         \* op -> idx -> the instance add_op_user recorded
  DepCandidates,  \* [op1, idx1, op2, idx2, dtype] the runtime may claim
  Copies,         \* low-level Copy objects (add_copy_events)
  CopyEvents,     \* copy -> <<start event, termination event>>
  CopySrc,        \* copy -> source instance
  CopyDst,        \* copy -> destination instance
  CopyFieldRecords, \* [start, term, fid]: the trace's copy-field records
  Redops, NoRedop,
  TreeSpaces, TreeParts, TreeParent, TreeDepth, TreeDisjoint

Ops == Tasks \cup CopyOps
CopyNodes == CopyOps \cup Copies
Nodes == Ops \cup Copies \cup Events

Oracle == INSTANCE DependenceOracle

Tree == INSTANCE RegionTree WITH
          SpaceIds <- TreeSpaces, PartIds <- TreeParts, TreeIds <- {},
          Points <- {}, FieldSpaceIds <- {}, FieldIds <- {}, None <- NoNode,
          ispaces <- TreeSpaces, iparts <- TreeParts, parent <- TreeParent,
          depth <- TreeDepth, disjoint <- TreeDisjoint,
          instances <- [n \in TreeSpaces \cup TreeParts |-> {}],
          regionTrees <- [t \in {} |-> NoNode],
          extent <- [n \in TreeSpaces \cup TreeParts |-> {}],
          fspaces <- {}, fields <- [f \in {} |-> {}],
          treeField <- [t \in {} |-> NoNode], named <- {}

VARIABLES
  physIn,      \* event.physical_incoming
  copyFields,  \* Copy.fields, as a set: source and destination alike
  mdeps,       \* the context's claimed mapping dependences
  phase,       \* "check", "done"
  pending,     \* the (dependence, field) traversals still to run
  item,        \* the traversal running
  target,      \* traverser.target
  found,       \* traverser.found
  instStack,   \* traverser.instance_stack
  fieldStack,  \* traverser.field_stack
  visited,     \* traverser.visited as a set of <<node, instance>>
  stack,       \* the recursion
  errors       \* the items an ERROR was printed for

vars == <<physIn, copyFields, mdeps, phase, pending, item, target, found, instStack,
          fieldStack, visited, stack, errors>>

StartEvent(op) == OpEvents[op][1]
\* Copy.start_event, which visit_copy goes on to.
CopyStart(c) == CopyEvents[c][1]
SrcInst(k) == OpInst[k][0]
DstInst(k) == OpInst[k][1]
SrcFields(k) == Req[k][0].fields
DstFields(k) == Req[k][1].fields

\* The field a copy reads for field f of its destination: the source field
\* at the position of f in the destination list (dst_fields.index(f)).
SrcFieldFor(k, f) == SrcFields(k)[SelectInSeq(DstFields(k), LAMBDA x : x = f)]

\* The dependences the loops traverse for: claimed TRUE dependences whose
\* consumer requirement is neither WRITE_ONLY nor REDUCE, on aliased regions.
Checked(deps) ==
  {d \in deps : /\ d.dtype = Oracle!TrueDependence
                /\ Req[d.op2][d.idx2].priv \notin {"REDUCE", "WRITE_ONLY"}
                /\ Tree!IsAliased(Req[d.op1][d.idx1].node, Req[d.op2][d.idx2].node)}

\* One traversal per checked dependence and field the requirements share.
Items(deps) ==
  UNION {{[dep |-> d, f |-> f] :
            f \in ToSet(Req[d.op1][d.idx1].fields) \cap ToSet(Req[d.op2][d.idx2].fields)} :
         d \in Checked(deps)}

\* Where the traversal starts: the consumer's instance and the field, except
\* that a copy read through its source requirement starts at the
\* corresponding field of its destination ("a hack for copy operations").
StartPoint(it) ==
  LET op2 == it.dep.op2
      inst == OpInst[op2][it.dep.idx2]
  IN  IF op2 \in CopyOps /\ inst = SrcInst(op2) /\ it.f \in ToSet(SrcFields(op2))
      THEN <<DstInst(op2),
             DstFields(op2)[SelectInSeq(SrcFields(op2), LAMBDA x : x = it.f)]>>
      ELSE <<inst, it.f>>

NoItem == [dep |-> NoNode, f |-> NoNode]

-----------------------------------------------------------------------------
\* add_copy_events: the copy is a physical incoming node of its
\* termination event (e2.add_physical_incoming(copy)).
CopiesEndingAt(e) == {c \in Copies : CopyEvents[c][2] = e}

\* add_copy_field_to_copy_event(startid, startgen, termid, termgen, fid):
\* the field goes to the first Copy that Python's set iteration yields
\* among the incoming nodes of the termination event; the start event is
\* not looked at, and with no such copy the record returns False.  Each
\* record thus gives its field to one copy ending at its termination event.
CopyFieldOutcomes ==
  { [c \in Copies |-> {r.fid : r \in {q \in CopyFieldRecords : owner[q] = c}}] :
      owner \in {o \in [CopyFieldRecords -> Copies \cup {NoNode}] :
                   \A r \in CopyFieldRecords :
                     IF CopiesEndingAt(r.term) = {} THEN o[r] = NoNode
                     ELSE o[r] \in CopiesEndingAt(r.term)} }

\* The loaded trace: the termination event of every op has the op as a
\* physical incoming node (add_op_events); event orderings are any subset
\* of the candidates; the claims any subset of the candidates.
Init ==
  /\ \E E \in SUBSET EdgeCandidates :
       physIn = [e \in Events |-> {o \in Ops : OpEvents[o][2] = e}
                                  \cup CopiesEndingAt(e)
                                  \cup {p[1] : p \in {q \in E : q[2] = e}}]
  /\ copyFields \in CopyFieldOutcomes
  /\ mdeps \in SUBSET DepCandidates
  /\ phase = "check"
  /\ pending = Items(mdeps)
  /\ item = NoItem
  /\ target = NoNode
  /\ found = FALSE
  /\ instStack = <<>>
  /\ fieldStack = <<>>
  /\ visited = {}
  /\ stack = <<>>
  /\ errors = {}

\* A new traverser for the next dependence and field: target op1, the
\* start point on the stacks, an empty visited dict; op2 is visited first.
StartItem ==
  /\ phase = "check"
  /\ stack = <<>>
  /\ item = NoItem
  /\ \E it \in pending :
       /\ pending' = pending \ {it}
       /\ item' = it
       /\ target' = it.dep.op1
       /\ instStack' = <<StartPoint(it)[1]>>
       /\ fieldStack' = <<StartPoint(it)[2]>>
       /\ stack' = <<[node |-> NoNode, todo |-> {it.dep.op2}]>>
  /\ found' = FALSE
  /\ visited' = {}
  /\ UNCHANGED <<physIn, copyFields, mdeps, phase, errors>>

\* The nodes a backward visit goes on to.
Pred(n) == IF n \in Ops THEN {StartEvent(n)}
           ELSE IF n \in Copies THEN {CopyStart(n)}
           ELSE physIn[n]

\* node.get_dst_inst(), get_dst_fields() and get_src_inst() of a copy node,
\* a CopyOp or a Copy; a Copy's source and destination field lists are
\* one list, so the field it reads is the field sought.
DstInstOf(k) == IF k \in Copies THEN CopyDst[k] ELSE DstInst(k)
DstFieldSet(k) == IF k \in Copies THEN copyFields[k] ELSE ToSet(DstFields(k))
SrcInstOf(k) == IF k \in Copies THEN CopySrc[k] ELSE SrcInst(k)
SrcFieldOf(k, fd) == IF k \in Copies THEN fd ELSE SrcFieldFor(k, fd)

\* Mutant: the copy callback compares fields only.
MatchesFieldOnly(k) == Last(fieldStack) \in DstFieldSet(k)

\* Whether a copy's destination is the instance and field sought.
Matches(k) == Last(instStack) = DstInstOf(k) /\ Last(fieldStack) \in DstFieldSet(k)

\* record_visit: the node was reached before under the current instance.
Seen(c) == <<c, Last(instStack)>> \in visited

\* visit_event / visit_task / visit_copy with the callbacks of
\* check_data_flow: record the visit, test for the target, and for a
\* matching copy push its source instance and field before going on.
Visit ==
  /\ phase = "check"
  /\ stack # <<>>
  /\ \E c \in Last(stack).todo :
       LET rest == [stack EXCEPT ![Len(stack)].todo = @ \ {c}]
           hit == /\ ~Seen(c) /\ c = target
                  /\ (c \in CopyNodes => ~found /\ Matches(c))
           go == /\ ~Seen(c) /\ ~(found \/ hit)
                 /\ (c \in CopyNodes => Matches(c))
       IN  /\ visited' = visited \cup {<<c, Last(instStack)>>}
           /\ found' = (found \/ hit)
           /\ IF ~go THEN stack' = rest /\ UNCHANGED <<instStack, fieldStack>>
              ELSE /\ stack' = Append(rest, [node |-> c, todo |-> Pred(c)])
                   /\ IF c \in CopyNodes
                      THEN /\ instStack' = Append(instStack, SrcInstOf(c))
                           /\ fieldStack' = Append(fieldStack, SrcFieldOf(c, Last(fieldStack)))
                      ELSE UNCHANGED <<instStack, fieldStack>>
  /\ UNCHANGED <<physIn, copyFields, mdeps, phase, pending, item, target, errors>>

\* Mutant: post_traverse_copy pops the instance stack only.
ReturnPopInstanceOnly ==
  /\ phase = "check"
  /\ stack # <<>>
  /\ Last(stack).todo = {}
  /\ stack' = Front(stack)
  /\ IF Last(stack).node \in CopyNodes
     THEN instStack' = Front(instStack) /\ UNCHANGED fieldStack
     ELSE UNCHANGED <<instStack, fieldStack>>
  /\ UNCHANGED <<physIn, copyFields, mdeps, phase, pending, item, target, found, visited, errors>>

\* A visit returns; post_traverse_copy pops what its copy pushed.
Return ==
  /\ phase = "check"
  /\ stack # <<>>
  /\ Last(stack).todo = {}
  /\ stack' = Front(stack)
  /\ IF Last(stack).node \in CopyNodes
     THEN instStack' = Front(instStack) /\ fieldStack' = Front(fieldStack)
     ELSE UNCHANGED <<instStack, fieldStack>>
  /\ UNCHANGED <<physIn, copyFields, mdeps, phase, pending, item, target, found, visited, errors>>

\* After the traversal: an ERROR unless op1 was found.
FinishItem ==
  /\ phase = "check"
  /\ item # NoItem
  /\ stack = <<>>
  /\ errors' = IF found THEN errors ELSE errors \cup {item}
  /\ item' = NoItem
  /\ UNCHANGED <<physIn, copyFields, mdeps, phase, pending, target, found, instStack,
                 fieldStack, visited, stack>>

EndCheck ==
  /\ phase = "check"
  /\ item = NoItem
  /\ pending = {}
  /\ phase' = "done"
  /\ UNCHANGED <<physIn, copyFields, mdeps, pending, item, target, found, instStack,
                 fieldStack, visited, stack, errors>>

Next == StartItem \/ Visit \/ Return \/ FinishItem \/ EndCheck

Spec == Init /\ [][Next]_vars

-----------------------------------------------------------------------------
TypeOK ==
  /\ physIn \in [Events -> SUBSET Nodes]
  /\ copyFields \in [Copies -> SUBSET FieldIds]
  /\ mdeps \subseteq DepCandidates
  /\ phase \in {"check", "done"}
  /\ pending \subseteq Items(mdeps)
  /\ errors \subseteq Items(mdeps)
  /\ visited \subseteq Nodes \X Insts
  /\ Len(instStack) = Len(fieldStack)
  /\ stack \in Seq([node : Nodes \cup {NoNode}, todo : SUBSET Nodes])

(***************************************************************************)
(* Reference: the data can flow from op1 to the consumer when a backward   *)
(* walk over (node, instance, field) triples, without any visited set,     *)
(* reaches op1: events and tasks other than op1 lead to their              *)
(* predecessors, a copy whose destination holds the sought instance and    *)
(* field leads to its start event with its source instance and field.      *)
(***************************************************************************)
\* The fields the trace records for a copy: those of the records naming its
\* start and its termination event.
IntendedCopyFields(c) ==
  {r.fid : r \in {q \in CopyFieldRecords : q.start = CopyStart(c)
                                           /\ q.term = CopyEvents[c][2]}}

FlowStep(t, tgt) ==
  LET n == t[1] IN
  IF n = tgt THEN {}
  ELSE IF n \in Events THEN {<<p, t[2], t[3]>> : p \in physIn[n]}
  ELSE IF n \in Tasks THEN {<<StartEvent(n), t[2], t[3]>>}
  ELSE IF n \in Copies
       THEN IF t[2] = CopyDst[n] /\ t[3] \in IntendedCopyFields(n)
            THEN {<<CopyStart(n), CopySrc[n], t[3]>>} ELSE {}
  ELSE IF t[2] = DstInst(n) /\ t[3] \in ToSet(DstFields(n))
       THEN {<<StartEvent(n), SrcInst(n), SrcFieldFor(n, t[3])>>}
  ELSE {}

RECURSIVE FlowClosure(_, _)
FlowClosure(S, tgt) ==
  LET S2 == S \cup UNION {FlowStep(t, tgt) : t \in S}
  IN  IF S2 = S THEN S ELSE FlowClosure(S2, tgt)

FlowExists(it) ==
  LET tgt == it.dep.op1
  IN  \E t \in FlowClosure({<<it.dep.op2, StartPoint(it)[1], StartPoint(it)[2]>>}, tgt) :
        /\ t[1] = tgt
        /\ tgt \in CopyOps => t[2] = DstInst(tgt) /\ t[3] \in ToSet(DstFields(tgt))

(***************************************************************************)
(* check_data_flow never misses a broken data flow: after the check, every *)
(* dependence and field for which no chain of events, tasks and matching   *)
(* copies leads back from the consumer to the producer has its ERROR,      *)
(* whatever the order in which the traversal met the nodes.                *)
(***************************************************************************)
NoMissedDataFlowError ==
  phase = "done" => \A it \in Items(mdeps) : ~FlowExists(it) => it \in errors

(***************************************************************************)
(* Every data-flow ERROR is real: the check reports a dependence and field *)
(* only when no such chain exists (design section 5, check_data_flow).     *)
(***************************************************************************)
DataFlowErrorsAreReal ==
  phase = "done" => \A it \in errors : ~FlowExists(it)

====
