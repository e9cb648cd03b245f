----------------------------- MODULE Ingestion -----------------------------
(***************************************************************************)
(* How Legion Spy builds its table of operations (tools/spy_analysis.py,   *)
(* State.add_top_task ... add_point_point) and how State.check_logical     *)
(* walks it.                                                               *)
(*                                                                         *)
(* State.ops maps a uid to an operation object.  Every creation record     *)
(* makes a new object and appends it to the child list of its context,    *)
(* except the points of an index launch: add_slice_point resolves the      *)
(* slice to its index task through slice_slice and slice_index, lets the   *)
(* index task make a point task (in the index task's context, but in no   *)
(* child list), and stores it under the point's uid.  add_point_point      *)
(* stores an existing object under a second uid.                           *)
(*                                                                         *)
(* check_logical calls compute_dependence_diff on the object of every uid *)
(* in the dict, in dict order.  Only a single task with at least two       *)
(* children does any work there (the other kinds' methods are empty, and  *)
(* SingleTask returns early for fewer children); diffRuns counts those     *)
(* runs per object.                                                        *)
(*                                                                         *)
(* Objects are drawn from a pool Objs; an object's kind, context and       *)
(* children are functions of the object, not of the uid.                   *)
(***************************************************************************)
EXTENDS Naturals, Sequences, FiniteSets

CONSTANTS
  Uids,        \* operation uids of the trace
  SliceIds,    \* slice ids of index launches
  Objs,        \* operation objects the analysis may create
  OtherKinds,  \* "mapping", "close", "fence", "copy", "acquire", "release", "deletion"
  Idxs,        \* requirement indices
  Spaces,      \* index-space uids a requirement may name
  Fields,      \* field ids
  None

VARIABLES
  ops,         \* State.ops: uid -> object or None
  kind,        \* object -> "single", "index", an other kind, or None (not created)
  ctxOf,       \* object -> its context object (op.ctx), None for the top task
  children,    \* object -> op.ops, the child list of a context
  enclosing,   \* point object -> its index task object
  topLevel,    \* State.top_level_uid
  sliceIndex,  \* State.slice_index: slice -> index uid or None
  sliceSlice,  \* State.slice_slice: slice -> parent slice or None
  pointSlice,  \* State.point_slice: uid -> slice or None
  phase,       \* "ingest", "check", "done", "crashed"
  pending,     \* uids check_logical has still to visit
  diffRuns,    \* object -> compute_dependence_diff runs that did work
  reqs         \* object -> idx -> its Requirement [space, fields] or None

vars == <<ops, kind, ctxOf, children, enclosing, topLevel, sliceIndex,
          sliceSlice, pointSlice, phase, pending, diffRuns, reqs>>

tableVars == <<ops, kind, ctxOf, children, enclosing, topLevel>>
sliceVars == <<sliceIndex, sliceSlice, pointSlice>>
checkVars == <<phase, pending, diffRuns>>

\* A Requirement as ingestion sees it: the index space it names and its
\* field list (privilege, coherence, tree and region node are copied but
\* never changed here).
Requirement == [space : Spaces, fields : SUBSET Fields]

\* The object the next constructor call makes.
Fresh == CHOOSE o \in Objs : kind[o] = None
HasFresh == \E o \in Objs : kind[o] = None

KnownSlice(s) == sliceIndex[s] # None \/ sliceSlice[s] # None

(***************************************************************************)
(* State.find_enclosing_index_id: follow slice_slice to an entry of        *)
(* slice_index.  None stands for the failed assert (a slice in neither     *)
(* map) and for a chain longer than the number of slices, which can only   *)
(* be a cycle: the Python recursion never returns.                         *)
(***************************************************************************)
RECURSIVE FindEnclosingIndexId(_, _)
FindEnclosingIndexId(s, fuel) ==
  IF sliceIndex[s] # None THEN sliceIndex[s]
  ELSE IF sliceSlice[s] = None \/ fuel = 0 THEN None
  ELSE FindEnclosingIndexId(sliceSlice[s], fuel - 1)

Init ==
  /\ ops = [u \in Uids |-> None]
  /\ kind = [o \in Objs |-> None]
  /\ ctxOf = [o \in Objs |-> None]
  /\ children = [o \in Objs |-> <<>>]
  /\ enclosing = [o \in Objs |-> None]
  /\ topLevel = None
  /\ sliceIndex = [s \in SliceIds |-> None]
  /\ sliceSlice = [s \in SliceIds |-> None]
  /\ pointSlice = [u \in Uids |-> None]
  /\ phase = "ingest"
  /\ pending = {}
  /\ diffRuns = [o \in Objs |-> 0]
  /\ reqs = [o \in Objs |-> [i \in Idxs |-> None]]

(***************************************************************************)
(* A failed assert, or a call of a method the object's class lacks, ends  *)
(* the run.  Records the code rejects by returning False change nothing    *)
(* and are not steps.                                                      *)
(***************************************************************************)
Crash ==
  /\ phase' = "crashed"
  /\ UNCHANGED <<tableVars, sliceVars, pending, diffRuns, reqs>>

\* State.add_top_task.
AddTopTask(u) ==
  /\ phase = "ingest"
  /\ \/ /\ ops[u] # None
        /\ Crash
     \/ /\ ops[u] = None
        /\ HasFresh
        /\ ops' = [ops EXCEPT ![u] = Fresh]
        /\ kind' = [kind EXCEPT ![Fresh] = "single"]
        /\ topLevel' = u
        /\ UNCHANGED <<ctxOf, children, enclosing, sliceVars, checkVars, reqs>>

(***************************************************************************)
(* State.add_single_task (k = "single"), add_index_task (k = "index") and *)
(* add_mapping ... add_deletion (k \in OtherKinds): the constructor, then  *)
(* SingleTask.add_operation on the context.  add_single_task returns early *)
(* for the top task's uid.  Only SingleTask has add_operation: a context  *)
(* uid naming any other kind raises AttributeError.                        *)
(***************************************************************************)
AddOperation(k, c, u) ==
  /\ phase = "ingest"
  /\ k = "single" => u # topLevel
  /\ \/ /\ ops[u] # None
        /\ Crash
     \/ /\ ops[u] = None
        /\ ops[c] # None
        /\ kind[ops[c]] # "single"
        /\ Crash
     \/ /\ ops[u] = None
        /\ ops[c] # None
        /\ kind[ops[c]] = "single"
        /\ HasFresh
        /\ LET o == Fresh IN
             /\ ops' = [ops EXCEPT ![u] = o]
             /\ kind' = [kind EXCEPT ![o] = k]
             /\ ctxOf' = [ctxOf EXCEPT ![o] = ops[c]]
             /\ children' = [children EXCEPT ![ops[c]] = Append(@, o)]
        /\ UNCHANGED <<enclosing, topLevel, sliceVars, checkVars, reqs>>

\* State.add_index_slice.
AddIndexSlice(i, s) ==
  /\ phase = "ingest"
  /\ ops[i] # None
  /\ \/ /\ sliceIndex[s] # None
        /\ Crash
     \/ /\ sliceIndex[s] = None
        /\ sliceIndex' = [sliceIndex EXCEPT ![s] = i]
        /\ UNCHANGED <<tableVars, sliceSlice, pointSlice, checkVars, reqs>>

\* State.add_slice_slice without its assert that slice2 has no parent yet.
AddSliceSliceUnchecked(s1, s2) ==
  /\ phase = "ingest"
  /\ KnownSlice(s1)
  /\ sliceSlice' = [sliceSlice EXCEPT ![s2] = s1]
  /\ UNCHANGED <<tableVars, sliceIndex, pointSlice, checkVars, reqs>>

\* State.add_slice_slice.
AddSliceSlice(s1, s2) ==
  /\ phase = "ingest"
  /\ KnownSlice(s1)
  /\ \/ /\ sliceSlice[s2] # None
        /\ Crash
     \/ /\ sliceSlice[s2] = None
        /\ sliceSlice' = [sliceSlice EXCEPT ![s2] = s1]
        /\ UNCHANGED <<tableVars, sliceIndex, pointSlice, checkVars, reqs>>

(***************************************************************************)
(* State.add_slice_point with find_enclosing_index_id and                  *)
(* IndexTask.add_point: the point task takes the index task's context and *)
(* is in no child list; it is stored under the point's uid with no check   *)
(* that the uid is free in State.ops.  The enclosing uid must name an      *)
(* IndexTask (add_index_slice does not check the kind): any other class    *)
(* has no add_point.  The Point value built from dim, v1, v2, v3 is left   *)
(* out.                                                                    *)
(***************************************************************************)
AddSlicePoint(s, p) ==
  /\ phase = "ingest"
  /\ KnownSlice(s)
  /\ LET idx == FindEnclosingIndexId(s, Cardinality(SliceIds)) IN
     \/ /\ pointSlice[p] # None
        /\ Crash
     \/ /\ pointSlice[p] = None
        /\ \/ idx = None
           \/ kind[ops[idx]] # "index"
        /\ Crash
     \/ /\ pointSlice[p] = None
        /\ idx # None
        /\ kind[ops[idx]] = "index"
        /\ HasFresh
        /\ LET o == Fresh
               n == ops[idx] IN
             /\ ops' = [ops EXCEPT ![p] = o]
             /\ kind' = [kind EXCEPT ![o] = "single"]
             /\ ctxOf' = [ctxOf EXCEPT ![o] = ctxOf[n]]
             /\ enclosing' = [enclosing EXCEPT ![o] = n]
             /\ pointSlice' = [pointSlice EXCEPT ![p] = s]
        /\ UNCHANGED <<children, topLevel, sliceIndex, sliceSlice, checkVars, reqs>>

\* State.add_point_point storing the uid instead of the object.
AddPointPointUid(p1, p2) ==
  /\ phase = "ingest"
  /\ ops[p1] # None
  /\ ops[p2] = None
  /\ ops' = [ops EXCEPT ![p2] = p1]
  /\ UNCHANGED <<kind, ctxOf, children, enclosing, topLevel, sliceVars, checkVars, reqs>>

\* State.add_point_point: a second uid for an existing object.
AddPointPoint(p1, p2) ==
  /\ phase = "ingest"
  /\ ops[p1] # None
  /\ \/ /\ ops[p2] # None
        /\ Crash
     \/ /\ ops[p2] = None
        /\ ops' = [ops EXCEPT ![p2] = ops[p1]]
        /\ UNCHANGED <<kind, ctxOf, children, enclosing, topLevel, sliceVars, checkVars, reqs>>

-----------------------------------------------------------------------------
(***************************************************************************)
(* Requirements.  Each class has its own add_requirement / add_req_field:  *)
(* SingleTask, IndexTask, CopyOp, AcquireOp and ReleaseOp keep a dict      *)
(* idx -> Requirement; Mapping and Close keep one requirement, index 0;   *)
(* Deletion and Fence have neither method.  Only SingleTask has           *)
(* add_instance_requirement.                                               *)
(***************************************************************************)
DictReqKinds == {"single", "index", "copy", "acquire", "release"}
SlotReqKinds == {"mapping", "close"}

\* SingleTask.add_requirement without its assert that the task is no point.
TaskAcceptsRequirementAnyTask(o, i) == reqs[o][i] = None

\* SingleTask.add_requirement: asserts it is no point task and idx is new.
TaskAcceptsRequirement(o, i) == enclosing[o] = None /\ reqs[o][i] = None

\* IndexTask.add_requirement (CopyOp, AcquireOp, ReleaseOp alike).
DictAcceptsRequirement(o, i) == reqs[o][i] = None

\* Mapping.add_requirement (Close alike): idx 0, and only once.
SlotAcceptsRequirement(o, i) == i = 0 /\ reqs[o][0] = None

AcceptsRequirement(o, i) ==
  \/ kind[o] = "single" /\ TaskAcceptsRequirement(o, i)
  \/ kind[o] \in DictReqKinds \ {"single"} /\ DictAcceptsRequirement(o, i)
  \/ kind[o] \in SlotReqKinds /\ SlotAcceptsRequirement(o, i)

\* SingleTask.add_req_field (IndexTask ... ReleaseOp alike): asserts idx.
DictHasRequirement(o, i) == reqs[o][i] # None

\* Mapping.add_req_field (Close alike).
SlotHasRequirement(o, i) == i = 0 /\ reqs[o][0] # None

HasRequirement(o, i) ==
  \/ kind[o] \in DictReqKinds /\ DictHasRequirement(o, i)
  \/ kind[o] \in SlotReqKinds /\ SlotHasRequirement(o, i)

\* Requirement.add_field: asserts the field is new, then appends it.
AddField(r, f) == [r EXCEPT !.fields = @ \cup {f}]

\* IndexTask.get_child_req: a copy of the index requirement naming the
\* point's subspace, with the fields the index requirement has now.
GetChildReq(n, i, sp) == [space |-> sp, fields |-> reqs[n][i].fields]

(***************************************************************************)
(* State.add_requirement: an unknown uid returns False; the region node is *)
(* looked up (RegionTree!FindNode) and the class's add_requirement called. *)
(***************************************************************************)
AddRequirement(u, i, sp) ==
  /\ phase = "ingest"
  /\ ops[u] # None
  /\ \/ /\ ~AcceptsRequirement(ops[u], i)
        /\ Crash
     \/ /\ AcceptsRequirement(ops[u], i)
        /\ reqs' = [reqs EXCEPT ![ops[u]][i] = [space |-> sp, fields |-> {}]]
        /\ UNCHANGED <<tableVars, sliceVars, checkVars>>

\* State.add_req_field: an unknown uid returns False.
AddReqField(u, i, f) ==
  /\ phase = "ingest"
  /\ ops[u] # None
  /\ LET ok == HasRequirement(ops[u], i) /\ f \notin reqs[ops[u]][i].fields IN
     \/ /\ ~ok
        /\ Crash
     \/ /\ ok
        /\ reqs' = [reqs EXCEPT ![ops[u]][i] = AddField(@, f)]
        /\ UNCHANGED <<tableVars, sliceVars, checkVars>>

(***************************************************************************)
(* State.add_instance_requirement and SingleTask.add_instance_requirement: *)
(* a task that has the requirement returns if it is no point and names the *)
(* same space (no step), and fails an assert otherwise; a task without it  *)
(* takes get_child_req of its index task, which a non-point (enclosing     *)
(* None) and an index task without that requirement cannot give.  Other    *)
(* classes have no add_instance_requirement.                               *)
(***************************************************************************)
AddInstanceRequirement(u, i, sp) ==
  /\ phase = "ingest"
  /\ ops[u] # None
  /\ LET o == ops[u]
         keeps == reqs[o][i] # None /\ enclosing[o] = None /\ reqs[o][i].space = sp
         takes == reqs[o][i] = None /\ enclosing[o] # None
                  /\ reqs[enclosing[o]][i] # None
     IN  \/ /\ kind[o] # "single"
            /\ Crash
         \/ /\ kind[o] = "single"
            /\ ~keeps /\ ~takes
            /\ Crash
         \/ /\ kind[o] = "single"
            /\ takes
            /\ reqs' = [reqs EXCEPT ![o][i] = GetChildReq(enclosing[o], i, sp)]
            /\ UNCHANGED <<tableVars, sliceVars, checkVars>>

(***************************************************************************)
(* Whether compute_dependence_diff of object o does any work: only         *)
(* SingleTask's method is not empty, and it returns early when the         *)
(* context has zero or one child.                                          *)
(***************************************************************************)
DoesDiff(o) == kind[o] = "single" /\ Len(children[o]) >= 2

\* The analysis moves from ingestion to State.check_logical.
StartCheck ==
  /\ phase = "ingest"
  /\ phase' = "check"
  /\ pending' = {u \in Uids : ops[u] # None}
  /\ UNCHANGED <<tableVars, sliceVars, diffRuns, reqs>>

\* One iteration of check_logical over self.ops.iteritems(), in any order.
DiffStep(u) ==
  /\ phase = "check"
  /\ u \in pending
  /\ pending' = pending \ {u}
  /\ diffRuns' = IF DoesDiff(ops[u])
                   THEN [diffRuns EXCEPT ![ops[u]] = @ + 1]
                   ELSE diffRuns
  /\ UNCHANGED <<tableVars, sliceVars, phase, reqs>>

\* The loop of check_logical ends.
EndCheck ==
  /\ phase = "check"
  /\ pending = {}
  /\ phase' = "done"
  /\ UNCHANGED <<tableVars, sliceVars, pending, diffRuns, reqs>>

Kinds == {"single", "index"} \cup OtherKinds

Next ==
  \/ \E u \in Uids : AddTopTask(u)
  \/ \E k \in Kinds, c, u \in Uids : AddOperation(k, c, u)
  \/ \E i \in Uids, s \in SliceIds : AddIndexSlice(i, s)
  \/ \E s1, s2 \in SliceIds : AddSliceSlice(s1, s2)
  \/ \E s \in SliceIds, p \in Uids : AddSlicePoint(s, p)
  \/ \E p1, p2 \in Uids : AddPointPoint(p1, p2)
  \/ \E u \in Uids, i \in Idxs, sp \in Spaces : AddRequirement(u, i, sp)
  \/ \E u \in Uids, i \in Idxs, f \in Fields : AddReqField(u, i, f)
  \/ \E u \in Uids, i \in Idxs, sp \in Spaces : AddInstanceRequirement(u, i, sp)
  \/ StartCheck
  \/ \E u \in Uids : DiffStep(u)
  \/ EndCheck

Spec == Init /\ [][Next]_vars

-----------------------------------------------------------------------------
TypeOK ==
  /\ ops \in [Uids -> Objs \cup {None}]
  /\ kind \in [Objs -> Kinds \cup {None}]
  /\ ctxOf \in [Objs -> Objs \cup {None}]
  /\ children \in [Objs -> Seq(Objs)]
  /\ enclosing \in [Objs -> Objs \cup {None}]
  /\ topLevel \in Uids \cup {None}
  /\ sliceIndex \in [SliceIds -> Uids \cup {None}]
  /\ sliceSlice \in [SliceIds -> SliceIds \cup {None}]
  /\ pointSlice \in [Uids -> SliceIds \cup {None}]
  /\ phase \in {"ingest", "check", "done", "crashed"}
  /\ pending \subseteq Uids
  /\ diffRuns \in [Objs -> Nat]
  /\ reqs \in [Objs -> [Idxs -> Requirement \cup {None}]]

(***************************************************************************)
(* Every slice that add_index_slice or add_slice_slice has recorded        *)
(* resolves, through State.find_enclosing_index_id, to an index uid: a     *)
(* slice_slice chain never closes into a cycle without an entry of         *)
(* slice_index, which would make add_slice_point recurse forever.  It      *)
(* rests on add_slice_slice refusing an unknown parent and asserting that  *)
(* the child has no parent yet.                                            *)
(***************************************************************************)
SliceChainsResolve ==
  \A s \in SliceIds :
    KnownSlice(s) => FindEnclosingIndexId(s, Cardinality(SliceIds)) # None

(***************************************************************************)
(* A point task holds a requirement only as a copy of one of its index     *)
(* task (design: an index task contributes its points, each with the       *)
(* index's requirements, to the dependence analysis): SingleTask.          *)
(* add_requirement refuses points, and get_child_req asserts that the      *)
(* index task has the requirement.                                         *)
(***************************************************************************)
PointRequirementsFromIndex ==
  \A o \in Objs, i \in Idxs :
    (enclosing[o] # None /\ reqs[o][i] # None) => reqs[enclosing[o]][i] # None

(***************************************************************************)
(* State.check_logical runs the dependence diff of every task context with *)
(* at least two children exactly once (design document: "run dependence    *)
(* diff over all contexts"): a context whose uid a later record reused is *)
(* still diffed, and a context with a second uid is not diffed twice (a   *)
(* second run appends every actual dependence to adeps again and reports  *)
(* each ERROR and WARNING of the context once more).                       *)
(***************************************************************************)
EveryContextDiffedOnce ==
  phase = "done" =>
    \A o \in Objs :
      (kind[o] = "single" /\ Len(children[o]) >= 2) => diffRuns[o] = 1
====
