# TLA+ models of Legion Spy

Legion Spy (`src/legion-master/legion-master/tools/spy_analysis.py`) is an
offline verifier for execution traces of the Legion task runtime. A driver
parses a log and hands every record to one `State` object: processors,
memories, index spaces and partitions, region trees, operations and their
region requirements, claimed mapping dependences, events, physical instances
and their users. After loading, three batch checks run over the model it has
built:

1. `check_logical`: the mapping-dependence diff of every context;
2. `check_data_flow`: the physical data-flow check;
3. `check_instance_dependences`: the instance race check.

Each check prints ERRORs and WARNINGs. The program is single-threaded and
keeps no persistent state. Its hard parts are algorithmic:

- reachability with memo marks and generation stamps;
- the order in which records arrive;
- the privilege/coherence algebra.

There are no crashes, messages or concurrency to model.

## Inventory

| Part | State in the code | Operations | Interacts with |
|---|---|---|---|
| Dependence oracle | none (pure) | `compute_dependence_type`, `check_for_anti_dependence`, `is_mapping_dependence`, `Requirement.is_*` | used by `State.compute_dependence` |
| Region tree | `index_space_nodes`, `index_part_nodes`, `field_space_nodes`, node `parent`/`depth`/`disjoint`/`instances`/`name`, `region_trees` | `add_index_space`, `add_index_partition`, `add_index_subspace`, `add_field_space`, `add_field`, `add_region` (with retroactive `instantiate`), `add_region_name`, `find_node`, `is_aliased` | aliasing for every dependence computation |
| Operation graph / diff | per context: `ops`, `mdeps`, `adeps`; per op: `reqs`, `logical_outgoing`, `logical_marked` | `add_single_task`…`add_deletion`, `add_requirement`, `add_mapping_dependence`, `compute_dependence_diff`, `has_logical_path`, `unmark_logical` | oracle and region tree through `compute_dependence` |
| Ingestion of index launches and requirements | `slice_index`, `slice_slice`, `point_slice`, `ops` aliases, per op `reqs` / `requirement` | `add_index_slice`, `add_slice_slice`, `add_slice_point`, `add_point_point`, `find_enclosing_index_id`, `add_requirement`, `add_req_field`, `add_instance_requirement`, `get_child_req` | creates the point tasks and requirements the diff and checks see |
| Event graph | `events`, physical / implicit edges, node `generation` | `get_event_from_id`, `add_op_events`, `add_event_dependence`, `add_implicit_dependence`, `EventGraphTraverser`, `get_next_traverser_gen` | race check, data-flow check |
| Physical instances | `instances` (versioned), `op_users` | `add_physical_instance`, `add_reduction_instance`, `add_op_user` | race check |
| Race check | none beyond traversal stamps | `check_instance_dependences` | oracle, event graph |
| Data-flow check | visited dict, instance/field stacks | `check_data_flow` | event graph, copies |
| Component extraction | node `physical_marked`, the component's per-kind dicts | `print_pictures`, `physical_traverse`, `ConnectedComponent.add_*`, `empty`, `unmark_all` | event graph, copies |
| Rendering | — | `generate_graph`, `GraphPrinter` | out of scope |

Behaviours that are hard to test, per part (each is listed with its line as a
hazard in `PROJECT.json`):

- **Oracle:** the both-ATOMIC branch at line 95 passes `req1` twice.
- **Region tree:**
  - nodes declared after a region on their ancestor must be instantiated
    retroactively;
  - `is_aliased` has a containment test and a lockstep walk whose order
    matters.
- **Diff:**
  - a `logical_marked` flag left over from one query falsifies the next;
  - claims are compared with required dependences by full equality,
    including the dependence type, and deletions are exempt;
  - a cyclic claimed graph makes the DFS recurse without bound;
  - a duplicated claim is warned about twice;
  - an aliased point uid makes the diff run twice over one context.
- **Race check:**
  - each racing pair is reported once per order;
  - the flipped traversal must take a fresh generation;
  - implicit orderings may form cycles, which only the generation stamps
    cut;
  - a user without events crashes the traversal.
- **Data flow:** a copy-field record goes to any copy ending at its event;
  the visited dict ignores the field on the stack, so the
  order of iteration can cut off a real data path.
- **Slices:** `find_enclosing_index_id` relies on `add_slice_slice` to keep
  the chains acyclic.

## Modules

### `DependenceOracle.tla`

Pure operators translated from lines 22-107 and 2130-2184: the dependence
types, privileges, coherences and the `Requirement` predicates. An access is
a record `[priv, coher, redop]`. A failing `assert` is the outcome
`AssertFailed`, because the Python process stops there.
`SpecDependenceType` is the algebra as the design document (section 4.2)
states it; it is the reference the code is checked against.

`MCDependenceOracle.tla` makes every ordered pair of accesses a state, so an
invariant covers all inputs (the run `oracle_matches_spec`). Two distinct reduction operators are enough: the
code only compares redops for equality.

### `RegionTree.tla`

The index tree and its region-tree instantiations.

**State.** `instances[n]` abstracts the `RegionNode`/`PartitionNode`
objects to the set of tree ids that node `n` is instantiated under.
`treeField[t]` is the field space every node of tree `t` carries, and
`named` holds the region nodes `<<n, t>>` that `set_name` gave a name.
`RegionChildren(n, t)` is the `children` set of a region node.
`FindNode` and `SetName` are the recursive `find_node` and `set_name`.

**Actions.**

| Action | Code |
|---|---|
| `AddIndexSpace` | `State.add_index_space` |
| `AddIndexPartition` | `State.add_index_partition` + `IndexPartNode.__init__` |
| `AddIndexSubspace` | `State.add_index_subspace` + `IndexSpaceNode.__init__` |
| `AddFieldSpace`, `AddField` | `State.add_field_space`, `State.add_field` |
| `AddRegion` | `State.add_region` with the recursive `instantiate` |
| `AddRegionName` | `State.add_region_name` with `set_name` from the root |

A record that names an unknown parent returns `False` in the code and changes
nothing, so it is not a step of the model. A duplicate uid is a fatal assert,
so only fresh uids are enumerated.

**Aliasing.** `IsAliased` is `State.is_aliased`: raise to equal depth, test
containment, walk in lockstep to a common ancestor, then decide by the kind
of the ancestor and `disjoint`.

**Ghost state.** `extent` holds the points each node covers, as the runtime
laid them out. It lets the model state what aliasing is for.

**Left out.** Colours only key the `children` dicts. The index-space,
partition and field names only label the printed graphs.

`add_partition_name` is also left out, and it does nothing in practice. It
checks the partition uid against `index_space_nodes` and then reads
`index_part_nodes[iid]` (`spy_analysis.py:2938-2944`). Take a partition uid
that is not also an index-space uid: the call returns `False` and the
partition is never named. Now take an index-space uid that is not also a
partition uid: the call raises `KeyError`. The model keeps space and
partition uids apart, so this observation is not checked by a run.

### `DependenceDiffSpec.tla` (abstract)

What the diff of one context promises (design section 4.3), in one step.
Once the claims are loaded, `Diff` reports:

- one ERROR per required dependence that no chain of claimed edges enforces;
- one WARNING per claim that is not required and whose consumer is not a
  deletion.

Reachability is `ConnectionsIn` of the community `Graphs` module.

### `DependenceDiff.tla` (detailed)

One context whose children `1..N` are in execution order.

**Composition.** It composes the oracle (`Oracle == INSTANCE
DependenceOracle`) and a fixed region tree (`Tree == INSTANCE RegionTree
WITH` the tree as constants). `ComputeDependence` is
`State.compute_dependence` over them.

**Init.** The children and their requirement: what the creation and
`add_requirement` records leave behind.

**Actions.**

| Action | Code |
|---|---|
| `AddMappingDependence` | `State.add_mapping_dependence`: `add_mdep` appends the claim, then the backward logical edge, or the abort of `Deletion.add_logical_incoming` when the producer is a deletion |
| `AllPairs` | the all-pairs scan of `compute_dependence_diff` (`find_dependences`, `find_individual_dependences`), producing `adeps` in scan order |
| `StartQuery`, `Explore`, `ReturnNotFound` | `has_logical_path`, one call at a time, with an explicit stack of frames `[node, untried successors]` |
| `EndQuery` | the end of one soundness iteration: count the error, unmark every child |
| `Tightness` | the warning loop |

Python iterates `logical_outgoing`, a set, in an order the program does not
fix. `Explore` therefore tries any untried successor. A marked successor
returns `False` at once, and the target returns `True`. A call made with
`RecursionLimit` frames already stacked raises instead, and the analysis
ends in the phase `"crashed"`.

**Claims.** `mdeps` is a list in the code and a bag here: the order of the
list is never read, but its duplicates are, by the tightness loop. The
trace may claim any pair in `ClaimPairs`, backwards and on itself included
(`add_logical_outgoing` ignores a self-claim); `MaxClaimCopies` bounds how
often one record may occur. A claim with a deletion as producer is appended
and then aborts the process.

**The recursion limit.** `RecursionLimit = N` stands for the endless
recursion a claim cycle causes: `has_logical_path` marks a node only after
all its successors returned, so a query that enters a cycle never ends and
Python raises `RecursionError`. With the claims 2 -> 4 and 4 -> 2, a query
from 4 for 1 goes round the cycle until the limit (every disjunct of
`Explore` fires). No property is stated about it: with the limit at `N`
only a cycle can reach it, so a property saying so would follow from the
constant. Python's limit on an acyclic chain of about a thousand claims
is out of TLC's reach (see the plan).

**Refinement.** `Abstract == INSTANCE DependenceDiffSpec WITH ...` maps:

- the phase to `"ingest"` until the diff has finished;
- errors and warnings to 0 until then;
- the required set to the oracle's all-pairs result (`Required`);
- the claim bag to the set of its claims, without those of a deletion
  producer (which only exist once the process has aborted).

A duplicate record and a crash are therefore abstract stutter steps, and
the refinement is a safety property: it says nothing about behaviours that
abort.

`ImplementsDiffSpec` is `Abstract!Spec`.

**Kinds.** The task-like kinds (single task, mapping, close, copy, acquire,
release) behave alike in the diff and are the kind `"task"`. Deletions have
no requirement, abort the process as producers, and are exempt from warnings. Fences
also contribute nothing (`Fence.find_dependences` is a no-op; design section
9 leaves this open). They are not enumerated because, with a single
requirement per op, they behave like a task without a requirement.

### `RaceCheckSpec.tla` (abstract)

What the instance race check promises (design sections 5 and 8), in one
step. Once the trace is loaded, `Check` reports exactly the conflicting
pairs of users that the event graph leaves unordered both ways. `ordered`
and `conflicts` are what the loaded trace determines.

### `RaceCheck.tla` (detailed)

The event graph, physical instances and `check_instance_dependences`.

**State.**

- `events`, `startEv`/`termEv` and the incoming edge sets `physIn` and
  `implIn` are the `Event` objects and the `start_event`/`term_event` fields
  of the operations. Outgoing sets are recorded by the code but never read
  by the checks.
- `versions[iid]` is the list `State.instances[iid]`: one entry per creation
  record, each mapping a field to the set of its users. It is a set because
  `add_instance` asserts that an op uses an instance once.
- `generation` is `node.generation`; `traverserGen` is the process-wide
  counter.
- The recursive traversal is a `stack` of the sets of predecessors still to
  visit. Python iterates sets in no fixed order, so `Visit` may take any
  member.

**Actions.**

| Action | Code |
|---|---|
| `GetEventsFromIds` | `State.get_event_from_id`: an existing handle is reused, a new one creates its event |
| `AddOpEvents` | `State.add_op_events` (with `add_events`) |
| `AddEventDependence`, `AddImplicitDependence` | `State.add_event_dependence`, `State.add_implicit_dependence` |
| `AddPhysicalInstance`, `AddReductionInstance` | `State.add_physical_instance`, `State.add_reduction_instance`: a new version per record, with no users (`NewVersion`); both kinds go into `State.instances` |
| `AddOpUser` | `State.add_op_user` + `PhysicalInstance.add_op_user` (`AddUsers`): the latest version |
| `StartCheck`, `NextPair`, `Flip`, `FinishPair`, `EndCheck` | the loops of `check_instance_dependences`, the two traversals per pair and the ERROR |
| `VisitEvent`, `VisitOp` (`Visit` is either), `Return` | `EventGraphTraverser.visit_event` and `visit_task` (`visit_mapping` ... `visit_release` are the same) with `use_gen`, and the callbacks `traverse_event` and `traverse_op` |

A visit of an operation without a start event, or a stack deeper than
`RecursionLimit`, ends in the phase `"crashed"`: Python raises and the
process stops.

**Refinement.** `Abstract == INSTANCE RaceCheckSpec WITH` maps:

- `ordered` to backward reachability in the event graph (`BackwardReach`, a
  closure that reads each level once);
- `conflicts` to the user pairs of `Conflicts`;
- `reported` to the reports once the check is done.

### `DataFlow.tla`

`SingleTask.check_data_flow` over one context.

**Init.** The loaded trace: each operation's termination event has the
operation as a physical predecessor (`add_op_events`), and so has the
termination event of each `Copy` object (`add_copy_events`), plus any
subset of candidate event orderings and any subset of candidate claims.
`copyFields` holds each Copy's field list after the copy-field records:
`add_copy_field_to_copy_event` gives the field to whichever Copy ending at
the record's termination event set iteration yields first, ignoring the
start event (`CopyFieldOutcomes`).

**Items.** `Items(mdeps)` is the work of the nested loops:

- claimed TRUE dependences only;
- a WRITE_ONLY or REDUCE consumer is skipped;
- unaliased regions are skipped;
- one traversal per shared field.

**Actions.** `StartItem` builds the traverser. It pushes the consumer's
instance and field, or, for a copy read at its source, the matching
destination field ("a hack for copy operations"). `Visit` is
`visit_event`/`visit_task`/`visit_copy` with the callbacks of the check:

- `record_visit` keys the visited dict by node and top instance (`Seen`);
- tasks compare with the target;
- a copy node (a copy-across op or a `Copy` object) whose destination
  instance and field are on top of the stacks (`Matches`) pushes its source
  instance and field. A Copy's one field list serves as both source and
  destination list, so it keeps the field.

`Return` is the end of a visit, with `post_traverse_copy` popping both
stacks. `FinishItem` prints the ERROR if the target was not found.

**Reference.** `FlowExists` is the same backward walk over (node, instance,
field) triples without a visited set, computed to a fixed point. A Copy
there carries the fields of the records that name both its start and its
termination event (`IntendedCopyFields`).

**Left out.** The physical graph of an execution is acyclic, so the
recursion depth is its longest path, far below Python's limit. Several
things are not enumerated:

- index-launch points (`op_instances` beyond the op itself);
- fences;
- acquire/release callbacks;
- two Copy objects ending at one event. There the field may land on the
  wrong copy (a hazard in `PROJECT.json`); the runtime gives each copy its
  own termination event.

### `Ingestion.tla`

The operation table `State.ops` and `State.check_logical`. A uid and the
object it names are different things here: `ops` maps uids to objects drawn
from a pool `Objs`, and `kind`, `ctxOf`, `children` (the context's `ops`
list) and `enclosing` are functions of the object. That is what lets the
model show two uids for one object, and an object that loses its uid.

| Action | Code |
|---|---|
| `AddTopTask` | `State.add_top_task` |
| `AddOperation(k, c, u)` | `add_single_task` (with its early return for the top uid), `add_index_task`, `add_mapping` ... `add_deletion`, then `SingleTask.add_operation` on the context |
| `AddIndexSlice`, `AddSliceSlice` | `State.add_index_slice`, `State.add_slice_slice` |
| `AddSlicePoint` | `State.add_slice_point` with `find_enclosing_index_id` (`FindEnclosingIndexId`) and `IndexTask.add_point` |
| `AddPointPoint` | `State.add_point_point` |
| `AddRequirement` | `State.add_requirement`, then the class's `add_requirement` (`TaskAcceptsRequirement`, `DictAcceptsRequirement`, `SlotAcceptsRequirement`) |
| `AddReqField` | `State.add_req_field`, the class's `add_req_field` (`DictHasRequirement`, `SlotHasRequirement`) and `Requirement.add_field` |
| `AddInstanceRequirement` | `State.add_instance_requirement`, `SingleTask.add_instance_requirement` and `IndexTask.get_child_req` (`GetChildReq`) |
| `StartCheck`, `DiffStep`, `EndCheck` | the loop of `check_logical` over `ops.iteritems()`, in any order |

**Requirements.** `reqs[o][i]` is requirement `i` of object `o`, abstracted
to the index space it names and its set of fields. Privilege, coherence and
tree are copied unchanged, and the region node is `RegionTree`'s
`FindNode`. `SingleTask`, `IndexTask`, `CopyOp`, `AcquireOp` and `ReleaseOp`
keep a dict of requirements. `Mapping` and `Close` keep one, at index 0.
`Deletion` and `Fence` have no `add_requirement`, so a record for them is a
crash. `get_child_req` copies the fields the index requirement has when the
point's instance requirement is recorded. A field added to the index
requirement later does not reach the point (see the hazards).

A failed assert, and a call of a method the object's class does not have,
is a step to `phase = "crashed"`: `add_operation` on a context that is not
a `SingleTask`, and `add_point` on an enclosing uid that is not an
`IndexTask`. The same holds for every refused requirement record. A record the code rejects with `return False` changes nothing
and is not a step. `DoesDiff` is the work `compute_dependence_diff` does:
only `SingleTask`'s method is non-empty (the other classes' are `pass`),
and it returns early for fewer than two children. The diff itself is
`DependenceDiff`; this module only counts the runs per object.

### `ComponentExtraction.tla`

`State.print_pictures` with `ConnectedComponent` and the `physical_traverse`
methods. The graph is the trace's events and units (operations with events,
and the `Copy` objects of `add_copy_events`). Each unit is linked to its
start and termination event, and `edges` are the recorded event orderings
(any subset of candidates, chosen at `Init`).

| Definition | Code |
|---|---|
| `Adjacent`, `UnitAdjacent` | `Event.physical_traverse` (incoming and outgoing), the units' `physical_traverse` (start, then termination event) |
| `Visitable` | the guard of `physical_traverse`: not marked, and the event handle exists (uid not 0) |
| `Walk`, `Reached` | the recursive walk that marks what it enters, as one step (it has no other effect) |
| `Slot`, `Keepers` | the `add_*` methods of `ConnectedComponent`: dicts keyed by uid, one entry per key, the last added wins (any of the colliding units) |
| `Empty`, `Unmarked` | `num_ops`/`empty` and `unmark_all` |
| `FindComponent`, `EndFind`, `Draw`, `EndDraw` | the two loops of `print_pictures` (drawing itself is output) |

**Reference.** `ConnectedComponents` is the connected components of the
undirected `PhysicalGraph`. It is computed by a closure over its edge set,
without marks.

## Runs

| Run | Module / cfg | Expect | What it shows |
|---|---|---|---|
| `oracle_matches_spec` | `MCDependenceOracle` / `MCDependenceOracleSpec.cfg` | violation | `OracleMatchesSpec` fails: `[NO_ACCESS, ATOMIC]` before `[READ_WRITE, ATOMIC]` aborts on `assert req2.has_write()`, where the design says ANTI_DEPENDENCE. READ_WRITE before WRITE_ONLY (both atomic) gives ATOMIC instead of ANTI. This is the finding at line 95. |
| `region_tree` | `MCRegionTree` / `MCRegionTree.cfg` | pass | Declarations in every order, over three space ids, two partition ids, two trees, two field spaces, one field and two points: `AliasingSound` (nodes that share a point are aliased) and `RequirementNodesFound` (`find_node` from a tree's root, as `add_requirement` calls it, finds exactly the nodes below the root with the tree's field space, including nodes declared later). 178,684 states. |
| `dependence_diff` | `MCDependenceDiff` / `MCDependenceDiff.cfg` | pass | Every kind/requirement assignment of four children and every set of forward claims plus the backward claim 4 -> 2: `MarksAreNoPathFacts` (during a query every marked child really has no path to the target) and `ImplementsDiffSpec` (the exact error and warning counts of the abstract diff, whenever the diff finishes, cycles included). 330k states, about 2.5 min. |
| `claim_recorded_twice` | `MCDependenceDiff` / `MCDependenceDiffTwice.cfg` | violation | `ImplementsDiffSpec` fails: the claim 1 -> 2, recorded twice and not required, gets two WARNINGs; the design's diff gives one per claimed dependence, and says records are idempotency-checked. This is the finding at line 634. |
| `race_check` | `MCRaceCheck` / `MCRaceCheck.cfg` | pass | Every order of event, ordering, instance and user records, and every set iteration order: `ImplementsRaceSpec` (exactly the unordered conflicting pairs are reported, although all traversals share the generation fields) and `RaceCheckTerminates` (the check ends, cycles included, when every user has its events). `ReportsAreRaces`: every race printed so far is real, in every state, so also in the runs that die half way on a user without events (TLC reaches such a crash after a report). 222k states, about 1 minute. |
| `race_reported_once` | `MCRaceCheck` / `MCRaceCheckOnce.cfg` | violation | `RaceReportedOnce` fails: a writer of `A` and a reader of `R` with no ordering are reported as (o1, o2) and again as (o2, o1). Design section 8 expects exactly one report. |
| `data_flow` | `MCDataFlow` / `MCDataFlow.cfg` | pass | `NoMissedDataFlowError`: for every subset of six event orderings and five claims, and every order of iteration, a dependence and field without a data path (through copy operations and Copy objects) gets its ERROR. 117k states. |
| `data_flow_errors_real` | `MCDataFlow` / `MCDataFlowReal.cfg` | violation | `DataFlowErrorsAreReal` fails: copy k1 (I.g to J.f), met first, marks the event x and the copy k3 visited under instance I. The real path op1, k3 (I0.f to I.f), k2 (I.f to J.f), op2 is then cut at x, and a false ERROR is printed. |
| `ingestion` | `MCIngestion` / `MCIngestion.cfg` | pass | Every order of creation, slice, point and requirement records, including failed asserts. Bounds: three uids, three objects, two slices, one requirement index, two index spaces and one field. `SliceChainsResolve`: every recorded slice resolves to an index uid, and no `slice_slice` chain closes a cycle; two slices already allow the self-loop an unchecked `add_slice_slice` makes. `PointRequirementsFromIndex`: a point task holds a requirement only as a copy of its index task's. 1.26M states, about 2 min. |
| `diff_once` | `MCIngestion` / `MCIngestionDiffed.cfg` | violation | `EveryContextDiffedOnce` fails. The counterexample: `add_point_point(u1, u4)` aliases the top task, and `check_logical` diffs it once per uid, so every ERROR and WARNING of that context is reported again. The same property also fails the other way, with a context never diffed: a point record reusing the top task's uid replaces the top task in `State.ops` (`add_slice_point` checks only `point_slice`). With three uids that is TLC's counterexample. The design says operation creation is fatal on a duplicate. |
| `components` | `MCComponentExtraction` / `MCComponentExtraction.cfg` | pass | For every subset of three orderings and every order of the events: `ComponentsMaximal` (exactly the maximal components with two or more operations are drawn, whole) and `MarksClearedAfterDrawing` (no node stays marked). 630 states. |
| `component_collision` | `MCComponentExtraction` / `MCComponentCollision.cfg` | violation | `ComponentsMaximal` fails when the Copy `c` is the third numbered (copy_uid 3) and shares uid 3 with the CopyOp `k`. `add_copy` (line 2588) keys both by uid, so once an ordering (`e3 -> e4` or `e5 -> e1`) joins their components the one added second overwrites the other; in the one-worker trace the drawn component holds `m`, `c`, `t1` and `t2` but not `k`. |

Every property of a passing run has a mutant in `PROJECT.json`: a plausible
bug in the code that TLC must find. The mutant operators are defined next to
the definitions they replace, and each is named after the bug:

- `AddIndexPartitionAnyParent`: drops the unknown-parent check;
- `IsAliasedNoContainment`: drops the containment test;
- `AddIndexSubspaceNoInstantiate`: drops the retroactive instantiation;
- `PairDepsNoFilter`: drops the `is_mapping_dependence` filter;
- `EndQueryNoUnmark`: drops the unmark loop;
- `TightnessNoDeletionExemption`: drops the deletion exemption;
- `NextPairNoIncrement`: `get_next_traverser_gen` does not advance;
- `FlipSameGeneration`: the flipped traversal keeps the first generation;
- `VisitIgnoringGeneration`: a traverser with `use_gen = False`;
- `FinishPairOneWay`: reports a pair without the flipped traversal;
- `MatchesFieldOnly`: the copy callback compares fields only;
- `ReturnPopInstanceOnly`: `post_traverse_copy` forgets the field stack;
- `AddSliceSliceUnchecked`: drops the assert that `slice2` has no parent;
- `AddPointPointUid`: stores the uid instead of the object;
- `TaskAcceptsRequirementAnyTask`: `SingleTask.add_requirement` without its assert that the task is no point;
- `AdjacentOutgoingOnly`: `Event.physical_traverse` forgets `physical_incoming`;
- `UnmarkedNoEvents`: `unmark_all` forgets the events.

## Bounds

**`MCDependenceDiff`.** Four children is the smallest context in which a mark
left by one query lies on a path needed by a later one. The index tree is a
root `R` with a disjoint partition `P` into `A` and `B`. The requirements
are:

- exclusive writers of `A` and of `B`;
- an exclusive reader of all of `R`.

Together they give true and anti dependences, non-interfering pairs (A/B),
and no dependence between readers. Claims are of type TRUE_DEPENDENCE only,
so a claim whose type differs from the required ANTI one is a warning, as in
the code. The runtime logs each dependence once (`MaxClaimCopies = 1`) from
an earlier to a later child; one backward claim, 4 -> 2, closes the
shortest cycle a query from a later child can enter. `RecursionLimit = 4`:
no acyclic path of four children needs more frames, so the limit stands for
Python's (about 1000) exactly where it matters, at a cycle. All action
disjuncts fire under these bounds. `claim_recorded_twice` uses three
children, forward claims, and `MaxClaimCopies = 2`.

**`MCRaceCheck`.** The model has:

- three operations, each with its own start and termination event;
- physical orderings o1 before o2, o2 before o3, and o1 before o3;
- implicit orderings o2 or o3 before o1, which close cycles.

This gives chains, diamonds, cycles and unordered pairs. The requirements
are the three of `MCDependenceDiff`. o1 and o3 never conflict, and o2
conflicts with both in both orders. One instance id may be created twice, so
users can fall into different versions. `RecursionLimit` is 12, above the
deepest stamped traversal of nine nodes. Every action and branch fires,
including the crash of a user without events.

**`MCDataFlow`.** The model has:

- a producer op1 (A.f in instance I0) and a consumer op2 (R.f in J);
- three copy-across ops: k3 (I0.f to I.f), k1 (I.g to J.f) and k2 (I.f to
  J.f);
- k1 and k2, which start at k3's termination event x.

This is the smallest graph in which two copies lead into one node under
one instance with different fields. A Copy object `c0` copies `I0` to `J`
from op1's termination to the event `tc`, which the trace may order before
op2. Its field record names `f`; a second record names `t1`, which no copy
ends at, and is refused. The five claim candidates exercise each
filter of the loops: the dependence type, a WRITE_ONLY consumer, disjoint
regions, and the copy start point.

**`MCIngestion`.** Three uids are enough for a top task, an index task and
a point. With two slices, dropping the assert of `add_slice_slice` closes
a cycle with no `slice_index` entry: s2 points to s1, then to itself. Three
objects let the pool run out only after a point is made. One requirement
index and one field are enough to see a refused point requirement, a copied
one, and a duplicate field. Two index spaces make the `ispace` assert of
`add_instance_requirement` fail. Symmetry over uids, slices and spaces is
sound: the code only compares them for equality. The objects, which
`CHOOSE` picks, are not permuted. The violation run `diff_once` uses four
uids and one slice, and no requirement indices: requirements play no part
in its trace.

**`MCComponentExtraction`.** The model has:

- two tasks chained through an event;
- a Copy object;
- a copy-across op and a mapping;
- two units that start at the no-event.

Without orderings there are two components, one of which may have a single
operation. The candidates join them, or touch the no-event. The Copy's
number is the only difference between the passing and the violating cfg.

**`MCRegionTree`.** Symmetry over the id sets (spaces, partitions, trees,
field spaces) is sound: ids are only compared for equality. With two field
spaces, a requirement can name a field space other than its tree's, which
is the case where `find_node` returns `None`.

## Fairness

`RaceCheck` assumes weak fairness of the analysis steps, not of
ingestion. Once called, the single Python thread runs
`check_instance_dependences` to the end, and a trace may stop at any
record. `RaceCheckTerminates` depends on this fairness. It is stated under the assumption that every user has its events,
because otherwise the code crashes (a hazard in `PROJECT.json`). `CHECK_DEADLOCK FALSE`
is used where the program really stops: the analysis ends, and a trace has
finitely many records.

## Not modelled yet, and the plan

In order of importance:

1. **Data flow.** Index-launch points in `DataFlow`, and two Copy objects
   ending at one event.
2. **Several requirements per operation** in `DependenceDiff` (claims
   then carry requirement indices).
3. **Long acyclic chains.** Python's recursion limit also stops
   `has_logical_path` on a chain of about a thousand claims; TLC cannot
   enumerate contexts of that size, so the model's limit bites only at a
   cycle.

Out of scope:

- **Rendering** (`GraphPrinter`, `generate_graph`, `generate_igraph`, the
  `print_*` node methods): output only. The component extraction that
  decides what is drawn is modelled.
- **The command-line driver and log parser**: not part of this repository (the design treats them as collaborators).
- **Machine model** (`Processor`, `UtilityProcessor`, `Memory`,
  `add_processor` ... `set_mem_mem`, `add_op_proc_user`): registries that
  only feed the timelines and the membership tests of the instance
  records. A record naming an unknown memory returns `False`, so the model
  enumerates only known ones.
- **Names** of index spaces, partitions, field spaces and fields
  (`add_index_space_name` ... `add_partition_name`): graph labels only.
  Their control is not trivial, and is listed as two hazards without a
  property: the first three handlers assert that the uid is declared, so
  a name record ahead of its creation record aborts the parse where the
  design promises a recoverable failure; `add_partition_name` checks
  `index_space_nodes` but reads `index_part_nodes`, so a partition name is
  either dropped (`False`) or raises `KeyError`. Modelling them needs a
  crash phase in `RegionTree`; tried, it doubled the `region_tree` state
  space (2m40s instead of 50s) and no property would read the names.
  `add_region_name` is modelled, because `find_node` and `set_name` walk
  the same instantiated tree.
- **The compiler symbol table** (`deprecated/compiler/lib/lcomp/symbol_table.py`): part of the deprecated compiler, not of Legion Spy; nothing in `tools/` uses it.
