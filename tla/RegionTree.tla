----------------------------- MODULE RegionTree -----------------------------
(***************************************************************************)
(* The index-space / partition tree of Legion Spy and its region-tree      *)
(* instantiations (IndexSpaceNode, IndexPartNode, State.add_index_space,   *)
(* add_index_partition, add_index_subspace, add_region), and the aliasing  *)
(* oracle State.is_aliased.                                                *)
(*                                                                         *)
(* A RegionNode / PartitionNode is the instantiation of an index node      *)
(* under one tree id; the model keeps, as IndexSpaceNode.instances does,   *)
(* the set of tree ids each index node is instantiated under, and the     *)
(* field space the tree was created with (every node of a tree carries the *)
(* same field_node).  A region or partition name is abstracted to the fact *)
(* that the node has one; colours only key the children dicts and are     *)
(* left out.                                                               *)
(*                                                                         *)
(* extent is a ghost variable: the points an index node covers, as the     *)
(* runtime that produced the trace laid them out.  The trace only says     *)
(* whether a partition is disjoint; the ghost lets the model state what    *)
(* is_aliased is for: overlapping nodes are reported aliased.              *)
(***************************************************************************)
EXTENDS Naturals, FiniteSets

CONSTANTS
  SpaceIds,   \* uids of index spaces and subspaces
  PartIds,    \* uids of index partitions
  TreeIds,    \* region tree ids
  Points,     \* points of one root index space (ghost)
  FieldSpaceIds, \* uids of field spaces
  FieldIds,   \* field ids
  None        \* no parent / no node

ASSUME SpaceIds \cap PartIds = {}
ASSUME None \notin SpaceIds \cup PartIds

Nodes == SpaceIds \cup PartIds

VARIABLES
  ispaces,      \* State.index_space_nodes: created index spaces
  iparts,       \* State.index_part_nodes: created partitions
  parent,       \* node.parent
  depth,        \* node.depth
  disjoint,     \* IndexPartNode.disjoint
  instances,    \* node.instances: tree ids the node is instantiated under
  regionTrees,  \* State.region_trees: tid -> index node of the tree's root
  extent,       \* ghost: points of each node
  fspaces,      \* State.field_space_nodes: created field spaces
  fields,       \* FieldSpaceNode.fields of each field space
  treeField,    \* the field_node of the RegionNodes of each tree
  named         \* <<index node, tid>> of the region/partition nodes with a name

fieldVars == <<fspaces, fields, treeField, named>>
vars == <<ispaces, iparts, parent, depth, disjoint, instances, regionTrees, extent,
          fspaces, fields, treeField, named>>

Created == ispaces \cup iparts

\* The index nodes below n, n included (children links are parent links).
RECURSIVE Subtree(_)
Subtree(n) == {n} \cup UNION {Subtree(c) : c \in {m \in Created : parent[m] = n}}

\* The children of the RegionNode or PartitionNode of n in tree t: the
\* instantiations under t of n's index children (RegionNode.__init__ adds
\* each one to its parent instance).
RegionChildren(n, t) == {m \in Created : parent[m] = n /\ t \in instances[m]}

\* RegionNode.find_node / PartitionNode.find_node called on the node r of
\* tree t: r itself if it matches, else the first match below it, or None.
RECURSIVE FindNode(_, _, _, _)
FindNode(r, t, n, f) ==
  IF r = n /\ treeField[t] = f THEN r
  ELSE LET found == {FindNode(c, t, n, f) : c \in RegionChildren(r, t)} \ {None}
       IN  IF found = {} THEN None ELSE CHOOSE x \in found : TRUE

\* RegionNode.set_name / PartitionNode.set_name called on the node r of
\* tree t: the nodes it names (a match does not recurse further).
RECURSIVE SetName(_, _, _, _)
SetName(r, t, n, f) ==
  IF r = n /\ treeField[t] = f THEN {r}
  ELSE UNION {SetName(c, t, n, f) : c \in RegionChildren(r, t)}

-----------------------------------------------------------------------------
(***************************************************************************)
(* State.is_aliased(inode1, inode2)                                        *)
(***************************************************************************)

\* while inode.depth > d: inode = inode.parent
RaiseTo(n, d) ==
  LET up[m \in Nodes] == IF depth[m] > d THEN up[parent[m]] ELSE m
  IN  up[n]

\* The lockstep walk: the common ancestor, or None when a root is hit.
CommonAncestor(a, b) ==
  LET walk[p \in Nodes \X Nodes] ==
        IF p[1] = p[2] THEN p[1]
        ELSE IF parent[p[1]] = None \/ parent[p[2]] = None THEN None
        ELSE walk[<<parent[p[1]], parent[p[2]]>>]
  IN  walk[<<a, b>>]

\* Mutant: the "one node contains the other" test dropped.
IsAliasedNoContainment(n1, n2) ==
  LET a == RaiseTo(n1, depth[n2])
      b == RaiseTo(n2, depth[n1])
      lca == CommonAncestor(a, b)
  IN  IF lca = None THEN FALSE
      ELSE IF lca \in ispaces THEN TRUE
      ELSE ~disjoint[lca]

IsAliased(n1, n2) ==
  LET a == RaiseTo(n1, depth[n2])
      b == RaiseTo(n2, depth[n1])
      lca == CommonAncestor(a, b)
  IN  IF a = n2 \/ b = n1 THEN TRUE
      ELSE IF lca = None THEN FALSE
      ELSE IF lca \in ispaces THEN TRUE
      ELSE ~disjoint[lca]

-----------------------------------------------------------------------------
Init ==
  /\ ispaces = {}
  /\ iparts = {}
  /\ parent = [n \in Nodes |-> None]
  /\ depth = [n \in Nodes |-> 0]
  /\ disjoint = [p \in PartIds |-> FALSE]
  /\ instances = [n \in Nodes |-> {}]
  /\ regionTrees = [t \in TreeIds |-> None]
  /\ extent = [n \in Nodes |-> {}]
  /\ fspaces = {}
  /\ fields = [f \in FieldSpaceIds |-> {}]
  /\ treeField = [t \in TreeIds |-> None]
  /\ named = {}

\* State.add_index_space: a new root, depth 0.  A duplicate uid is a fatal
\* assert, so only fresh uids are enumerated.
AddIndexSpace(uid) ==
  /\ uid \in SpaceIds \ ispaces
  /\ ispaces' = ispaces \cup {uid}
  /\ extent' = [extent EXCEPT ![uid] = {uid} \X Points]
  /\ UNCHANGED <<iparts, parent, depth, disjoint, instances, regionTrees, fieldVars>>

\* Mutant: the "pid not in index_space_nodes: return False" check dropped.
AddIndexPartitionAnyParent(pid, uid, disj) ==
  /\ uid \in PartIds \ iparts
  /\ pid \in SpaceIds
  /\ iparts' = iparts \cup {uid}
  /\ parent' = [parent EXCEPT ![uid] = pid]
  /\ depth' = [depth EXCEPT ![uid] = depth[pid] + 1]
  /\ disjoint' = [disjoint EXCEPT ![uid] = disj]
  /\ instances' = [instances EXCEPT ![uid] = instances[pid]]
  /\ extent' = [extent EXCEPT ![uid] = extent[pid]]
  /\ UNCHANGED <<ispaces, regionTrees, fieldVars>>

\* State.add_index_partition: a duplicate uid is a fatal assert (only
\* fresh uids are enumerated), an unknown parent space returns False.
PartitionDeclarable(pid, uid) == uid \in PartIds \ iparts /\ pid \in ispaces

\* State.add_index_partition + IndexPartNode.__init__: depth from the
\* parent, and instantiation under every tree the parent already has.
AddIndexPartition(pid, uid, disj) ==
  /\ PartitionDeclarable(pid, uid)
  /\ iparts' = iparts \cup {uid}
  /\ parent' = [parent EXCEPT ![uid] = pid]
  /\ depth' = [depth EXCEPT ![uid] = depth[pid] + 1]
  /\ disjoint' = [disjoint EXCEPT ![uid] = disj]
  /\ instances' = [instances EXCEPT ![uid] = instances[pid]]
  /\ extent' = [extent EXCEPT ![uid] = extent[pid]]
  /\ UNCHANGED <<ispaces, regionTrees, fieldVars>>

\* State.add_index_subspace: a duplicate uid is a fatal assert, an unknown
\* parent partition returns False.
SubspaceDeclarable(pid, uid) == uid \in SpaceIds \ ispaces /\ pid \in iparts

\* State.add_index_subspace + IndexSpaceNode.__init__.  The points are the
\* runtime's choice; children of a disjoint partition do not share points.
\* Mutant: the new subspace is not instantiated under its parent's trees.
AddIndexSubspaceNoInstantiate(pid, uid, pts) ==
  /\ uid \in SpaceIds \ ispaces
  /\ pid \in iparts
  /\ pts \subseteq extent[pid]
  /\ disjoint[pid] =>
       \A s \in ispaces : parent[s] = pid => pts \cap extent[s] = {}
  /\ ispaces' = ispaces \cup {uid}
  /\ parent' = [parent EXCEPT ![uid] = pid]
  /\ depth' = [depth EXCEPT ![uid] = depth[pid] + 1]
  /\ instances' = instances
  /\ extent' = [extent EXCEPT ![uid] = pts]
  /\ UNCHANGED <<iparts, disjoint, regionTrees, fieldVars>>

AddIndexSubspace(pid, uid, pts) ==
  /\ SubspaceDeclarable(pid, uid)
  /\ pts \subseteq extent[pid]
  /\ disjoint[pid] =>
       \A s \in ispaces : parent[s] = pid => pts \cap extent[s] = {}
  /\ ispaces' = ispaces \cup {uid}
  /\ parent' = [parent EXCEPT ![uid] = pid]
  /\ depth' = [depth EXCEPT ![uid] = depth[pid] + 1]
  /\ instances' = [instances EXCEPT ![uid] = instances[pid]]
  /\ extent' = [extent EXCEPT ![uid] = pts]
  /\ UNCHANGED <<iparts, disjoint, regionTrees, fieldVars>>

\* State.add_field_space.  A duplicate uid is a fatal assert.
AddFieldSpace(uid) ==
  /\ uid \in FieldSpaceIds \ fspaces
  /\ fspaces' = fspaces \cup {uid}
  /\ UNCHANGED <<ispaces, iparts, parent, depth, disjoint, instances, regionTrees,
                 extent, fields, treeField, named>>

\* State.add_field + FieldSpaceNode.add_field: an unknown field space
\* returns False; a duplicate fid is a fatal assert.
AddField(uid, fid) ==
  /\ uid \in fspaces
  /\ fid \notin fields[uid]
  /\ fields' = [fields EXCEPT ![uid] = fields[uid] \cup {fid}]
  /\ UNCHANGED <<ispaces, iparts, parent, depth, disjoint, instances, regionTrees,
                 extent, fspaces, treeField, named>>

\* State.add_region: IndexSpaceNode.instantiate on iid recursively
\* instantiates the whole existing subtree under the new tree id, every
\* node with the field space fid.  An unknown iid or fid returns False.
AddRegion(iid, fid, tid) ==
  /\ regionTrees[tid] = None
  /\ iid \in ispaces
  /\ fid \in fspaces
  /\ regionTrees' = [regionTrees EXCEPT ![tid] = iid]
  /\ treeField' = [treeField EXCEPT ![tid] = fid]
  /\ instances' = [n \in Nodes |->
                     IF n \in Subtree(iid) THEN instances[n] \cup {tid}
                                          ELSE instances[n]]
  /\ UNCHANGED <<ispaces, iparts, parent, depth, disjoint, extent,
                 fspaces, fields, named>>

\* State.add_region_name: set_name from the root of tree tid names the node
\* of iid with field space fid, if the tree has one.  An unknown tid is a
\* fatal assert; an unknown iid or fid returns False.
AddRegionName(iid, fid, tid) ==
  /\ regionTrees[tid] # None
  /\ iid \in ispaces
  /\ fid \in fspaces
  /\ named' = named \cup {<<m, tid>> : m \in SetName(regionTrees[tid], tid, iid, fid)}
  /\ UNCHANGED <<ispaces, iparts, parent, depth, disjoint, instances, regionTrees,
                 extent, fspaces, fields, treeField>>

Next ==
  \/ \E uid \in SpaceIds : AddIndexSpace(uid)
  \/ \E pid \in SpaceIds, uid \in PartIds, d \in BOOLEAN :
       AddIndexPartition(pid, uid, d)
  \/ \E pid \in PartIds, uid \in SpaceIds :
       \E pts \in SUBSET extent[pid] : AddIndexSubspace(pid, uid, pts)
  \/ \E uid \in FieldSpaceIds : AddFieldSpace(uid)
  \/ \E uid \in FieldSpaceIds, fid \in FieldIds : AddField(uid, fid)
  \/ \E iid \in SpaceIds, fid \in FieldSpaceIds, tid \in TreeIds :
       AddRegion(iid, fid, tid)
  \/ \E iid \in SpaceIds, fid \in FieldSpaceIds, tid \in TreeIds :
       AddRegionName(iid, fid, tid)

Spec == Init /\ [][Next]_vars

-----------------------------------------------------------------------------
TypeOK ==
  /\ ispaces \subseteq SpaceIds /\ iparts \subseteq PartIds
  /\ parent \in [Nodes -> Nodes \cup {None}]
  /\ \A n \in Created : parent[n] \in Created \cup {None}
  /\ depth \in [Nodes -> Nat]
  /\ disjoint \in [PartIds -> BOOLEAN]
  /\ instances \in [Nodes -> SUBSET TreeIds]
  /\ regionTrees \in [TreeIds -> SpaceIds \cup {None}]
  /\ fspaces \subseteq FieldSpaceIds
  /\ fields \in [FieldSpaceIds -> SUBSET FieldIds]
  /\ treeField \in [TreeIds -> FieldSpaceIds \cup {None}]
  /\ named \subseteq Nodes \X TreeIds

(***************************************************************************)
(* is_aliased never reports disjointness falsely: whatever order spaces,   *)
(* partitions and subspaces were declared in, two index nodes that share   *)
(* a point are aliased.  This is what every dependence check relies on.    *)
(***************************************************************************)
AliasingSound ==
  \A n1, n2 \in Created :
    extent[n1] \cap extent[n2] # {} => IsAliased(n1, n2)

(***************************************************************************)
(* State.add_requirement looks the requirement's node up with find_node   *)
(* from the root of its tree.  It finds the node exactly when the node     *)
(* lies below the tree's root and the requirement names the tree's field   *)
(* space, including nodes declared after the region (retroactive           *)
(* instantiation in IndexSpaceNode/IndexPartNode.__init__); otherwise it  *)
(* finds None, which the printing of requirement names dereferences.      *)
(***************************************************************************)
RequirementNodesFound ==
  \A t \in TreeIds : regionTrees[t] # None =>
    \A n \in Created, f \in fspaces :
      FindNode(regionTrees[t], t, n, f)
        = IF n \in Subtree(regionTrees[t]) /\ f = treeField[t] THEN n ELSE None

=============================================================================
