------------------------- MODULE ComponentExtraction -------------------------
(***************************************************************************)
(* Connected-component extraction of the event graph (tools/spy_analysis.py, *)
(* State.print_pictures with ConnectedComponent and the physical_traverse  *)
(* methods of Event, SingleTask, Mapping, Close, CopyOp, AcquireOp,        *)
(* ReleaseOp and Copy).                                                    *)
(*                                                                         *)
(* For every event of State.events, in dict order, a fresh component is   *)
(* filled by a recursive walk that marks each node (physical_marked) and  *)
(* crosses the physical edges in both directions; an event whose handle   *)
(* does not exist (uid 0) is neither marked nor crossed.  A component with *)
(* fewer than two operations is unmarked and dropped; the others are      *)
(* kept, drawn, and unmarked after drawing.                                *)
(*                                                                         *)
(* The component stores operations in dicts keyed by uid (tasks, maps,    *)
(* copies, acquires, releases) or in a set (closes).  CopyOp objects and   *)
(* the Copy objects of add_copy_events share the dict copies, and a Copy's *)
(* uid comes from the counter State.copy_uid, not from the operation uids: *)
(* two units with one slot leave one entry, the one added last.  The walk  *)
(* is a single recursive call with no other effect, so it is one step     *)
(* here; which of two colliding units is added last depends on the set    *)
(* iteration order and is a nondeterministic choice.                       *)
(***************************************************************************)
EXTENDS Naturals, Sequences, FiniteSets

CONSTANTS
  Events,       \* the Event objects of State.events
  NoEvent,      \* the event whose handle has uid 0 (handle.exists() is false)
  Units,        \* operations and Copy objects that have events
  Container,    \* unit -> "tasks", "maps", "closes", "copies", "acquires" or "releases"
  Key,          \* unit -> the uid it is stored under
  UnitEvents,   \* unit -> <<start event, termination event>>
  EdgeCandidates \* event pairs add_event_dependence may record

VARIABLES
  edges,    \* the recorded event-to-event orderings
  marked,   \* node -> physical_marked
  pending,  \* events print_pictures has still to start a component from
  comps,    \* the list components: [events, ops] of each kept component
  drawn,    \* components drawn and unmarked so far
  phase     \* "find", "draw", "done"

vars == <<edges, marked, pending, comps, drawn, phase>>

Nodes == Events \cup Units

\* The entry of a ConnectedComponent a unit occupies (add_task ... add_release).
Slot(u) == IF Container[u] = "closes" THEN <<"closes", u>>
                                      ELSE <<Container[u], Key[u]>>

\* The physical_traverse of an operation or Copy: its start, then its termination event.
UnitAdjacent(u) == {UnitEvents[u][1], UnitEvents[u][2]}

\* Event.physical_traverse without its loop over physical_incoming.
AdjacentOutgoingOnly(n) ==
  IF n \in Units THEN UnitAdjacent(n)
  ELSE {m \in Events : <<n, m>> \in edges}
         \cup {u \in Units : UnitEvents[u][1] = n}

(***************************************************************************)
(* The nodes physical_traverse calls next: a unit goes to its start and   *)
(* termination events; an event to physical_incoming (events ordered      *)
(* before it, units it terminates) and physical_outgoing (events after it, *)
(* units it starts).                                                       *)
(***************************************************************************)
Adjacent(n) ==
  IF n \in Units THEN UnitAdjacent(n)
  ELSE {m \in Events : <<m, n>> \in edges \/ <<n, m>> \in edges}
         \cup {u \in Units : n \in {UnitEvents[u][1], UnitEvents[u][2]}}

\* The guard at the head of every physical_traverse.
Visitable(n) == ~marked[n] /\ n # NoEvent

\* The nodes one recursive walk from a set of entered nodes reaches.
RECURSIVE Walk(_)
Walk(S) ==
  LET S2 == S \cup {m \in UNION {Adjacent(n) : n \in S} : Visitable(m)}
  IN  IF S2 = S THEN S ELSE Walk(S2)

Reached(e) == IF Visitable(e) THEN Walk({e}) ELSE {}

\* The units a component keeps of the reached ones: one per slot.
Keepers(R) ==
  {K \in SUBSET (R \cap Units) :
     \A u \in R \cap Units : Cardinality({v \in K : Slot(v) = Slot(u)}) = 1}

\* ConnectedComponent.empty: num_ops counts the dict and set entries.
Empty(c) == Cardinality(c.ops) < 2

\* ConnectedComponent.unmark_all without its loop over the events.
UnmarkedNoEvents(c) == c.ops

\* The nodes ConnectedComponent.unmark_all unmarks: those it holds.
Unmarked(c) == c.events \cup c.ops

Init ==
  /\ edges \in SUBSET EdgeCandidates
  /\ marked = [n \in Nodes |-> FALSE]
  /\ pending = Events
  /\ comps = <<>>
  /\ drawn = 0
  /\ phase = "find"

(***************************************************************************)
(* One iteration of the first loop of print_pictures: a new component,    *)
(* the walk from e, then either keep it or unmark_all.                     *)
(***************************************************************************)
FindComponent(e) ==
  /\ phase = "find"
  /\ e \in pending
  /\ pending' = pending \ {e}
  /\ LET R == Reached(e) IN
     \E kept \in Keepers(R) :
       LET c == [events |-> R \cap Events, ops |-> kept] IN
       IF Empty(c)
         THEN /\ marked' = [n \in Nodes |-> (marked[n] \/ n \in R)
                                             /\ n \notin Unmarked(c)]
              /\ UNCHANGED comps
         ELSE /\ marked' = [n \in Nodes |-> marked[n] \/ n \in R]
              /\ comps' = Append(comps, c)
  /\ UNCHANGED <<edges, drawn, phase>>

EndFind ==
  /\ phase = "find"
  /\ pending = {}
  /\ phase' = "draw"
  /\ UNCHANGED <<edges, marked, pending, comps, drawn>>

\* The second loop: generate_graph (output only) and unmark_all.
Draw ==
  /\ phase = "draw"
  /\ drawn < Len(comps)
  /\ drawn' = drawn + 1
  /\ marked' = [n \in Nodes |-> marked[n] /\ n \notin Unmarked(comps[drawn + 1])]
  /\ UNCHANGED <<edges, pending, comps, phase>>

EndDraw ==
  /\ phase = "draw"
  /\ drawn = Len(comps)
  /\ phase' = "done"
  /\ UNCHANGED <<edges, marked, pending, comps, drawn>>

Next ==
  \/ \E e \in Events : FindComponent(e)
  \/ EndFind
  \/ Draw
  \/ EndDraw

Spec == Init /\ [][Next]_vars

-----------------------------------------------------------------------------
\* The physical graph as an undirected graph without the non-existent event.
PhysicalGraph ==
  [node |-> Nodes \ {NoEvent},
   edge |-> {{p[1], p[2]} : p \in edges}
              \cup {{u, UnitEvents[u][i]} : u \in Units, i \in 1..2}]

\* The nodes connected to the set S in the physical graph.
RECURSIVE ConnectedTo(_)
ConnectedTo(S) ==
  LET S2 == S \cup {n \in PhysicalGraph.node :
                      \E m \in S : {m, n} \in PhysicalGraph.edge}
  IN  IF S2 = S THEN S ELSE ConnectedTo(S2)

\* The maximal connected components of the physical graph.
ConnectedComponents == {ConnectedTo({n}) : n \in PhysicalGraph.node}

(***************************************************************************)
(* print_pictures draws exactly the maximal connected components of the   *)
(* physical graph that hold at least two operations, each with all its    *)
(* events and operations (design document, "connected-component            *)
(* extraction"): the marks left by earlier walks never cut a component,   *)
(* and no operation is lost from the component that holds it.             *)
(***************************************************************************)
ComponentsMaximal ==
  phase = "done" =>
    {comps[i].events \cup comps[i].ops : i \in 1..Len(comps)}
      = {C \in ConnectedComponents :
           Cardinality(C \cap Units) >= 2}

(***************************************************************************)
(* When print_pictures returns, no node is left marked, so the next walk  *)
(* over the same graph (print_instance_graphs) sees all of it.             *)
(***************************************************************************)
MarksClearedAfterDrawing ==
  phase = "done" => \A n \in Nodes : ~marked[n]
====
