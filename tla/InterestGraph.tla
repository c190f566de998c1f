---------------------------- MODULE InterestGraph ----------------------------
(***************************************************************************)
(* The replication graph (engine/net/src/interest): the persistent index   *)
(* from which the server finds, for one connection, the entities it may be *)
(* told about, without looking at the others.                              *)
(*                                                                         *)
(* A graph is a record of                                                  *)
(*   entities     id -> registration,                                      *)
(*   cells        cell -> the ids whose footprint covers it,               *)
(*   globals, owners, dynamic     the route lists,                         *)
(*   memberships, routed          the counters of the accounting,          *)
(*   connections  connection -> its view.                                  *)
(* An id is [index, generation].  The ground is a line: a cell is an       *)
(* interval, a footprint a run of cells.  A change that the code refuses   *)
(* leaves the graph as it is.                                              *)
(*                                                                         *)
(* Left out: the limits on entities, cells and candidates; semantic routes *)
(* and static spatial routes, which the game does not use; the monotonic   *)
(* tick, frame and policy, which the only caller advances; the state       *)
(* version (see Disclosure).                                               *)
(***************************************************************************)
EXTENDS Integers, FiniteSets, Functions, TLC
LOCAL INSTANCE FiniteSetsExt

CONSTANTS
  CellSize,      \* Limits.cell_size
  LeaveMargin,   \* Limits.leave_margin
  Prefetch,      \* Limits.prefetch
  CullRadius,    \* the adapter's cull radius
  Extent,        \* bound: every footprint lies in 0..Extent
  Connections    \* connection ids

GraphAssumption ==
  /\ CellSize \in Nat \ {0} /\ Extent \in Nat
  /\ {LeaveMargin, Prefetch, CullRadius} \subseteq Nat

NoConnection == 0

Cell(x) == x \div CellSize

\* Everything within reach of an entity, rounded up to cells.
Reach(e) == e.radius + CullRadius + LeaveMargin + Prefetch

GridCells == Cell(0)..Cell(Extent)

Footprint(e) == IF e.spatial THEN Cell(e.at - Reach(e))..Cell(e.at + Reach(e)) ELSE {}

NeedsRefresh(e) == e.spatial /\ ~e.dormant

RouteCount(e) == (IF e.global THEN 1 ELSE 0) + (IF e.owner # NoConnection THEN 1 ELSE 0)

EmptyGraph ==
  [entities |-> << >>, cells |-> [c \in GridCells |-> {}], globals |-> {},
   owners |-> [c \in Connections |-> {}], dynamic |-> {},
   memberships |-> 0, routed |-> 0, connections |-> << >>]

\* remove_indices.
Unindexed(g, id) ==
  IF id \notin DOMAIN g.entities THEN g
  ELSE LET e == g.entities[id]
       IN [g EXCEPT !.entities = Restrict(@, DOMAIN @ \ {id}),
                    !.cells = [c \in GridCells |-> @[c] \ {id}],
                    !.globals = @ \ {id},
                    !.owners = [c \in Connections |-> @[c] \ {id}],
                    !.dynamic = @ \ {id},
                    !.memberships = @ - Cardinality(Footprint(e)),
                    !.routed = @ - RouteCount(e)]

Indexed(g, e) ==
  [g EXCEPT !.entities = (e.id :> e) @@ @,
            !.cells = [c \in GridCells |-> IF c \in Footprint(e) THEN @[c] \cup {e.id} ELSE @[c]],
            !.globals = IF e.global THEN @ \cup {e.id} ELSE @,
            !.owners = [c \in Connections |-> IF e.owner = c THEN @[c] \cup {e.id} ELSE @[c]],
            !.dynamic = IF NeedsRefresh(e) THEN @ \cup {e.id} ELSE @,
            !.memberships = @ + Cardinality(Footprint(e)),
            !.routed = @ + RouteCount(e)]

SameRoutes(a, b) == a.spatial = b.spatial /\ a.global = b.global /\ a.owner = b.owner

\* Mutant: an entity that keeps its routes is taken to keep its cells.
MutantSameFootprint(g, e) ==
  e.id \in DOMAIN g.entities /\ SameRoutes(g.entities[e.id], e)

\* No reverse list changes: the routes are the same and so are the cells.
SameFootprint(g, e) ==
  /\ e.id \in DOMAIN g.entities
  /\ SameRoutes(g.entities[e.id], e)
  /\ Footprint(g.entities[e.id]) = Footprint(e)

\* apply(Upsert).  Another generation of the index is a GenerationConflict.
Upserted(g, e) ==
  CASE \E id \in DOMAIN g.entities : id.index = e.id.index /\ id # e.id -> g
    [] SameFootprint(g, e) ->
         [g EXCEPT !.entities[e.id] = e,
                   !.dynamic = IF NeedsRefresh(e) THEN @ \cup {e.id} ELSE @ \ {e.id}]
    [] OTHER -> Indexed(Unindexed(g, e.id), e)

\* remove_connection.  A connection's view is the position of its pawn, or
\* NoView before its scene is ready.
NoView == -1

Disconnected(g, c) == [g EXCEPT !.connections = Restrict(@, DOMAIN @ \ {c})]

-----------------------------------------------------------------------------
(* gather.                                                                  *)

Distance(x, y) == IF x < y THEN y - x ELSE x - y

\* spatially_eligible: an entity already disclosed leaves a margin later.
SpatiallyEligible(e, view, previous) ==
  Distance(e.at, view) <= e.radius + CullRadius + Prefetch
                          + (IF e.id \in previous THEN LeaveMargin ELSE 0)

\* permitted: hard visibility, and a ready scene.
Permitted(e, c, view) == view # NoView /\ e.visible \in {NoConnection, c}

\* The broad phase reads only the lists.
Candidates(g, c, view) ==
  g.globals \cup g.owners[c] \cup (IF view = NoView THEN {} ELSE g.cells[Cell(view)])

\* The entities eligible on their own.
Entries(g, c, previous) ==
  LET view == g.connections[c]
  IN {id \in Candidates(g, c, view) :
        LET e == g.entities[id]
        IN /\ Permitted(e, c, view)
           /\ \/ id \in g.globals \cup g.owners[c]
              \/ SpatiallyEligible(e, view, previous)}

\* required: the closure of the roots under declared dependencies.  One member
\* that is missing, not permitted or not predictable, or one edge that the
\* policy denies, denies the whole group.
Closure(g, roots) ==
  LET deps(ids) == UNION {g.entities[id].dependencies : id \in ids \cap DOMAIN g.entities}
      closed[n \in 0..Cardinality(DOMAIN g.entities)] ==
        IF n = 0 THEN roots ELSE closed[n - 1] \cup deps(closed[n - 1])
  IN closed[Cardinality(DOMAIN g.entities)]

Admitted(g, c, roots, edges, predictable) ==
  LET members == Closure(g, roots)
  IN /\ roots # {}
     /\ members \subseteq DOMAIN g.entities
     /\ \A id \in members :
          /\ Permitted(g.entities[id], c, g.connections[c])
          /\ id \in predictable
          /\ {id} \X g.entities[id].dependencies \subseteq edges

\* The index tells the truth about the registrations.
IndexExact(g) ==
  LET ids == DOMAIN g.entities
  IN /\ \A c \in GridCells : g.cells[c] = {id \in ids : c \in Footprint(g.entities[id])}
     /\ g.globals = {id \in ids : g.entities[id].global}
     /\ \A c \in Connections : g.owners[c] = {id \in ids : g.entities[id].owner = c}
     /\ g.dynamic = {id \in ids : NeedsRefresh(g.entities[id])}
     /\ g.memberships = MapThenSumSet(LAMBDA c : Cardinality(g.cells[c]), GridCells)
     /\ g.routed = MapThenSumSet(LAMBDA id : RouteCount(g.entities[id]), ids)
=============================================================================
