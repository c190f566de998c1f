---------------------------- MODULE ContractGraph ----------------------------
(***************************************************************************)
(* The executable contract of interest (todo/reference_model/              *)
(* spatial_model.py, class ReplicationGraph): actors registered in the     *)
(* cells they can be seen from and in global and owner lists, and what one *)
(* connection gathers from them.                                           *)
(*                                                                         *)
(* The world has one dimension; the team route repeats the owner route;    *)
(* the caps on observers and on what a connection declares are left out.   *)
(***************************************************************************)
EXTENDS Integers, FiniteSets
LOCAL INSTANCE FiniteSetsExt

CONSTANTS
  ActorKeys,
  ActorChoices,        \* what an actor may be: records [position, route, cull,
                       \* owner, dependencies]
  Views,               \* connections: [connection, observers, forbidden, grants,
                       \* roots]
  CellSize, LeaveMargin,
  MaxMemberships, MaxCells, MaxRequired

ContractGraphAssumption ==
  CellSize \in Nat \ {0} /\ {LeaveMargin, MaxMemberships, MaxCells, MaxRequired} \subseteq Nat

VARIABLES
  placed,      \* actors
  cells,       \* cell -> keys, for the cells that are not empty
  lists,       \* globals, and owners by connection
  memberships, \* total_memberships
  dirty

graphVars == <<placed, cells, lists, memberships, dirty>>

NoActor == [route |-> "absent"]

CellOf(x) == x \div CellSize

\* Mutant: the cells within the cull radius alone.
MutantCoverage(a) ==
  IF a.route # "spatial" THEN {} ELSE CellOf(a.position - a.cull)..CellOf(a.position + a.cull)

\* _coverage: every cell from which the actor may be kept.
Coverage(a) ==
  IF a.route # "spatial" THEN {}
  ELSE CellOf(a.position - a.cull - LeaveMargin)..CellOf(a.position + a.cull + LeaveMargin)

\* The index without key k, and what remove does to the lists.
CellsWithout(k) ==
  LET left == {c \in DOMAIN cells : cells[c] # {k}}
  IN [c \in left |-> cells[c] \ {k}]

ListsWithout(k) ==
  [globals |-> lists.globals \ {k}, owners |-> [o \in DOMAIN lists.owners |-> lists.owners[o] \ {k}]]

Old(k) == IF placed[k] = NoActor THEN {} ELSE Coverage(placed[k])

\* upsert, when neither cap refuses it.
Upsert(k, a) ==
  LET without == CellsWithout(k)
      footprint == Coverage(a)
      all == DOMAIN without \cup footprint
      total == memberships - Cardinality(Old(k)) + Cardinality(footprint)
      bare == ListsWithout(k)
  IN /\ total <= MaxMemberships /\ Cardinality(all) <= MaxCells
     /\ placed' = [placed EXCEPT ![k] = a]
     /\ cells' = [c \in all |-> (IF c \in DOMAIN without THEN without[c] ELSE {})
                                \cup (IF c \in footprint THEN {k} ELSE {})]
     /\ lists' = CASE a.route = "global" -> [bare EXCEPT !.globals = @ \cup {k}]
                   [] a.route = "owner" -> [bare EXCEPT !.owners[a.owner] = @ \cup {k}]
                   [] OTHER -> bare
     /\ memberships' = total
     /\ dirty' = TRUE

RemoveActor(k) ==
  /\ placed[k] # NoActor
  /\ placed' = [placed EXCEPT ![k] = NoActor]
  /\ cells' = CellsWithout(k)
  /\ lists' = ListsWithout(k)
  /\ memberships' = memberships - Cardinality(Old(k))
  /\ dirty' = TRUE

Prepare ==
  /\ dirty' = FALSE
  /\ UNCHANGED <<placed, cells, lists, memberships>>

PermittedTo(k, v) ==
  LET a == placed[k]
  IN /\ a # NoActor /\ a.route # "none" /\ k \notin v.forbidden
     /\ a.route = "owner" => a.owner = v.connection

Apart(x, y) == IF x < y THEN y - x ELSE x - y

Within(k, v, previous) ==
  \E p \in v.observers :
    Apart(p, placed[k].position) <= placed[k].cull + (IF k \in previous THEN LeaveMargin ELSE 0)

\* The closure of the prediction roots, or none of it: a missing or forbidden
\* member, or one too many, denies the whole.
Required(v) ==
  LET grow[n \in 0..Cardinality(ActorKeys)] ==
        IF n = 0 THEN v.roots
        ELSE grow[n - 1] \cup UNION {placed[k].dependencies : k \in {j \in grow[n - 1] :
                                                                     placed[j] # NoActor}}
      closure == grow[Cardinality(ActorKeys)]
  IN IF Cardinality(closure) <= MaxRequired /\ \A k \in closure : PermittedTo(k, v)
     THEN closure ELSE {}

\* gather: candidates from the lists and the observers' cells, then the exact
\* filter.
Gathered(v, previous) ==
  LET listed == lists.globals \cup v.grants
                \cup (IF v.connection \in DOMAIN lists.owners THEN lists.owners[v.connection] ELSE {})
      near == UNION {IF CellOf(p) \in DOMAIN cells THEN cells[CellOf(p)] ELSE {} : p \in v.observers}
  IN {k \in listed \cup near : PermittedTo(k, v) /\ (k \in listed \/ Within(k, v, previous))}
     \cup Required(v)

GraphInit ==
  /\ placed = [k \in ActorKeys |-> NoActor]
  /\ cells = << >>
  /\ lists = [globals |-> {}, owners |-> [o \in {v.connection : v \in Views} |-> {}]]
  /\ memberships = 0
  /\ dirty = TRUE

GraphNext ==
  \/ \E k \in ActorKeys : RemoveActor(k) \/ \E a \in ActorChoices : Upsert(k, a)
  \/ Prepare

GraphSpec == GraphInit /\ [][GraphNext]_graphVars

-----------------------------------------------------------------------------
\* After any changes of place, radius and route, what a connection gathers from
\* its cells and lists is what a scan of every actor finds: those it may see
\* that are global, its own, granted, within their radius of an observer (or
\* within the margin, if it had them before), and its whole dependency closure
\* or none of it; and the membership count is that of the cells.
GatherExact ==
  /\ memberships = FoldSet(LAMBDA c, n : n + Cardinality(cells[c]), 0, DOMAIN cells)
  /\ ~dirty =>
       \A v \in Views, previous \in SUBSET ActorKeys :
         Gathered(v, previous) =
           {k \in ActorKeys : PermittedTo(k, v) /\
              \/ placed[k].route \in {"global", "owner"} \/ k \in v.grants
              \/ placed[k].route = "spatial" /\ Within(k, v, previous)}
           \cup Required(v)
=============================================================================
