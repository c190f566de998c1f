---------------------------- MODULE GroupTopology ----------------------------
(***************************************************************************)
(* The predicted groups of one connection and the fences between their     *)
(* topologies (engine/net/src/prediction/manager.rs): groups are           *)
(* initialized from complete publications, corrected by later ones, merged *)
(* and split by replace_groups, and removed.  The bounded table            *)
(* TopologyFences outlives a replaced group, so that a delayed publication *)
(* of a topology that was replaced cannot come back.                       *)
(*                                                                         *)
(* A publication is a record:                                              *)
(*   group, revision, snapshot, tick   its identity and its end tick;      *)
(*   members     the manifest: entity index -> the numbers of its scope    *)
(*               identity (generation, scope, representation);             *)
(*   owner       the index of the owner the binding names;                 *)
(*   connection  the connection of the binding's owner context;            *)
(*   life        the binding's generation, ownership, stream and teleport  *)
(*               segment;                                                  *)
(*   scene       the binding's scene revision.                             *)
(* The publications that may arrive, in any order and any number of times, *)
(* are the constant Published.                                             *)
(*                                                                         *)
(* A failed operation changes nothing, so it is no action.  Left out: the  *)
(* frames of a group (PredictionManager), the byte budgets, which only     *)
(* refuse, the set of cancelled events that replace_groups returns, and    *)
(* that a binding names its member's generation and is not zero.           *)
(***************************************************************************)
EXTENDS Integers, FiniteSets

CONSTANTS
  Groups,          \* group ids
  Indices,         \* entity indices
  ScopeParts,      \* the numbers of a scope identity
  LifeParts,       \* the numbers of an owner's binding
  Connections,     \* client connections a binding may name
  Published,       \* the complete publications that may be admitted
  MaxGroups,       \* PredictionLimits.groups
  PerGroup,        \* PredictionLimits.entities_per_group
  MaxEntities,     \* PredictionLimits.total_entities
  FencedGroups,    \* groups * (history_ticks + 1)
  FencedMembers    \* total_entities * (history_ticks + 1)

NoBinding == [connection |-> "none"]

WellFormed(p) ==
  /\ {p.revision, p.snapshot, p.tick, p.scene} \subseteq Nat
  /\ p.group \in Groups /\ p.owner \in Indices /\ p.connection \in Connections
  /\ DOMAIN p.members \subseteq Indices
  /\ \A i \in DOMAIN p.members : p.members[i] \in [ScopeParts -> Nat]
  /\ p.life \in [LifeParts -> Nat]

\* The entities are finitely many and the publications are well formed.
ASSUME TopologyAssumption ==
  /\ IsFiniteSet(Indices)
  /\ \A p \in Published : WellFormed(p)
  /\ {MaxGroups, PerGroup, MaxEntities, FencedGroups, FencedMembers} \subseteq Nat \ {0}

VARIABLES
  live,        \* PredictionManager.groups: group -> the publication it started
               \* from, its last snapshot and the tick of its checkpoint
  entities,    \* PredictionManager.entities
  groupFence,  \* TopologyFences.groups: group -> revision, snapshot, tick
  memberFence, \* TopologyFences.members: index -> numbers, scene, binding
  retired      \* history: the [group, revision] that replace_groups retired

topologyVars == <<live, entities, groupFence, memberFence, retired>>

-----------------------------------------------------------------------------
(* TopologyFences.                                                          *)

\* Some number of new is below the same number of old.
Behind(new, old) == \E part \in DOMAIN old : new[part] < old[part]

Binding(p) == [connection |-> p.connection, life |-> p.life]

\* The owner's context continues the one recorded before it.
Continues(p, binding) == binding # NoBinding =>
  p.connection = binding.connection /\ ~Behind(p.life, binding.life)

Entity(p) == DOMAIN p.members

\* record, for the histories hs: each writes the fence of its group and of its
\* members, and only the binding's own entity gets a new binding.
Recorded(fence, hs) ==
  [g \in DOMAIN fence \cup {h.from.group : h \in hs} |->
     IF \E h \in hs : h.from.group = g
     THEN LET h == CHOOSE h \in hs : h.from.group = g
          IN [revision |-> h.from.revision, snapshot |-> h.snapshot, tick |-> h.tick]
     ELSE fence[g]]

\* The writer of index i among the histories hs.
Writer(hs, i) == CHOOSE h \in hs : i \in Entity(h.from)

RecordedMembers(fence, hs) ==
  [i \in DOMAIN fence \cup UNION {Entity(h.from) : h \in hs} |->
     IF \E h \in hs : i \in Entity(h.from)
     THEN LET p == Writer(hs, i).from
          IN [numbers |-> p.members[i], scene |-> p.scene,
              binding |-> IF i = p.owner THEN Binding(p)
                          ELSE IF i \in DOMAIN fence THEN fence[i].binding ELSE NoBinding]
     ELSE fence[i]]

\* The revision of the fence itself may come back.
MutantPastGroup(fence, p) == p.group \in DOMAIN fence =>
  /\ p.revision >= fence[p.group].revision
  /\ p.snapshot >= fence[p.group].snapshot
  /\ p.tick >= fence[p.group].tick

\* validate.
PastGroup(fence, p) == p.group \in DOMAIN fence =>
  /\ p.revision > fence[p.group].revision
  /\ p.snapshot > fence[p.group].snapshot
  /\ p.tick >= fence[p.group].tick

\* Only the member that is the owner is looked up.
MutantPastMembers(fence, p) == \A i \in Entity(p) \cap DOMAIN fence :
  i = p.owner =>
    /\ ~Behind(p.members[i], fence[i].numbers)
    /\ p.scene >= fence[i].scene
    /\ Continues(p, fence[i].binding)

PastMembers(fence, p) == \A i \in Entity(p) \cap DOMAIN fence :
  /\ ~Behind(p.members[i], fence[i].numbers)
  /\ p.scene >= fence[i].scene
  /\ i = p.owner => Continues(p, fence[i].binding)

-----------------------------------------------------------------------------
(* PredictionManager.                                                       *)

Started(p) == [from |-> p, snapshot |-> p.snapshot, tick |-> p.tick]

\* The entities that the groups gs predict.
Written(gs) == UNION {Entity(live[g].from) : g \in gs}

TopologyInit ==
  /\ live = <<>>
  /\ entities = 0
  /\ groupFence = <<>>
  /\ memberFence = <<>>
  /\ retired = {}

\* What initialize asks of a publication alone.
Proper(p) == p.owner \in Entity(p) /\ Cardinality(Entity(p)) <= PerGroup

Initialize(p) ==
  /\ p.group \notin DOMAIN live
  /\ PastGroup(groupFence, p) /\ PastMembers(memberFence, p)
  /\ Proper(p)
  /\ Cardinality(DOMAIN live) < MaxGroups
  /\ entities + Cardinality(Entity(p)) <= MaxEntities
  /\ Entity(p) \cap Written(DOMAIN live) = {}
  /\ live' = [g \in DOMAIN live \cup {p.group} |->
                IF g = p.group THEN Started(p) ELSE live[g]]
  /\ entities' = entities + Cardinality(Entity(p))
  /\ UNCHANGED <<groupFence, memberFence, retired>>

\* reconcile admits a later checkpoint of the same identity: the same revision,
\* binding and manifest.
Admit(p) ==
  /\ p.group \in DOMAIN live
  /\ LET h == live[p.group]
     IN /\ p.revision = h.from.revision /\ p.snapshot > h.snapshot /\ p.tick >= h.tick
        /\ p.members = h.from.members /\ p.owner = h.from.owner
        /\ Binding(p) = Binding(h.from) /\ p.scene = h.from.scene
  /\ live' = [live EXCEPT ![p.group].snapshot = p.snapshot, ![p.group].tick = p.tick]
  /\ UNCHANGED <<entities, groupFence, memberFence, retired>>

\* A replacement against one retired history.
Supersedes(p, h) ==
  /\ p.tick >= h.tick
  /\ p.scene >= h.from.scene
  /\ p.group = h.from.group => p.revision > h.from.revision /\ p.snapshot > h.snapshot
  /\ p.owner = h.from.owner => Continues(p, Binding(h.from))
  /\ \A i \in Entity(p) \cap Entity(h.from) : ~Behind(p.members[i], h.from.members[i])

\* The staged manager takes every replacement: one group and one writer each.
Stageable(batch) ==
  /\ \A p \in batch : Proper(p)
  /\ \A p, q \in batch : p # q => p.group # q.group /\ Entity(p) \cap Entity(q) = {}

\* The replacements are not compared with the groups that stay.
MutantClear(batch, old) == \A p \in batch : p.group \in DOMAIN live => p.group \in old

\* No replacement takes the id or an entity of a group that stays.
Clear(batch, old) == \A p \in batch :
  /\ p.group \in DOMAIN live => p.group \in old
  /\ Entity(p) \cap Written(DOMAIN live \ old) = {}

\* The groups and entities that a replacement leaves fit the budgets.
WithinLimits(old, batch) ==
  /\ old # {} /\ batch # {}
  /\ Cardinality(DOMAIN live) - Cardinality(old) + Cardinality(batch) <= MaxGroups
  /\ entities - Cardinality(Written(old)) + Cardinality(UNION {Entity(p) : p \in batch})
       <= MaxEntities

Replace(old, batch) ==
  LET olds     == {live[g] : g \in old}
      staged   == {Started(p) : p \in batch}
      added    == UNION {Entity(p) : p \in batch}
      passedG  == Recorded(groupFence, olds)
      passedM  == RecordedMembers(memberFence, olds)
      newG     == Recorded(passedG, staged)
      newM     == RecordedMembers(passedM, staged)
  IN /\ WithinLimits(old, batch)
     /\ \A p \in batch : PastGroup(passedG, p) /\ PastMembers(passedM, p)
     /\ \A p, q \in batch : p.tick = q.tick
     /\ \A p \in batch, h \in olds : Supersedes(p, h)
     /\ Clear(batch, old)
     /\ Stageable(batch)
     /\ Cardinality(DOMAIN newG) <= FencedGroups
     /\ Cardinality(DOMAIN newM) <= FencedMembers
     /\ live' = [g \in (DOMAIN live \ old) \cup {p.group : p \in batch} |->
                   IF \E p \in batch : p.group = g
                   THEN Started(CHOOSE p \in batch : p.group = g)
                   ELSE live[g]]
     /\ entities' = entities - Cardinality(Written(old)) + Cardinality(added)
     /\ groupFence' = newG
     /\ memberFence' = newM
     /\ retired' = retired \cup {[group |-> h.from.group, revision |-> h.from.revision] : h \in olds}

\* remove_group records no fence.
RemoveGroup(g) ==
  /\ live' = [k \in DOMAIN live \ {g} |-> live[k]]
  /\ entities' = entities - Cardinality(Entity(live[g].from))
  /\ UNCHANGED <<groupFence, memberFence, retired>>

TopologyNext ==
  \/ \E p \in Published : Initialize(p)
  \/ \E p \in Published : Admit(p)
  \/ \E old \in SUBSET DOMAIN live, batch \in SUBSET Published : Replace(old, batch)
  \/ \E g \in DOMAIN live : RemoveGroup(g)

TopologySpec == TopologyInit /\ [][TopologyNext]_topologyVars

-----------------------------------------------------------------------------
(* Properties.                                                              *)

\* A predicted entity has one writer, however groups are merged, split,
\* removed and initialized again, and the entity budget is charged for exactly
\* the entities that are predicted.
OneWriter ==
  /\ \A g, h \in DOMAIN live : g # h => Entity(live[g].from) \cap Entity(live[h].from) = {}
  /\ entities = Cardinality(Written(DOMAIN live))

\* A topology that replace_groups retired never predicts again: no group lives
\* at a revision that was retired or precedes one, however late its
\* publications arrive and whatever was removed in between.
RetiredNeverReturns ==
  \A g \in DOMAIN live, r \in retired :
    r.group = g => live[g].from.revision > r.revision

\* The topologies that predict are disjoint and none of them is retired.
TopologySound == OneWriter /\ RetiredNeverReturns

\* The fences only advance: no step forgets a fence or moves one back, so what
\* they refuse is refused for the rest of the connection.
FencesMoveOn ==
  /\ \A g \in DOMAIN groupFence :
       /\ g \in DOMAIN groupFence'
       /\ groupFence'[g].revision >= groupFence[g].revision
       /\ groupFence'[g].snapshot >= groupFence[g].snapshot
       /\ groupFence'[g].tick >= groupFence[g].tick
  /\ \A i \in DOMAIN memberFence :
       /\ i \in DOMAIN memberFence'
       /\ ~Behind(memberFence'[i].numbers, memberFence[i].numbers)
       /\ memberFence'[i].scene >= memberFence[i].scene
       /\ memberFence[i].binding # NoBinding =>
            /\ memberFence'[i].binding # NoBinding
            /\ ~Behind(memberFence'[i].binding.life, memberFence[i].binding.life)

\* Every step of the manager moves its fences on: the tombstones that keep late
\* publications of replaced groups and departed members out never go back.
FencesAdvance == [][FencesMoveOn]_topologyVars
=============================================================================
