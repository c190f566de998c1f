------------------------ MODULE GroupTopologyProofs -------------------------
(***************************************************************************)
(* Proofs about GroupTopology, for every set of publications: predicted    *)
(* entities have one writer, retired topologies do not come back and the   *)
(* fences only advance.                                                    *)
(***************************************************************************)
EXTENDS GroupTopology, FiniteSetTheorems, TLAPS

History == [from : Published, snapshot : Nat, tick : Nat]
GroupMark == [revision : Nat, snapshot : Nat, tick : Nat]
Bindings == [connection : Connections, life : [LifeParts -> Nat]]
MemberMark ==
  [numbers : [ScopeParts -> Nat], scene : Nat, binding : Bindings \cup {NoBinding}]

\* What record writes for a history and for the member i of a publication, over
\* the binding that was there before.
Mark(h) == [revision |-> h.from.revision, snapshot |-> h.snapshot, tick |-> h.tick]
MarkOf(p, i, before) ==
  [numbers |-> p.members[i], scene |-> p.scene,
   binding |-> IF i = p.owner THEN Binding(p) ELSE before]
BindingBefore(fence, i) == IF i \in DOMAIN fence THEN fence[i].binding ELSE NoBinding

\* A mark is not before another one.
AtLeast(m, n) ==
  m.revision >= n.revision /\ m.snapshot >= n.snapshot /\ m.tick >= n.tick
Follows(m, n) ==
  /\ ~Behind(m.numbers, n.numbers)
  /\ m.scene >= n.scene
  /\ n.binding # NoBinding => /\ m.binding # NoBinding
                              /\ ~Behind(m.binding.life, n.binding.life)

TopologyTypes ==
  /\ live \in [DOMAIN live -> History]
  /\ \A g \in DOMAIN live : live[g].from.group = g
  /\ groupFence \in [DOMAIN groupFence -> GroupMark]
  /\ memberFence \in [DOMAIN memberFence -> MemberMark]

\* No group lives behind a fence.
LivePastFences ==
  /\ \A g \in DOMAIN live \cap DOMAIN groupFence : AtLeast(Mark(live[g]), groupFence[g])
  /\ \A g \in DOMAIN live : PastMembers(memberFence, live[g].from)

\* A fence covers everything that was retired.
RetiredFenced ==
  \A r \in retired : /\ r.revision \in Nat
                     /\ r.group \in DOMAIN groupFence
                     /\ groupFence[r.group].revision >= r.revision

\* The inductive invariant.
TopologyInv ==
  /\ TopologyTypes /\ OneWriter /\ LivePastFences /\ RetiredFenced /\ RetiredNeverReturns

-----------------------------------------------------------------------------
(* The operators.                                                           *)

LEMMA PublicationFacts ==
  ASSUME NEW p \in Published
  PROVE  /\ p.revision \in Nat /\ p.snapshot \in Nat /\ p.tick \in Nat /\ p.scene \in Nat
         /\ IsFiniteSet(Entity(p)) /\ Entity(p) \subseteq Indices
         /\ \A i \in Entity(p) : p.members[i] \in [ScopeParts -> Nat]
         /\ Binding(p) \in Bindings
         /\ Started(p) \in History /\ Started(p).from = p
         /\ Mark(Started(p)) \in GroupMark
<1>1. WellFormed(p) /\ IsFiniteSet(Indices)
  BY Zenon, TopologyAssumption
<1>2. p.revision \in Nat /\ p.snapshot \in Nat /\ p.tick \in Nat /\ p.scene \in Nat
  BY Zenon, <1>1 DEF WellFormed
<1>3. Entity(p) \subseteq Indices /\ \A i \in Entity(p) : p.members[i] \in [ScopeParts -> Nat]
  BY Zenon, <1>1 DEF WellFormed, Entity
<1>4. IsFiniteSet(Entity(p))
  BY Zenon, <1>1, <1>3, FS_Subset
<1>5. Binding(p) \in Bindings
  BY Zenon, <1>1 DEF WellFormed, Binding, Bindings
<1> QED
  BY Zenon, <1>2, <1>3, <1>4, <1>5 DEF Started, History, Mark, GroupMark

LEMMA BindingIsSome ==
  ASSUME NEW p
  PROVE  Binding(p) # NoBinding
<1>1. "life" \in DOMAIN Binding(p) /\ "life" \notin DOMAIN NoBinding
  BY Zenon DEF Binding, NoBinding
<1> QED
  BY Zenon, <1>1

\* Not being behind is an order on numbers of the same parts.
LEMMA BehindOrder ==
  ASSUME NEW S, NEW a \in [S -> Nat], NEW b \in [S -> Nat], NEW c \in [S -> Nat]
  PROVE  /\ ~Behind(a, a)
         /\ ~Behind(c, b) /\ ~Behind(b, a) => ~Behind(c, a)
<1>1. ~Behind(a, a)
  BY DEF Behind
<1>2. ASSUME ~Behind(c, b), ~Behind(b, a) PROVE ~Behind(c, a)
  <2> SUFFICES ASSUME NEW s \in S PROVE ~(c[s] < a[s])
    BY Zenon DEF Behind
  <2>1. ~(c[s] < b[s]) /\ ~(b[s] < a[s])
    BY Zenon, <1>2 DEF Behind
  <2> QED
    BY <2>1
<1> QED
  BY Zenon, <1>1, <1>2

LEMMA AtLeastOrder ==
  ASSUME NEW a \in GroupMark, NEW b \in GroupMark, NEW c \in GroupMark
  PROVE  /\ AtLeast(a, a)
         /\ AtLeast(c, b) /\ AtLeast(b, a) => AtLeast(c, a)
<1>1. /\ a.revision \in Nat /\ b.revision \in Nat /\ c.revision \in Nat
      /\ a.snapshot \in Nat /\ b.snapshot \in Nat /\ c.snapshot \in Nat
      /\ a.tick \in Nat /\ b.tick \in Nat /\ c.tick \in Nat
  BY Zenon DEF GroupMark
<1> QED
  BY <1>1 DEF AtLeast

LEMMA FollowsOrder ==
  ASSUME NEW a \in MemberMark, NEW b \in MemberMark, NEW c \in MemberMark
  PROVE  /\ Follows(a, a)
         /\ Follows(c, b) /\ Follows(b, a) => Follows(c, a)
<1>1. /\ a.numbers \in [ScopeParts -> Nat] /\ b.numbers \in [ScopeParts -> Nat]
      /\ c.numbers \in [ScopeParts -> Nat]
      /\ a.scene \in Nat /\ b.scene \in Nat /\ c.scene \in Nat
  BY Zenon DEF MemberMark
<1>2. \A m \in MemberMark : m.binding # NoBinding => m.binding.life \in [LifeParts -> Nat]
  BY Zenon DEF MemberMark, Bindings
<1>3. Follows(a, a)
  BY <1>1, <1>2, BehindOrder DEF Follows
<1>4. ASSUME Follows(c, b), Follows(b, a) PROVE Follows(c, a)
  <2>1. ~Behind(c.numbers, a.numbers)
    BY Zenon, <1>1, <1>4, BehindOrder DEF Follows
  <2>2. c.scene >= a.scene
    BY <1>1, <1>4 DEF Follows
  <2>3. ASSUME a.binding # NoBinding
        PROVE  c.binding # NoBinding /\ ~Behind(c.binding.life, a.binding.life)
    <3>1. /\ b.binding # NoBinding /\ ~Behind(b.binding.life, a.binding.life)
          /\ c.binding # NoBinding /\ ~Behind(c.binding.life, b.binding.life)
      BY Zenon, <1>4, <2>3 DEF Follows
    <3> QED
      BY <1>2, <2>3, <3>1, BehindOrder
  <2> QED
    BY Zenon, <2>1, <2>2, <2>3 DEF Follows
<1> QED
  BY Zenon, <1>3, <1>4

\* Histories that are recorded together have different groups and members.
Apart(hs) ==
  /\ \A h, k \in hs : h # k => h.from.group # k.from.group
  /\ \A h, k \in hs : h # k => Entity(h.from) \cap Entity(k.from) = {}

\* record writes the fence of each history's group and no other.
LEMMA RecordedFacts ==
  ASSUME NEW fence, fence \in [DOMAIN fence -> GroupMark], NEW hs \in SUBSET History, Apart(hs)
  PROVE  /\ Recorded(fence, hs) \in [DOMAIN Recorded(fence, hs) -> GroupMark]
         /\ DOMAIN Recorded(fence, hs) = DOMAIN fence \cup {h.from.group : h \in hs}
         /\ \A h \in hs : Recorded(fence, hs)[h.from.group] = Mark(h)
         /\ \A g \in DOMAIN fence :
              (\A h \in hs : h.from.group # g) => Recorded(fence, hs)[g] = fence[g]
<1> DEFINE R == Recorded(fence, hs)
<1>1. DOMAIN R = DOMAIN fence \cup {h.from.group : h \in hs}
  BY Zenon DEF Recorded
<1>2. ASSUME NEW h \in hs PROVE R[h.from.group] = Mark(h)
  <2> DEFINE k == CHOOSE k \in hs : k.from.group = h.from.group
  <2>1. k \in hs /\ k.from.group = h.from.group
    BY Zenon
  <2>2. k = h
    BY Zenon, <2>1 DEF Apart
  <2>3. R[h.from.group] =
          [revision |-> k.from.revision, snapshot |-> k.snapshot, tick |-> k.tick]
    BY Zenon DEF Recorded
  <2> QED
    BY Zenon, <2>2, <2>3 DEF Mark
<1>3. ASSUME NEW g \in DOMAIN fence, \A h \in hs : h.from.group # g
      PROVE  R[g] = fence[g]
  BY Zenon, <1>3 DEF Recorded
<1>4. ASSUME NEW g \in DOMAIN R PROVE R[g] \in GroupMark
  <2>1. \A h \in hs : Mark(h) \in GroupMark
    BY PublicationFacts DEF History, Mark, GroupMark
  <2> QED
    BY <1>1, <1>2, <1>3, <1>4, <2>1
<1>5. R = [g \in DOMAIN R |-> R[g]]
  BY Zenon DEF Recorded
<1> QED
  BY Zenon, <1>1, <1>2, <1>3, <1>4, <1>5

\* record writes the fence of each history's members, from its only writer.
LEMMA RecordedMembersFacts ==
  ASSUME NEW fence, fence \in [DOMAIN fence -> MemberMark], NEW hs \in SUBSET History, Apart(hs)
  PROVE  /\ RecordedMembers(fence, hs) \in [DOMAIN RecordedMembers(fence, hs) -> MemberMark]
         /\ DOMAIN RecordedMembers(fence, hs) =
              DOMAIN fence \cup UNION {Entity(h.from) : h \in hs}
         /\ \A h \in hs : \A i \in Entity(h.from) :
              RecordedMembers(fence, hs)[i] = MarkOf(h.from, i, BindingBefore(fence, i))
         /\ \A i \in DOMAIN fence :
              (\A h \in hs : i \notin Entity(h.from)) =>
                RecordedMembers(fence, hs)[i] = fence[i]
<1> DEFINE R == RecordedMembers(fence, hs)
<1>1. DOMAIN R = DOMAIN fence \cup UNION {Entity(h.from) : h \in hs}
  BY Zenon DEF RecordedMembers
<1>2. ASSUME NEW h \in hs, NEW i \in Entity(h.from)
      PROVE  R[i] = MarkOf(h.from, i, BindingBefore(fence, i))
  <2>1. Writer(hs, i) \in hs /\ i \in Entity(Writer(hs, i).from)
    BY Zenon DEF Writer
  <2>2. Writer(hs, i) = h
    BY Zenon, <2>1 DEF Apart
  <2>3. i \in DOMAIN fence \cup UNION {Entity(k.from) : k \in hs}
    BY Zenon
  <2>4. R[i] =
          [numbers |-> h.from.members[i], scene |-> h.from.scene,
           binding |-> IF i = h.from.owner THEN Binding(h.from)
                       ELSE IF i \in DOMAIN fence THEN fence[i].binding ELSE NoBinding]
    BY Zenon, <2>2, <2>3 DEF RecordedMembers
  <2> QED
    BY Zenon, <2>4 DEF MarkOf, BindingBefore
<1>3. ASSUME NEW i \in DOMAIN fence, \A h \in hs : i \notin Entity(h.from)
      PROVE  R[i] = fence[i]
  BY Zenon, <1>3 DEF RecordedMembers
<1>4. ASSUME NEW i \in DOMAIN R PROVE R[i] \in MemberMark
  <2>1. BindingBefore(fence, i) \in Bindings \cup {NoBinding}
    BY Zenon DEF BindingBefore, MemberMark
  <2>2. ASSUME NEW h \in hs, i \in Entity(h.from)
        PROVE  MarkOf(h.from, i, BindingBefore(fence, i)) \in MemberMark
    <3>1. h.from \in Published
      BY Zenon DEF History
    <3> QED
      BY Zenon, <2>1, <2>2, <3>1, PublicationFacts DEF MarkOf, MemberMark
  <2> QED
    BY Zenon, <1>1, <1>2, <1>3, <1>4, <2>2
<1>5. R = [i \in DOMAIN R |-> R[i]]
  BY Zenon DEF RecordedMembers
<1> QED
  BY Zenon, <1>1, <1>2, <1>3, <1>4, <1>5

\* Recording histories that are past the fences moves no fence back, and leaves
\* the histories past them.
LEMMA RecordAdvances ==
  ASSUME NEW gf, gf \in [DOMAIN gf -> GroupMark], NEW mf, mf \in [DOMAIN mf -> MemberMark],
         NEW hs \in SUBSET History, Apart(hs),
         \A h \in hs : h.from.group \in DOMAIN gf => AtLeast(Mark(h), gf[h.from.group]),
         \A h \in hs : PastMembers(mf, h.from)
  PROVE  /\ \A g \in DOMAIN gf : /\ g \in DOMAIN Recorded(gf, hs)
                                 /\ AtLeast(Recorded(gf, hs)[g], gf[g])
         /\ \A i \in DOMAIN mf : /\ i \in DOMAIN RecordedMembers(mf, hs)
                                 /\ Follows(RecordedMembers(mf, hs)[i], mf[i])
         /\ \A h \in hs : PastMembers(RecordedMembers(mf, hs), h.from)
<1> DEFINE G == Recorded(gf, hs)
           M == RecordedMembers(mf, hs)
<1>1. ASSUME NEW g \in DOMAIN gf PROVE g \in DOMAIN G /\ AtLeast(G[g], gf[g])
  <2>1. g \in DOMAIN G
    BY Zenon, RecordedFacts
  <2>2. ASSUME NEW h \in hs, h.from.group = g PROVE AtLeast(G[g], gf[g])
    BY Zenon, <2>2, RecordedFacts
  <2>3. CASE \A h \in hs : h.from.group # g
    <3>1. G[g] = gf[g] /\ gf[g] \in GroupMark
      BY Zenon, <2>3, RecordedFacts
    <3> QED
      BY Zenon, <2>1, <3>1, AtLeastOrder
  <2> QED
    BY Zenon, <2>1, <2>2, <2>3
<1>2. ASSUME NEW i \in DOMAIN mf PROVE i \in DOMAIN M /\ Follows(M[i], mf[i])
  <2>1. i \in DOMAIN M
    BY Zenon, RecordedMembersFacts
  <2>2. mf[i] \in MemberMark
    BY Zenon
  <2>3. ASSUME NEW h \in hs, i \in Entity(h.from) PROVE Follows(M[i], mf[i])
    <3>1. M[i] = MarkOf(h.from, i, mf[i].binding)
      BY ZenonT(30), <2>3, RecordedMembersFacts DEF BindingBefore
    <3>2. /\ ~Behind(h.from.members[i], mf[i].numbers)
          /\ h.from.scene >= mf[i].scene
          /\ i = h.from.owner => Continues(h.from, mf[i].binding)
      BY Zenon, <2>3 DEF PastMembers
    <3>3. /\ M[i].numbers = h.from.members[i] /\ M[i].scene = h.from.scene
          /\ M[i].binding = IF i = h.from.owner THEN Binding(h.from) ELSE mf[i].binding
      BY <3>1 DEF MarkOf
    <3>4. ASSUME mf[i].binding # NoBinding
          PROVE  /\ M[i].binding # NoBinding
                 /\ ~Behind(M[i].binding.life, mf[i].binding.life)
      <4>1. CASE i = h.from.owner
        <5>1. ~Behind(h.from.life, mf[i].binding.life)
          BY Zenon, <3>2, <3>4, <4>1 DEF Continues
        <5>2. M[i].binding = Binding(h.from) /\ Binding(h.from).life = h.from.life
          BY Zenon, <3>3, <4>1 DEF Binding
        <5> QED
          BY Zenon, <5>1, <5>2, BindingIsSome
      <4>2. CASE i # h.from.owner
        <5>1. M[i].binding = mf[i].binding /\ mf[i].binding.life \in [LifeParts -> Nat]
          BY Zenon, <2>2, <3>3, <3>4, <4>2 DEF MemberMark, Bindings
        <5> QED
          BY Zenon, <3>4, <5>1, BehindOrder
      <4> QED
        BY Zenon, <4>1, <4>2
    <3> QED
      BY Zenon, <3>2, <3>3, <3>4 DEF Follows
  <2>4. CASE \A h \in hs : i \notin Entity(h.from)
    <3>1. M[i] = mf[i]
      BY Zenon, <2>4, RecordedMembersFacts
    <3>2. Follows(mf[i], mf[i])
      BY Zenon, <2>2, FollowsOrder
    <3> QED
      BY Zenon, <2>1, <3>1, <3>2
  <2> QED
    BY Zenon, <2>1, <2>3, <2>4
<1>3. ASSUME NEW h \in hs PROVE PastMembers(M, h.from)
  <2> DEFINE p == h.from
  <2>1. p \in Published
    BY Zenon DEF History
  <2> SUFFICES ASSUME NEW i \in Entity(p)
               PROVE  /\ ~Behind(p.members[i], M[i].numbers)
                      /\ p.scene >= M[i].scene
                      /\ i = p.owner => Continues(p, M[i].binding)
    BY Zenon DEF PastMembers
  <2>2. M[i] = MarkOf(p, i, BindingBefore(mf, i))
    BY Zenon, RecordedMembersFacts
  <2>3. /\ M[i].numbers = p.members[i] /\ M[i].scene = p.scene
        /\ i = p.owner => M[i].binding = Binding(p)
    BY <2>2 DEF MarkOf
  <2>4. ~Behind(p.members[i], p.members[i]) /\ p.scene >= p.scene
    BY <2>1, PublicationFacts, BehindOrder
  <2>5. Continues(p, Binding(p))
    <3>1. p.life \in [LifeParts -> Nat]
      BY Zenon, <2>1, TopologyAssumption DEF WellFormed
    <3> QED
      BY Zenon, <3>1, BehindOrder DEF Continues, Binding
  <2> QED
    BY Zenon, <2>3, <2>4, <2>5
<1> QED
  BY Zenon, <1>1, <1>2, <1>3

-----------------------------------------------------------------------------
(* The steps.                                                               *)

LEMMA DisjointUnion ==
  ASSUME NEW S \in SUBSET Indices, NEW T \in SUBSET Indices, S \cap T = {}
  PROVE  /\ Cardinality(S \cup T) = Cardinality(S) + Cardinality(T)
         /\ Cardinality(S) \in Nat /\ Cardinality(T) \in Nat
<1>1. IsFiniteSet(S) /\ IsFiniteSet(T)
  BY Zenon, TopologyAssumption, FS_Subset
<1>2. Cardinality(S) \in Nat /\ Cardinality(T) \in Nat
  BY Zenon, <1>1, FS_CardinalityType
<1>3. Cardinality(S \cap T) = 0
  BY Zenon, FS_EmptySet
<1>4. Cardinality(S \cup T) = Cardinality(S) + Cardinality(T) - Cardinality(S \cap T)
  BY Zenon, <1>1, FS_Union
<1> QED
  BY <1>2, <1>3, <1>4

LEMMA WrittenIndices ==
  ASSUME TopologyTypes, NEW S \in SUBSET DOMAIN live
  PROVE  Written(S) \subseteq Indices
<1>1. \A g \in DOMAIN live : Entity(live[g].from) \subseteq Indices
  BY Zenon, PublicationFacts DEF TopologyTypes, History
<1> QED
  BY Zenon, <1>1 DEF Written

\* Groups that live apart write disjoint sets.
LEMMA WrittenApart ==
  ASSUME TopologyTypes, OneWriter, NEW S \in SUBSET DOMAIN live, NEW T \in SUBSET DOMAIN live,
         S \cap T = {}
  PROVE  /\ Written(S) \subseteq Indices /\ Written(T) \subseteq Indices
         /\ Written(S) \cap Written(T) = {}
         /\ Written(S \cup T) = Written(S) \cup Written(T)
<1>1. Written(S) \subseteq Indices /\ Written(T) \subseteq Indices
  BY Zenon, WrittenIndices
<1>2. \A g, h \in DOMAIN live : g # h => Entity(live[g].from) \cap Entity(live[h].from) = {}
  BY Zenon DEF OneWriter
<1>3. Written(S) \cap Written(T) = {}
  BY <1>2 DEF Written
<1>4. Written(S \cup T) = Written(S) \cup Written(T)
  BY Zenon DEF Written
<1> QED
  BY Zenon, <1>1, <1>3, <1>4

\* initialize starts a history past every fence, of entities that nothing else
\* predicts.
LEMMA InitializeInv ==
  ASSUME TopologyInv, NEW p \in Published, Initialize(p)
  PROVE  TopologyInv'
<1>1. /\ p.group \notin DOMAIN live
      /\ PastGroup(groupFence, p) /\ PastMembers(memberFence, p)
      /\ Entity(p) \cap Written(DOMAIN live) = {}
      /\ entities' = entities + Cardinality(Entity(p))
      /\ groupFence' = groupFence /\ memberFence' = memberFence /\ retired' = retired
  BY Zenon DEF Initialize
<1>2. /\ DOMAIN live' = DOMAIN live \cup {p.group}
      /\ live'[p.group] = Started(p)
      /\ \A g \in DOMAIN live : live'[g] = live[g]
      /\ live' = [g \in DOMAIN live' |-> live'[g]]
  BY Zenon, <1>1 DEF Initialize
<1>3. Started(p) \in History /\ Started(p).from = p
  BY Zenon, PublicationFacts
<1>4. TopologyTypes'
  BY Zenon, <1>1, <1>2, <1>3 DEF TopologyInv, TopologyTypes
<1>5. OneWriter'
  <2>1. \A g \in DOMAIN live : Entity(live[g].from) \cap Entity(p) = {}
    BY Zenon, <1>1 DEF Written
  <2>2. (\A g, h \in DOMAIN live : g # h => Entity(live[g].from) \cap Entity(live[h].from) = {})'
    BY <1>2, <1>3, <2>1 DEF TopologyInv, OneWriter
  <2>3. Written(DOMAIN live)' = Written(DOMAIN live) \cup Entity(p)
    BY <1>2, <1>3 DEF Written
  <2>4. Written(DOMAIN live) \subseteq Indices /\ Entity(p) \subseteq Indices
    BY Zenon, WrittenIndices, PublicationFacts DEF TopologyInv
  <2>5. Cardinality(Written(DOMAIN live) \cup Entity(p))
          = Cardinality(Written(DOMAIN live)) + Cardinality(Entity(p))
    BY Zenon, <1>1, <2>4, DisjointUnion
  <2> QED
    BY Zenon, <1>1, <2>2, <2>3, <2>5 DEF TopologyInv, OneWriter
<1>6. LivePastFences'
  <2>1. ASSUME NEW g \in DOMAIN live' \cap DOMAIN groupFence
        PROVE  AtLeast(Mark(live'[g]), groupFence[g])
    <3>1. CASE g = p.group
      <4>1. Mark(live'[g]) = [revision |-> p.revision, snapshot |-> p.snapshot, tick |-> p.tick]
        BY <1>2, <3>1 DEF Mark, Started
      <4>2. groupFence[g] \in GroupMark
        BY Zenon, <2>1 DEF TopologyInv, TopologyTypes
      <4> QED
        BY <1>1, <2>1, <3>1, <4>1, <4>2, PublicationFacts DEF PastGroup, AtLeast, GroupMark
    <3>2. CASE g # p.group
      BY Zenon, <1>2, <2>1, <3>2 DEF TopologyInv, LivePastFences
    <3> QED
      BY Zenon, <3>1, <3>2
  <2>2. \A g \in DOMAIN live' : PastMembers(memberFence, live'[g].from)
    BY Zenon, <1>1, <1>2, <1>3 DEF TopologyInv, LivePastFences
  <2> QED
    BY Zenon, <1>1, <2>1, <2>2 DEF LivePastFences
<1>7. RetiredFenced'
  BY Zenon, <1>1 DEF TopologyInv, RetiredFenced
<1>8. RetiredNeverReturns'
  <2>1. ASSUME NEW r \in retired, r.group = p.group PROVE p.revision > r.revision
    <3>1. /\ p.group \in DOMAIN groupFence /\ r.revision \in Nat
          /\ groupFence[p.group].revision >= r.revision
      BY Zenon, <2>1 DEF TopologyInv, RetiredFenced
    <3>2. groupFence[p.group].revision \in Nat
      BY Zenon, <3>1 DEF TopologyInv, TopologyTypes, GroupMark
    <3> QED
      BY <1>1, <3>1, <3>2, PublicationFacts DEF PastGroup
  <2> QED
    BY Zenon, <1>1, <1>2, <1>3, <2>1 DEF TopologyInv, RetiredNeverReturns
<1> QED
  BY Zenon, <1>4, <1>5, <1>6, <1>7, <1>8 DEF TopologyInv

\* reconcile moves a history on and changes nothing that it was started from.
LEMMA AdmitInv ==
  ASSUME TopologyInv, NEW p \in Published, Admit(p)
  PROVE  TopologyInv'
<1> DEFINE g == p.group
<1>1. /\ g \in DOMAIN live /\ p.snapshot > live[g].snapshot /\ p.tick >= live[g].tick
      /\ entities' = entities
      /\ groupFence' = groupFence /\ memberFence' = memberFence /\ retired' = retired
      /\ live' = [live EXCEPT ![g].snapshot = p.snapshot, ![g].tick = p.tick]
  BY Zenon DEF Admit
<1>2. live[g] \in History /\ p.snapshot \in Nat /\ p.tick \in Nat
  BY Zenon, <1>1, PublicationFacts DEF TopologyInv, TopologyTypes
<1>3. /\ DOMAIN live' = DOMAIN live
      /\ live'[g] = [from |-> live[g].from, snapshot |-> p.snapshot, tick |-> p.tick]
      /\ \A k \in DOMAIN live : k # g => live'[k] = live[k]
      /\ live' = [k \in DOMAIN live' |-> live'[k]]
  BY Zenon, <1>1, <1>2 DEF History, TopologyInv, TopologyTypes
<1>4. live'[g] \in History /\ \A k \in DOMAIN live : live'[k].from = live[k].from
  BY <1>2, <1>3 DEF History
<1>5. TopologyTypes'
  BY <1>1, <1>3, <1>4 DEF TopologyInv, TopologyTypes
<1>6. OneWriter'
  <2>1. Written(DOMAIN live)' = Written(DOMAIN live)
    BY Zenon, <1>3, <1>4 DEF Written
  <2> QED
    BY <1>1, <1>3, <1>4, <2>1 DEF TopologyInv, OneWriter
<1>7. LivePastFences'
  <2>1. ASSUME g \in DOMAIN groupFence PROVE AtLeast(Mark(live'[g]), groupFence[g])
    <3>1. AtLeast(Mark(live[g]), groupFence[g]) /\ groupFence[g] \in GroupMark
      BY Zenon, <1>1, <2>1 DEF TopologyInv, LivePastFences, TopologyTypes
    <3>2. Mark(live[g]) \in GroupMark /\ Mark(live'[g]) \in GroupMark
      BY Zenon, <1>2, <1>4, PublicationFacts DEF History, Mark, GroupMark
    <3>3. AtLeast(Mark(live'[g]), Mark(live[g]))
      <4>1. /\ Mark(live'[g]).revision = Mark(live[g]).revision
            /\ Mark(live'[g]).snapshot = p.snapshot /\ Mark(live'[g]).tick = p.tick
            /\ Mark(live[g]).snapshot = live[g].snapshot /\ Mark(live[g]).tick = live[g].tick
        BY <1>3 DEF Mark
      <4>2. Mark(live[g]).revision \in Nat /\ live[g].snapshot \in Nat /\ live[g].tick \in Nat
        BY Zenon, <1>2, <3>2 DEF History, GroupMark
      <4> QED
        BY <1>1, <1>2, <4>1, <4>2 DEF AtLeast
    <3> QED
      BY <3>1, <3>2, <3>3, AtLeastOrder
  <2> QED
    BY Zenon, <1>1, <1>3, <1>4, <2>1 DEF TopologyInv, LivePastFences
<1>8. RetiredFenced' /\ RetiredNeverReturns'
  BY Zenon, <1>1, <1>3, <1>4 DEF TopologyInv, RetiredFenced, RetiredNeverReturns
<1> QED
  BY Zenon, <1>5, <1>6, <1>7, <1>8 DEF TopologyInv

\* remove_group gives back the entities of its group.
LEMMA RemoveGroupInv ==
  ASSUME TopologyInv, NEW g \in DOMAIN live, RemoveGroup(g)
  PROVE  TopologyInv'
<1>1. /\ DOMAIN live' = DOMAIN live \ {g}
      /\ \A k \in DOMAIN live' : live'[k] = live[k]
      /\ live' = [k \in DOMAIN live' |-> live'[k]]
      /\ entities' = entities - Cardinality(Entity(live[g].from))
      /\ groupFence' = groupFence /\ memberFence' = memberFence /\ retired' = retired
  BY Zenon DEF RemoveGroup
<1>2. TopologyTypes'
  BY <1>1 DEF TopologyInv, TopologyTypes
<1>3. OneWriter'
  <2>1. Written(DOMAIN live)' = Written(DOMAIN live \ {g})
    BY <1>1 DEF Written
  <2>2. Written({g}) = Entity(live[g].from)
    BY Zenon DEF Written
  <2>3. (DOMAIN live \ {g}) \cup {g} = DOMAIN live /\ (DOMAIN live \ {g}) \cap {g} = {}
    BY Zenon
  <2>4. /\ Written(DOMAIN live \ {g}) \subseteq Indices /\ Written({g}) \subseteq Indices
        /\ Written(DOMAIN live \ {g}) \cap Written({g}) = {}
        /\ Written(DOMAIN live) = Written(DOMAIN live \ {g}) \cup Written({g})
    BY Zenon, <2>3, WrittenApart DEF TopologyInv
  <2>5. /\ Cardinality(Written(DOMAIN live))
             = Cardinality(Written(DOMAIN live \ {g})) + Cardinality(Written({g}))
        /\ Cardinality(Written(DOMAIN live \ {g})) \in Nat /\ Cardinality(Written({g})) \in Nat
    BY Zenon, <2>4, DisjointUnion
  <2>6. entities' = Cardinality(Written(DOMAIN live))'
    BY <1>1, <2>1, <2>2, <2>5 DEF TopologyInv, OneWriter
  <2> QED
    BY Zenon, <1>1, <2>6 DEF TopologyInv, OneWriter
<1>4. LivePastFences' /\ RetiredFenced' /\ RetiredNeverReturns'
  BY Zenon, <1>1 DEF TopologyInv, LivePastFences, RetiredFenced, RetiredNeverReturns
<1> QED
  BY Zenon, <1>2, <1>3, <1>4 DEF TopologyInv

\* The histories of several groups, and of several publications.
Olds(old) == {live[g] : g \in old}
Staged(batch) == {Started(p) : p \in batch}

\* What replace_groups records of the histories that it retires.
LEMMA OldsPast ==
  ASSUME TopologyInv, NEW old \in SUBSET DOMAIN live
  PROVE  /\ Olds(old) \in SUBSET History /\ Apart(Olds(old))
         /\ \A h \in Olds(old) : h.from.group \in DOMAIN groupFence
                                   => AtLeast(Mark(h), groupFence[h.from.group])
         /\ \A h \in Olds(old) : PastMembers(memberFence, h.from)
         /\ {h.from.group : h \in Olds(old)} = old
         /\ UNION {Entity(h.from) : h \in Olds(old)} = Written(old)
<1>1. \A g \in old : live[g] \in History /\ live[g].from.group = g
  BY Zenon DEF TopologyInv, TopologyTypes
<1>2. Olds(old) \in SUBSET History
  BY Zenon, <1>1 DEF Olds
<1>3. Apart(Olds(old))
  BY <1>1 DEF Olds, Apart, TopologyInv, OneWriter
<1>4. \A h \in Olds(old) : h.from.group \in DOMAIN groupFence
                             => AtLeast(Mark(h), groupFence[h.from.group])
  BY <1>1 DEF Olds, TopologyInv, LivePastFences
<1>5. \A h \in Olds(old) : PastMembers(memberFence, h.from)
  BY Zenon DEF Olds, TopologyInv, LivePastFences
<1>6. {h.from.group : h \in Olds(old)} = old
  BY Zenon, <1>1 DEF Olds
<1>7. UNION {Entity(h.from) : h \in Olds(old)} = Written(old)
  BY Zenon DEF Olds, Written
<1> QED
  BY Zenon, <1>2, <1>3, <1>4, <1>5, <1>6, <1>7

\* What it records of the replacements, over fences that they are past.
LEMMA StagedPast ==
  ASSUME NEW batch \in SUBSET Published, Stageable(batch),
         NEW gf, gf \in [DOMAIN gf -> GroupMark], NEW mf,
         \A p \in batch : PastGroup(gf, p) /\ PastMembers(mf, p)
  PROVE  /\ Staged(batch) \in SUBSET History /\ Apart(Staged(batch))
         /\ \A h \in Staged(batch) : h.from.group \in DOMAIN gf
                                       => AtLeast(Mark(h), gf[h.from.group])
         /\ \A h \in Staged(batch) : PastMembers(mf, h.from)
         /\ {h.from.group : h \in Staged(batch)} = {p.group : p \in batch}
         /\ UNION {Entity(h.from) : h \in Staged(batch)} = UNION {Entity(p) : p \in batch}
<1>1. \A p \in batch : Started(p) \in History /\ Started(p).from = p
  BY Zenon, PublicationFacts
<1>2. Staged(batch) \in SUBSET History
  BY Zenon, <1>1 DEF Staged
<1>3. Apart(Staged(batch))
  BY <1>1 DEF Staged, Apart, Stageable
<1>4. ASSUME NEW p \in batch, p.group \in DOMAIN gf
      PROVE  AtLeast(Mark(Started(p)), gf[p.group])
  <2>1. gf[p.group] \in GroupMark
    BY Zenon, <1>4
  <2>2. Mark(Started(p)) = [revision |-> p.revision, snapshot |-> p.snapshot, tick |-> p.tick]
    BY Zenon DEF Mark, Started
  <2>3. /\ p.revision > gf[p.group].revision
        /\ p.snapshot > gf[p.group].snapshot
        /\ p.tick >= gf[p.group].tick
    BY Zenon, <1>4 DEF PastGroup
  <2> QED
    BY <2>1, <2>2, <2>3, PublicationFacts DEF AtLeast, GroupMark
<1>5. \A h \in Staged(batch) : h.from.group \in DOMAIN gf
                                 => AtLeast(Mark(h), gf[h.from.group])
  BY Zenon, <1>1, <1>4 DEF Staged
<1>6. \A h \in Staged(batch) : PastMembers(mf, h.from)
  BY Zenon, <1>1 DEF Staged
<1>7. /\ {h.from.group : h \in Staged(batch)} = {p.group : p \in batch}
      /\ UNION {Entity(h.from) : h \in Staged(batch)} = UNION {Entity(p) : p \in batch}
  BY <1>1 DEF Staged
<1> QED
  BY Zenon, <1>2, <1>3, <1>5, <1>6, <1>7

\* replace_groups moves no fence back, leaves the fences of the groups that stay
\* alone and puts those of the retired groups at their last revision or later.
LEMMA ReplaceFences ==
  ASSUME TopologyInv, NEW old \in SUBSET DOMAIN live, NEW batch \in SUBSET Published,
         Replace(old, batch)
  PROVE  /\ groupFence' \in [DOMAIN groupFence' -> GroupMark]
         /\ memberFence' \in [DOMAIN memberFence' -> MemberMark]
         /\ \A g \in DOMAIN groupFence : /\ g \in DOMAIN groupFence'
                                         /\ AtLeast(groupFence'[g], groupFence[g])
         /\ \A i \in DOMAIN memberFence : /\ i \in DOMAIN memberFence'
                                          /\ Follows(memberFence'[i], memberFence[i])
         /\ \A g \in old : /\ g \in DOMAIN groupFence'
                           /\ groupFence'[g].revision >= live[g].from.revision
         /\ \A p \in batch : /\ p.group \in DOMAIN groupFence'
                             /\ groupFence'[p.group] = Mark(Started(p))
                             /\ PastMembers(memberFence', p)
                             /\ p.group \in old => p.revision > live[p.group].from.revision
         /\ \A g \in (DOMAIN live \ old) \cap DOMAIN groupFence' :
              g \in DOMAIN groupFence /\ groupFence'[g] = groupFence[g]
         /\ \A g \in DOMAIN live \ old : \A i \in Entity(live[g].from) \cap DOMAIN memberFence' :
              i \in DOMAIN memberFence /\ memberFence'[i] = memberFence[i]
<1> DEFINE hs == Olds(old)
           ks == Staged(batch)
           G == Recorded(groupFence, hs)
           M == RecordedMembers(memberFence, hs)
<1>1. /\ groupFence' = Recorded(G, ks) /\ memberFence' = RecordedMembers(M, ks)
      /\ \A p \in batch : PastGroup(G, p) /\ PastMembers(M, p)
      /\ Clear(batch, old) /\ Stageable(batch)
  BY Zenon DEF Replace, Olds, Staged
<1>2. /\ groupFence \in [DOMAIN groupFence -> GroupMark]
      /\ memberFence \in [DOMAIN memberFence -> MemberMark]
  BY Zenon DEF TopologyInv, TopologyTypes
<1>3. /\ hs \in SUBSET History /\ Apart(hs)
      /\ \A h \in hs : h.from.group \in DOMAIN groupFence
                         => AtLeast(Mark(h), groupFence[h.from.group])
      /\ \A h \in hs : PastMembers(memberFence, h.from)
      /\ {h.from.group : h \in hs} = old
      /\ UNION {Entity(h.from) : h \in hs} = Written(old)
  BY Zenon, OldsPast
<1>4. /\ G \in [DOMAIN G -> GroupMark]
      /\ DOMAIN G = DOMAIN groupFence \cup old
      /\ \A h \in hs : G[h.from.group] = Mark(h)
      /\ \A g \in DOMAIN groupFence : g \notin old => G[g] = groupFence[g]
  <2>1. /\ G \in [DOMAIN G -> GroupMark]
        /\ DOMAIN G = DOMAIN groupFence \cup {h.from.group : h \in hs}
        /\ \A h \in hs : G[h.from.group] = Mark(h)
        /\ \A g \in DOMAIN groupFence : (\A h \in hs : h.from.group # g) => G[g] = groupFence[g]
    BY Zenon, <1>2, <1>3, RecordedFacts
  <2> QED
    BY Zenon, <1>3, <2>1
<1>5. /\ M \in [DOMAIN M -> MemberMark]
      /\ DOMAIN M = DOMAIN memberFence \cup Written(old)
      /\ \A i \in DOMAIN memberFence : i \notin Written(old) => M[i] = memberFence[i]
  <2>1. /\ M \in [DOMAIN M -> MemberMark]
        /\ DOMAIN M = DOMAIN memberFence \cup UNION {Entity(h.from) : h \in hs}
        /\ \A i \in DOMAIN memberFence :
             (\A h \in hs : i \notin Entity(h.from)) => M[i] = memberFence[i]
    BY Zenon, <1>2, <1>3, RecordedMembersFacts
  <2> QED
    BY Zenon, <1>3, <2>1
<1>6. /\ \A g \in DOMAIN groupFence : g \in DOMAIN G /\ AtLeast(G[g], groupFence[g])
      /\ \A i \in DOMAIN memberFence : i \in DOMAIN M /\ Follows(M[i], memberFence[i])
  BY Zenon, <1>2, <1>3, RecordAdvances
<1> HIDE DEF hs, G, M
<1>7. /\ ks \in SUBSET History /\ Apart(ks)
      /\ \A h \in ks : h.from.group \in DOMAIN G => AtLeast(Mark(h), G[h.from.group])
      /\ \A h \in ks : PastMembers(M, h.from)
      /\ {h.from.group : h \in ks} = {p.group : p \in batch}
      /\ UNION {Entity(h.from) : h \in ks} = UNION {Entity(p) : p \in batch}
  BY Zenon, <1>1, <1>4, StagedPast
<1>8. /\ groupFence' \in [DOMAIN groupFence' -> GroupMark]
      /\ DOMAIN groupFence' = DOMAIN G \cup {h.from.group : h \in ks}
      /\ \A h \in ks : groupFence'[h.from.group] = Mark(h)
      /\ \A g \in DOMAIN G : (\A h \in ks : h.from.group # g) => groupFence'[g] = G[g]
  BY Zenon, <1>1, <1>4, <1>7, RecordedFacts
<1>9. /\ memberFence' \in [DOMAIN memberFence' -> MemberMark]
      /\ DOMAIN memberFence' = DOMAIN M \cup UNION {Entity(h.from) : h \in ks}
      /\ \A i \in DOMAIN M : (\A h \in ks : i \notin Entity(h.from)) => memberFence'[i] = M[i]
  BY Zenon, <1>1, <1>5, <1>7, RecordedMembersFacts
<1>10. /\ \A g \in DOMAIN G : g \in DOMAIN groupFence' /\ AtLeast(groupFence'[g], G[g])
       /\ \A i \in DOMAIN M : i \in DOMAIN memberFence' /\ Follows(memberFence'[i], M[i])
       /\ \A h \in ks : PastMembers(memberFence', h.from)
  BY Zenon, <1>1, <1>4, <1>5, <1>7, RecordAdvances
<1>11. ASSUME NEW g \in DOMAIN groupFence
       PROVE  g \in DOMAIN groupFence' /\ AtLeast(groupFence'[g], groupFence[g])
  <2>1. g \in DOMAIN G /\ g \in DOMAIN groupFence'
    BY Zenon, <1>6, <1>10
  <2>2. groupFence[g] \in GroupMark /\ G[g] \in GroupMark /\ groupFence'[g] \in GroupMark
    BY Zenon, <1>2, <1>4, <1>8, <2>1
  <2> QED
    BY Zenon, <1>6, <1>10, <2>1, <2>2, AtLeastOrder
<1>12. ASSUME NEW i \in DOMAIN memberFence
       PROVE  i \in DOMAIN memberFence' /\ Follows(memberFence'[i], memberFence[i])
  <2>1. i \in DOMAIN M /\ i \in DOMAIN memberFence'
    BY Zenon, <1>6, <1>10
  <2>2. memberFence[i] \in MemberMark /\ M[i] \in MemberMark /\ memberFence'[i] \in MemberMark
    BY Zenon, <1>2, <1>5, <1>9, <2>1
  <2> QED
    BY Zenon, <1>6, <1>10, <2>1, <2>2, FollowsOrder
<1>13. ASSUME NEW g \in old
       PROVE  /\ g \in DOMAIN G /\ G[g].revision = live[g].from.revision
              /\ g \in DOMAIN groupFence'
              /\ groupFence'[g].revision >= live[g].from.revision
  <2>1. live[g] \in hs /\ live[g].from.group = g
    BY Zenon DEF hs, Olds, TopologyInv, TopologyTypes
  <2>2. G[g] = Mark(live[g]) /\ g \in DOMAIN G
    BY Zenon, <1>4, <2>1
  <2> QED
    BY <1>10, <2>2 DEF Mark, AtLeast
<1>14. ASSUME NEW p \in batch
       PROVE  /\ p.group \in DOMAIN groupFence'
              /\ groupFence'[p.group] = Mark(Started(p))
              /\ PastMembers(memberFence', p)
              /\ p.group \in old => p.revision > live[p.group].from.revision
  <2>1. Started(p) \in ks /\ Started(p).from = p
    BY Zenon, PublicationFacts DEF Staged
  <2>2. p.group \in old => p.revision > live[p.group].from.revision
    BY Zenon, <1>1, <1>13 DEF PastGroup
  <2> QED
    BY Zenon, <1>8, <1>10, <2>1, <2>2
<1>15. ASSUME NEW g \in (DOMAIN live \ old) \cap DOMAIN groupFence'
       PROVE  g \in DOMAIN groupFence /\ groupFence'[g] = groupFence[g]
  <2>1. \A p \in batch : p.group # g
    BY Zenon, <1>1 DEF Clear
  <2>2. \A h \in ks : h.from.group # g
    BY Zenon, <1>7, <2>1
  <2>3. g \in DOMAIN G /\ groupFence'[g] = G[g]
    BY Zenon, <1>8, <2>2
  <2> QED
    BY Zenon, <1>4, <2>3
<1>16. ASSUME NEW g \in DOMAIN live \ old,
              NEW i \in Entity(live[g].from) \cap DOMAIN memberFence'
       PROVE  i \in DOMAIN memberFence /\ memberFence'[i] = memberFence[i]
  <2>1. i \in Written(DOMAIN live \ old)
    BY Zenon DEF Written
  <2>2. \A p \in batch : i \notin Entity(p)
    BY Zenon, <1>1, <2>1 DEF Clear
  <2>3. i \notin Written(old)
    BY Zenon DEF Written, TopologyInv, OneWriter
  <2>4. i \in DOMAIN M /\ memberFence'[i] = M[i]
    BY <1>7, <1>9, <2>2
  <2> QED
    BY Zenon, <1>5, <2>3, <2>4
<1> QED
  BY Zenon, <1>8, <1>9, <1>11, <1>12, <1>13, <1>14, <1>15, <1>16

\* replace_groups puts the replacements where the retired groups were.
LEMMA ReplaceInv ==
  ASSUME TopologyInv, NEW old \in SUBSET DOMAIN live, NEW batch \in SUBSET Published,
         Replace(old, batch)
  PROVE  TopologyInv'
<1> DEFINE kept == DOMAIN live \ old
           added == UNION {Entity(p) : p \in batch}
<1>1. /\ Clear(batch, old) /\ Stageable(batch)
      /\ entities' = entities - Cardinality(Written(old)) + Cardinality(added)
      /\ retired' = retired \cup {[group |-> h.from.group, revision |-> h.from.revision]
                                    : h \in Olds(old)}
  BY Zenon DEF Replace, Olds
<1>2. /\ DOMAIN live' = kept \cup {p.group : p \in batch}
      /\ live' = [g \in DOMAIN live' |-> live'[g]]
  BY Zenon DEF Replace
<1>3. ASSUME NEW p \in batch PROVE live'[p.group] = Started(p)
  <2>1. (CHOOSE q \in batch : q.group = p.group) = p
    BY Zenon, <1>1 DEF Stageable
  <2> QED
    BY Zenon, <2>1 DEF Replace
<1>4. ASSUME NEW g \in kept PROVE live'[g] = live[g] /\ \A p \in batch : p.group # g
  <2>1. \A p \in batch : p.group # g
    BY Zenon, <1>1 DEF Clear
  <2> QED
    BY Zenon, <2>1 DEF Replace
<1>5. \A p \in batch : Started(p) \in History /\ Started(p).from = p
  BY Zenon, PublicationFacts
<1>6. TopologyTypes'
  <2>1. \A g \in DOMAIN live' : live'[g] \in History /\ live'[g].from.group = g
    BY <1>2, <1>3, <1>4, <1>5 DEF TopologyInv, TopologyTypes
  <2> QED
    BY Zenon, <1>2, <2>1, ReplaceFences DEF TopologyTypes
<1>7. OneWriter'
  <2>1. \A g \in kept, p \in batch : Entity(live[g].from) \cap Entity(p) = {}
    BY <1>1 DEF Clear, Written
  <2>2. (\A g, h \in DOMAIN live : g # h => Entity(live[g].from) \cap Entity(live[h].from) = {})'
    <3> SUFFICES ASSUME NEW g \in DOMAIN live', NEW h \in DOMAIN live', g # h
                 PROVE  Entity(live'[g].from) \cap Entity(live'[h].from) = {}
      BY Zenon
    <3>1. CASE g \in kept /\ h \in kept
      BY Zenon, <1>4, <3>1 DEF TopologyInv, OneWriter
    <3>2. ASSUME NEW p \in batch, g = p.group, h \in kept
          PROVE  Entity(live'[g].from) \cap Entity(live'[h].from) = {}
      BY <1>3, <1>4, <1>5, <2>1, <3>2
    <3>3. ASSUME NEW p \in batch, h = p.group, g \in kept
          PROVE  Entity(live'[g].from) \cap Entity(live'[h].from) = {}
      BY <1>3, <1>4, <1>5, <2>1, <3>3
    <3>4. ASSUME NEW p \in batch, NEW q \in batch, g = p.group, h = q.group
          PROVE  Entity(live'[g].from) \cap Entity(live'[h].from) = {}
      BY <1>1, <1>3, <1>5, <3>4 DEF Stageable
    <3> QED
      BY Zenon, <1>2, <3>1, <3>2, <3>3, <3>4
  <2>3. Written(DOMAIN live)' = Written(kept) \cup added
    <3>1. Written(DOMAIN live)' = UNION {Entity(live'[g].from) : g \in DOMAIN live'}
      BY Zenon DEF Written
    <3>2. \A g \in kept : Entity(live'[g].from) = Entity(live[g].from)
      BY Zenon, <1>4
    <3>3. \A p \in batch : Entity(live'[p.group].from) = Entity(p)
      BY Zenon, <1>3, <1>5
    <3> QED
      BY <1>2, <3>1, <3>2, <3>3 DEF Written
  <2>4. kept \cup old = DOMAIN live /\ kept \cap old = {} /\ kept \in SUBSET DOMAIN live
    BY Zenon
  <2>5. /\ Written(kept) \subseteq Indices /\ Written(old) \subseteq Indices
        /\ Written(kept) \cap Written(old) = {}
        /\ Written(DOMAIN live) = Written(kept) \cup Written(old)
    BY Zenon, <2>4, WrittenApart DEF TopologyInv
  <2>6. added \subseteq Indices /\ Written(kept) \cap added = {}
    BY <2>1, PublicationFacts DEF Written
  <2> HIDE DEF kept, added
  <2>7. /\ Cardinality(Written(kept) \cup Written(old))
             = Cardinality(Written(kept)) + Cardinality(Written(old))
        /\ Cardinality(Written(kept) \cup added)
             = Cardinality(Written(kept)) + Cardinality(added)
        /\ Cardinality(Written(kept)) \in Nat /\ Cardinality(Written(old)) \in Nat
        /\ Cardinality(added) \in Nat
    BY Zenon, <2>5, <2>6, DisjointUnion
  <2>8. entities = Cardinality(Written(kept)) + Cardinality(Written(old))
    BY Zenon, <2>5, <2>7 DEF TopologyInv, OneWriter
  <2>9. entities' = Cardinality(Written(kept)) + Cardinality(added)
    BY <1>1, <2>7, <2>8
  <2>10. entities' = Cardinality(Written(DOMAIN live))'
    BY Zenon, <2>3, <2>7, <2>9
  <2> QED
    BY Zenon, <2>2, <2>10 DEF OneWriter
<1>8. LivePastFences'
  <2>1. ASSUME NEW g \in kept
        PROVE  /\ g \in DOMAIN groupFence' => AtLeast(Mark(live'[g]), groupFence'[g])
               /\ PastMembers(memberFence', live'[g].from)
    <3>1. g \in DOMAIN groupFence' => AtLeast(Mark(live'[g]), groupFence'[g])
      BY Zenon, <1>4, ReplaceFences DEF TopologyInv, LivePastFences
    <3>2. \A i \in Entity(live[g].from) \cap DOMAIN memberFence' :
            i \in DOMAIN memberFence /\ memberFence'[i] = memberFence[i]
      BY Zenon, ReplaceFences
    <3>3. PastMembers(memberFence, live[g].from)
      BY Zenon DEF TopologyInv, LivePastFences
    <3>4. PastMembers(memberFence', live[g].from)
      BY Zenon, <3>2, <3>3 DEF PastMembers
    <3> QED
      BY Zenon, <1>4, <3>1, <3>4
  <2>2. ASSUME NEW p \in batch
        PROVE  /\ AtLeast(Mark(live'[p.group]), groupFence'[p.group])
               /\ PastMembers(memberFence', live'[p.group].from)
    <3>1. groupFence'[p.group] = Mark(Started(p)) /\ PastMembers(memberFence', p)
      BY Zenon, ReplaceFences
    <3>2. AtLeast(Mark(Started(p)), Mark(Started(p)))
      BY Zenon, PublicationFacts, AtLeastOrder
    <3> QED
      BY Zenon, <1>3, <1>5, <3>1, <3>2
  <2> QED
    BY Zenon, <1>2, <2>1, <2>2 DEF LivePastFences
<1>9. RetiredFenced'
  <2>1. ASSUME NEW r \in retired
        PROVE  /\ r.revision \in Nat /\ r.group \in DOMAIN groupFence'
               /\ groupFence'[r.group].revision >= r.revision
    <3>1. /\ r.revision \in Nat /\ r.group \in DOMAIN groupFence
          /\ groupFence[r.group].revision >= r.revision
      BY Zenon DEF TopologyInv, RetiredFenced
    <3>2. /\ r.group \in DOMAIN groupFence'
          /\ groupFence'[r.group].revision >= groupFence[r.group].revision
      BY Zenon, <3>1, ReplaceFences DEF AtLeast
    <3>3. groupFence[r.group].revision \in Nat /\ groupFence'[r.group].revision \in Nat
      BY Zenon, <3>1, <3>2, ReplaceFences DEF TopologyInv, TopologyTypes, GroupMark
    <3> QED
      BY <3>1, <3>2, <3>3
  <2>2. ASSUME NEW g \in old
        PROVE  /\ live[g].from.revision \in Nat /\ live[g].from.group = g
               /\ g \in DOMAIN groupFence' /\ groupFence'[g].revision >= live[g].from.revision
    BY Zenon, PublicationFacts, ReplaceFences DEF TopologyInv, TopologyTypes, History
  <2> QED
    BY <1>1, <2>1, <2>2 DEF RetiredFenced, Olds
<1>10. RetiredNeverReturns'
  <2>1. ASSUME NEW g \in kept, NEW r \in retired', r.group = g
        PROVE  live'[g].from.revision > r.revision
    <3>1. \A h \in Olds(old) : h.from.group # g
      BY OldsPast
    <3>2. r \in retired
      BY <1>1, <2>1, <3>1
    <3> QED
      BY Zenon, <1>4, <2>1, <3>2 DEF TopologyInv, RetiredNeverReturns
  <2>2. ASSUME NEW p \in batch, NEW r \in retired, r.group = p.group
        PROVE  p.revision > r.revision
    <3> DEFINE passed == Recorded(groupFence, Olds(old))
    <3>1. /\ p.group \in DOMAIN groupFence /\ r.revision \in Nat
          /\ groupFence[p.group].revision >= r.revision
          /\ groupFence[p.group].revision \in Nat
      BY Zenon, <2>2 DEF TopologyInv, RetiredFenced, TopologyTypes, GroupMark
    <3>2. PastGroup(passed, p)
      BY Zenon DEF Replace, Olds
    <3>3. p.group \in DOMAIN passed /\ AtLeast(passed[p.group], groupFence[p.group])
      BY Zenon, <3>1, OldsPast, RecordAdvances DEF TopologyInv, TopologyTypes
    <3>4. passed[p.group] \in GroupMark
      <4>1. passed \in [DOMAIN passed -> GroupMark]
        BY Zenon, OldsPast, RecordedFacts DEF TopologyInv, TopologyTypes
      <4> QED
        BY Zenon, <3>3, <4>1
    <3>5. p.revision > passed[p.group].revision
      BY Zenon, <3>2, <3>3 DEF PastGroup
    <3>6. passed[p.group].revision \in Nat
          /\ passed[p.group].revision >= groupFence[p.group].revision
      BY Zenon, <3>3, <3>4 DEF AtLeast, GroupMark
    <3> HIDE DEF passed
    <3> QED
      BY <3>1, <3>5, <3>6, PublicationFacts
  <2>3. ASSUME NEW p \in batch, NEW g \in old, p.group = g
        PROVE  p.revision > live[g].from.revision
    BY Zenon, <2>3, ReplaceFences
  <2>4. \A g \in old : live[g].from.group = g
    BY Zenon DEF TopologyInv, TopologyTypes
  <2>5. ASSUME NEW p \in batch, NEW r \in retired', r.group = p.group
        PROVE  live'[p.group].from.revision > r.revision
    BY <1>1, <1>3, <1>5, <2>2, <2>3, <2>4, <2>5 DEF Olds
  <2> QED
    BY Zenon, <1>2, <2>1, <2>5 DEF RetiredNeverReturns
<1> QED
  BY Zenon, <1>6, <1>7, <1>8, <1>9, <1>10 DEF TopologyInv

-----------------------------------------------------------------------------
(* The theorems.                                                            *)

LEMMA TopologyStart == TopologyInit => TopologyInv
<1> SUFFICES ASSUME TopologyInit PROVE TopologyInv
  BY Zenon
<1>1. /\ live = <<>> /\ DOMAIN live = {} /\ entities = 0 /\ groupFence = <<>>
      /\ memberFence = <<>> /\ retired = {} /\ DOMAIN groupFence = {} /\ DOMAIN memberFence = {}
  BY DEF TopologyInit
<1>2. Written(DOMAIN live) = {}
  BY Zenon, <1>1 DEF Written
<1>3. OneWriter
  BY Zenon, <1>1, <1>2, FS_EmptySet DEF OneWriter
<1> QED
  BY <1>1, <1>3
  DEF TopologyInv, TopologyTypes, LivePastFences, RetiredFenced, RetiredNeverReturns

LEMMA TopologyStep == TopologyInv /\ [TopologyNext]_topologyVars => TopologyInv'
<1> SUFFICES ASSUME TopologyInv, [TopologyNext]_topologyVars PROVE TopologyInv'
  BY Zenon
<1>1. ASSUME NEW p \in Published, Initialize(p) PROVE TopologyInv'
  BY Zenon, <1>1, InitializeInv
<1>2. ASSUME NEW p \in Published, Admit(p) PROVE TopologyInv'
  BY Zenon, <1>2, AdmitInv
<1>3. ASSUME NEW old \in SUBSET DOMAIN live, NEW batch \in SUBSET Published, Replace(old, batch)
      PROVE  TopologyInv'
  BY Zenon, <1>3, ReplaceInv
<1>4. ASSUME NEW g \in DOMAIN live, RemoveGroup(g) PROVE TopologyInv'
  BY Zenon, <1>4, RemoveGroupInv
<1>5. CASE UNCHANGED topologyVars
  BY Zenon, <1>5 DEF topologyVars, TopologyInv, TopologyTypes, OneWriter, Written, LivePastFences,
              RetiredFenced, RetiredNeverReturns
<1> QED
  BY Zenon, <1>1, <1>2, <1>3, <1>4, <1>5 DEF TopologyNext

\* For every set of publications and every limit, the predicted topologies are
\* disjoint, the entity budget counts what is predicted and no topology that
\* replace_groups retired predicts again.
THEOREM TopologyIsSound == TopologySpec => []TopologySound
<1>1. TopologyInv => TopologySound
  BY Zenon DEF TopologyInv, TopologySound
<1> QED
  BY <1>1, TopologyStart, TopologyStep, PTL DEF TopologySpec

\* The fences of TopologyFences advance in every step, which is what refuses a
\* delayed publication for the rest of the connection.
THEOREM FencesOnlyMoveOn == TopologySpec => FencesAdvance
<1> DEFINE Advance ==
      /\ \A g \in DOMAIN groupFence : /\ g \in DOMAIN groupFence'
                                      /\ AtLeast(groupFence'[g], groupFence[g])
      /\ \A i \in DOMAIN memberFence : /\ i \in DOMAIN memberFence'
                                       /\ Follows(memberFence'[i], memberFence[i])
<1>1. ASSUME TopologyInv, UNCHANGED <<groupFence, memberFence>> PROVE Advance
  <2>1. \A g \in DOMAIN groupFence : AtLeast(groupFence[g], groupFence[g])
    BY Zenon, <1>1, AtLeastOrder DEF TopologyInv, TopologyTypes
  <2>2. \A i \in DOMAIN memberFence : Follows(memberFence[i], memberFence[i])
    BY Zenon, <1>1, FollowsOrder DEF TopologyInv, TopologyTypes
  <2> QED
    BY Zenon, <1>1, <2>1, <2>2
<1>2. ASSUME TopologyInv, TopologyNext PROVE Advance
  <2>1. ASSUME NEW p \in Published, Initialize(p) PROVE Advance
    BY Zenon, <1>1, <1>2, <2>1 DEF Initialize
  <2>2. ASSUME NEW p \in Published, Admit(p) PROVE Advance
    BY Zenon, <1>1, <1>2, <2>2 DEF Admit
  <2>3. ASSUME NEW old \in SUBSET DOMAIN live, NEW batch \in SUBSET Published,
               Replace(old, batch)
        PROVE  Advance
    BY Zenon, <1>2, <2>3, ReplaceFences
  <2>4. ASSUME NEW g \in DOMAIN live, RemoveGroup(g) PROVE Advance
    BY Zenon, <1>1, <1>2, <2>4 DEF RemoveGroup
  <2> QED
    BY Zenon, <1>2, <2>1, <2>2, <2>3, <2>4 DEF TopologyNext
<1>3. Advance => FencesMoveOn
  BY Zenon DEF FencesMoveOn, AtLeast, Follows
<1>4. TopologyInv /\ [TopologyNext]_topologyVars => [FencesMoveOn]_topologyVars
  BY Zenon, <1>2, <1>3
<1> QED
  BY <1>4, TopologyStart, TopologyStep, PTL DEF TopologySpec, FencesAdvance

=============================================================================
