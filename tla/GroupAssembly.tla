---------------------------- MODULE GroupAssembly ----------------------------
(***************************************************************************)
(* Atomic publication of state groups that arrive in chunks                *)
(* (engine/net/src/replication/groups.rs): bounded staging, deadlines,     *)
(* publication fences, and the all-or-nothing application to the client's  *)
(* scopes.                                                                 *)
(*                                                                         *)
(* Abstractions.                                                           *)
(*  - The server is honest: a chunk is determined by its publication and   *)
(*    its index, so that the comparisons of one chunk's contents with      *)
(*    another's always agree.  The end tick of a publication grows with    *)
(*    its snapshot and is not kept apart from it.                          *)
(*  - The members of a group are fixed; their scopes are not, and a new    *)
(*    scope of a member makes the next publication a new revision.          *)
(*  - ClientScopes keeps a scope, a closed flag and a snapshot per member. *)
(*  - A member weighs one byte and so does its line of the manifest; every  *)
(*    group is within group_bytes, and there are at most known_groups.      *)
(*                                                                         *)
(* The proofs at the end are for every set of groups and every limit.      *)
(***************************************************************************)
EXTENDS Integers, FiniteSets, FiniteSetsExt, FiniteSetTheorems, WellFoundedInduction, TLAPS

CONSTANTS
  Groups,        \* groups
  Members(_),    \* Members(g) is the set of members of g; groups are disjoint
  First(_),      \* First(g) is the member that a publication in two chunks sends first
  Incomplete,    \* GroupLimits.incomplete
  StagingBytes,  \* GroupLimits.staging_bytes
  MaxAge,        \* GroupLimits.max_age_ms
  MaxChanges,    \* bound: connections, and new scopes in the last of them
  MaxPublications,  \* bound: publications of all groups
  MaxTime        \* bound: time

Entities == UNION {Members(g) : g \in Groups}

GroupsAssumption ==
  /\ {Incomplete, MaxAge, MaxChanges} \subseteq Nat \ {0}
  /\ {StagingBytes, MaxPublications, MaxTime} \subseteq Nat
  /\ \A g \in Groups : IsFiniteSet(Members(g)) /\ First(g) \in Members(g)
  /\ \A g, h \in Groups : g # h => Members(g) \cap Members(h) = {}
  /\ \A g \in Groups : StagingBytes >= 2 * Cardinality(Members(g))

VARIABLES
  epoch,       \* connection epoch of the client
  server,      \* connection epoch of the server
  scopes,      \* member -> its scope at the server
  published,   \* every publication of the server
  clock,       \* time at the client
  fences,      \* group -> GroupFence, or NoFence
  assemblies,  \* group -> Assembly, or NoAssembly
  bytes,       \* GroupAssembler.bytes
  shown,       \* member -> the client's replica of it
  begun        \* history: group -> when its transfer began

network == <<server, scopes, published>>
vars == <<epoch, network, clock, fences, assemblies, bytes, shown, begun>>

Publication(g) ==
  [connection : 1..MaxChanges, group : {g}, revision : 1..MaxChanges,
   snapshot : 1..MaxPublications, count : 1..2, scopes : [Members(g) -> 1..MaxChanges]]

NoKey == [connection |-> 0]
NoFence == [key |-> NoKey, receipts |-> FALSE]
NoAssembly == [chunks |-> {}, started |-> 0, bytes |-> 0]
Staging == {g \in Groups : assemblies[g] # NoAssembly}
NothingShown == [e \in Entities |-> [scope |-> 0, closed |-> FALSE, snapshot |-> 0]]

\* The members of chunk i of a publication.
ChunkMembers(p, i) ==
  CASE p.count = 1 -> Members(p.group)
    [] i = 1       -> {First(p.group)}
    [] OTHER       -> Members(p.group) \ {First(p.group)}

Init ==
  /\ epoch = 1 /\ server = 1
  /\ scopes = [e \in Entities |-> 1]
  /\ published = {}
  /\ clock = 0
  /\ fences = [g \in Groups |-> NoFence]
  /\ assemblies = [g \in Groups |-> NoAssembly]
  /\ bytes = 0
  /\ shown = NothingShown
  /\ begun = [g \in Groups |-> 0]

-----------------------------------------------------------------------------
(* The server.                                                             *)

Sent(g) == {p \in published : p.group = g /\ p.connection = server}
Newest(g) == Max({0} \cup {p.snapshot : p \in Sent(g)})

\* The revision names the manifest: it grows when the scopes of the members are
\* not those of the publication before.
Revision(g) ==
  LET last == {p \in Sent(g) : p.snapshot = Newest(g)} IN
  Max({1} \cup {p.revision + (IF \A e \in Members(g) : p.scopes[e] = scopes[e] THEN 0 ELSE 1)
                : p \in last})

\* A chunk has at least one member.
Publish(g) ==
  /\ Cardinality(published) < MaxPublications
  /\ \E count \in 1..2 :
       /\ count <= Cardinality(Members(g))
       /\ published' = published \cup
            {[connection |-> server, group |-> g, revision |-> Revision(g),
              snapshot |-> Newest(g) + 1, count |-> count,
              scopes |-> [e \in Members(g) |-> scopes[e]]]}
  /\ UNCHANGED <<epoch, server, scopes, clock, fences, assemblies, bytes, shown, begun>>

\* What changes under the publications: connections, and scopes that end.
Changes == server + MapThenSumSet(LAMBDA e : scopes[e] - 1, Entities)

\* A member leaves its scope and enters the next one.
Reenter(e) ==
  /\ Changes < MaxChanges
  /\ scopes' = [scopes EXCEPT ![e] = @ + 1]
  /\ UNCHANGED <<epoch, server, published, clock, fences, assemblies, bytes, shown, begun>>

\* A new connection; what the old one sent is still under way.
Reconnect ==
  /\ server < MaxChanges
  /\ server' = server + 1
  /\ scopes' = [e \in Entities |-> 1]
  /\ UNCHANGED <<epoch, published, clock, fences, assemblies, bytes, shown, begun>>

-----------------------------------------------------------------------------
(* The client.                                                             *)

\* expire: assemblies past their deadline go, their fences stay.
Late(g) == assemblies[g] # NoAssembly /\ clock - assemblies[g].started >= MaxAge
Kept == [g \in Groups |-> IF Late(g) THEN NoAssembly ELSE assemblies[g]]

KeptBytes == bytes - MapThenSumSet(LAMBDA g : assemblies[g].bytes, {g \in Groups : Late(g)})

\* ClientScopes::apply_full refuses an ended scope and an older snapshot.
Applies(p, e) ==
  LET r == shown[e] IN
  \/ p.scopes[e] > r.scope
  \/ p.scopes[e] = r.scope /\ ~r.closed /\ p.snapshot >= r.snapshot

\* Mutant: members are applied one by one, as far as they can be.
MutantApplied(p) ==
  [e \in Entities |->
     IF e \in Members(p.group) /\ Applies(p, e)
     THEN [scope |-> p.scopes[e], closed |-> FALSE, snapshot |-> p.snapshot]
     ELSE shown[e]]

\* The staged clone of the client's scopes, kept only if every member applies.
Applied(p) ==
  IF \A e \in Members(p.group) : Applies(p, e)
  THEN [e \in Entities |->
          IF e \in Members(p.group)
          THEN [scope |-> p.scopes[e], closed |-> FALSE, snapshot |-> p.snapshot]
          ELSE shown[e]]
  ELSE shown

\* Mutant: only the revision is compared.
MutantSupersededBy(p, old) == p.revision < old.revision

SupersededBy(p, old) ==
  \/ p.revision < old.revision
  \/ p.revision = old.revision /\ p.snapshot < old.snapshot

\* Mutant: an unfinished transfer is not superseded.
MutantAdmissibleStuck(p) ==
  LET fence == fences[p.group] IN
  fence # NoFence =>
    /\ ~SupersededBy(p, fence.key)
    /\ IF fence.receipts THEN p # fence.key ELSE p = fence.key /\ Kept[p.group] # NoAssembly

\* The checks of receive against the fence of the group.
Admissible(p) ==
  LET fence == fences[p.group] IN
  fence # NoFence =>
    /\ ~SupersededBy(p, fence.key)
    /\ fence.receipts \/ Kept[p.group] # NoAssembly
    /\ p = fence.key => ~fence.receipts

Foreign(p) == p.connection # epoch

\* Whether a chunk starts an assembly over, and what it adds to it.
Replaces(p) == fences[p.group] # NoFence /\ fences[p.group].key # p
Existing(p) == IF Replaces(p) THEN NoAssembly ELSE Kept[p.group]
AddedBytes(p, i) ==
  Cardinality(ChunkMembers(p, i))
    + (IF Existing(p) = NoAssembly THEN Cardinality(Members(p.group)) ELSE 0)

\* Mutant: the bytes of an assembly that is replaced stay charged.
MutantBytesAfter(p, i) == KeptBytes + AddedBytes(p, i)

BytesAfter(p, i) ==
  KeptBytes - (IF Replaces(p) THEN Kept[p.group].bytes ELSE 0) + AddedBytes(p, i)

HasRoom(p, i) ==
  /\ BytesAfter(p, i) <= StagingBytes
  /\ Kept[p.group] = NoAssembly =>
       Cardinality({g \in Groups : Kept[g] # NoAssembly}) < Incomplete

\* Mutant: a newer snapshot gets a deadline of its own.
MutantStarted(p) == IF Existing(p) # NoAssembly THEN Existing(p).started ELSE clock

\* A transfer keeps the deadline of the one it replaces.
Started(p) == IF Kept[p.group] # NoAssembly THEN Kept[p.group].started ELSE clock

\* receive, when nothing but the deadlines changes: the chunk is of another
\* connection, obsolete, too much, or known already.
Refuse(p, i) ==
  /\ Foreign(p) \/ ~Admissible(p) \/ i \in Existing(p).chunks \/ ~HasRoom(p, i)
  /\ assemblies' = Kept /\ bytes' = KeptBytes
  /\ UNCHANGED <<fences, shown, begun>>

\* receive of a chunk that belongs to the newest transfer of its group.
Stage(p, i) ==
  LET chunks == Existing(p).chunks \cup {i}
      g      == p.group
      done   == chunks = 1..p.count
  IN /\ ~Foreign(p) /\ Admissible(p) /\ i \notin Existing(p).chunks /\ HasRoom(p, i)
     /\ fences' = [fences EXCEPT ![g] = [key |-> p, receipts |->
                     done /\ \A e \in Members(g) : Applies(p, e)]]
     /\ assemblies' = [Kept EXCEPT ![g] =
          IF done THEN NoAssembly
          ELSE [chunks |-> chunks, started |-> Started(p), bytes |-> Existing(p).bytes + AddedBytes(p, i)]]
     /\ bytes' = IF done THEN BytesAfter(p, i) - Existing(p).bytes - AddedBytes(p, i)
                 ELSE BytesAfter(p, i)
     /\ shown' = IF done THEN Applied(p) ELSE shown
     /\ begun' = [begun EXCEPT ![g] = IF Kept[g] = NoAssembly THEN clock ELSE @]

Receive(p, i) ==
  /\ Refuse(p, i) \/ Stage(p, i)
  /\ UNCHANGED <<epoch, network, clock>>

\* apply_exit for a scope that the server has left.
ReceiveExit(e) ==
  /\ server = epoch /\ shown[e].scope < scopes[e]
  /\ \E s \in 1..(scopes[e] - 1) :
       /\ s > shown[e].scope \/ (s = shown[e].scope /\ ~shown[e].closed)
       /\ shown' = [shown EXCEPT ![e] = [scope |-> s, closed |-> TRUE, snapshot |-> 0]]
  /\ UNCHANGED <<epoch, network, clock, fences, assemblies, bytes, begun>>

\* reset of the assembler and of the client's scopes.
Reset ==
  /\ epoch < server
  /\ epoch' = server
  /\ fences' = [g \in Groups |-> NoFence]
  /\ assemblies' = [g \in Groups |-> NoAssembly]
  /\ bytes' = 0
  /\ shown' = NothingShown
  /\ UNCHANGED <<network, clock, begun>>

Wait ==
  /\ clock < MaxTime
  /\ clock' = clock + 1
  /\ UNCHANGED <<epoch, network, fences, assemblies, bytes, shown, begun>>

\* Every chunk may arrive, at any time and again.
Deliver == \E p \in published : \E i \in 1..p.count : Receive(p, i)

Next ==
  \/ \E g \in Groups : Publish(g)
  \/ Reconnect
  \/ Deliver
  \/ \E e \in Entities : Reenter(e) \/ ReceiveExit(e)
  \/ Reset \/ Wait

Spec == Init /\ [][Next]_vars

\* The server sends its newest publications until they are decoded, and stops
\* making new ones.
Current(g) == {p \in Sent(g) : p.snapshot = Newest(g)}
DeliverNewest(g, i) == \E p \in Current(g) : i <= p.count /\ Receive(p, i)
Fairness ==
  /\ \A g \in Groups, i \in 1..2 : SF_vars(DeliverNewest(g, i))
  /\ WF_vars(Reset)
FairSpec == Spec /\ Fairness

-----------------------------------------------------------------------------
\* The state keeps its shape, and staging keeps within its limits.
TypeOK ==
  /\ epoch \in 1..MaxChanges /\ server \in epoch..MaxChanges
  /\ scopes \in [Entities -> 1..MaxChanges]
  /\ published \subseteq UNION {Publication(g) : g \in Groups}
  /\ \A g \in Groups :
       /\ fences[g] = NoFence \/ (fences[g].key \in published /\ fences[g].receipts \in BOOLEAN)
       /\ assemblies[g].chunks \subseteq 1..2 /\ assemblies[g].started \in 0..clock
       /\ assemblies[g] # NoAssembly => fences[g] # NoFence
  /\ shown \in [Entities -> [scope : 0..MaxChanges, closed : BOOLEAN, snapshot : 0..MaxPublications]]
  /\ Cardinality(Staging) <= Incomplete
  /\ bytes \in 0..StagingBytes

\* The charged bytes are those of the chunks and manifests that are staged,
\* through replacement, expiry, completion and failure.
BytesExact ==
  /\ TypeOK
  /\ bytes = MapThenSumSet(LAMBDA g : assemblies[g].bytes, Groups)
  /\ \A g \in Staging :
       assemblies[g].bytes = Cardinality(Members(g)) +
         MapThenSumSet(LAMBDA i : Cardinality(ChunkMembers(fences[g].key, i)), assemblies[g].chunks)

\* The client never shows a torn group: a step that shows something new of one
\* member shows one whole publication that the server of this connection made,
\* whatever chunks are lost, repeated, overtaken or left over from the connection
\* before, and whichever members left their scope meanwhile.
NeverTorn ==
  \A g \in Groups :
       (\E e \in Members(g) : shown'[e] # shown[e] /\ shown'[e].snapshot # 0) =>
         \E p \in published :
           /\ p.group = g /\ p.connection = epoch
           /\ \A f \in Members(g) :
                shown'[f] = [scope |-> p.scopes[f], closed |-> FALSE, snapshot |-> p.snapshot]

\* "A newer snapshot supersedes an unfinished full transfer without extending its
\* original deadline": the age of a transfer counts from its first chunk, however
\* often it was superseded.
DeadlineKept == \A g \in Staging : assemblies[g].started = begun[g]

\* The staging area keeps its two budgets, bytes and time.
StagingBounded == BytesExact /\ DeadlineKept

\* A group without receipts and without an assembly has failed or expired.
Dead(g) == fences[g] # NoFence /\ ~fences[g].receipts /\ assemblies[g] = NoAssembly

\* Within a connection a transfer never gives way to an older one, no member goes
\* back to an older state or an ended scope, and "expired incomplete groups
\* require explicit reset before accepting more data": neither late chunks nor
\* newer publications bring one back.
OnlyForward ==
  epoch' = epoch =>
       /\ \A g \in Groups : fences[g] # NoFence =>
            /\ fences[g]'.key.revision >= fences[g].key.revision
            /\ fences[g]'.key.snapshot >= fences[g].key.snapshot
            /\ Dead(g) => Dead(g)'
       /\ \A e \in Entities :
            \/ shown[e]'.scope > shown[e].scope
            \/ shown[e]'.scope = shown[e].scope /\ (shown[e].closed => shown[e]'.closed)
                 /\ (shown[e]'.closed \/ shown[e]'.snapshot >= shown[e].snapshot)

\* What the client shows of a group changes as a whole and only forward.
ShownWhole == [][NeverTorn /\ OnlyForward]_vars

\* Every group settles: once the server publishes nothing new, the client shows
\* its newest publication or holds it as failed, in spite of groups that compete
\* for the staging area and never complete.
Settles ==
  \A g \in Groups :
    <>[](Sent(g) = {} \/ Dead(g) \/ (fences[g] # NoFence /\ fences[g].receipts
                                      /\ fences[g].key \in Current(g)))

-----------------------------------------------------------------------------
(* Proofs, for every set of groups and members, every limit and every bound: *)
(* ShownWhole, and the part of StagingBounded that is not a sum of bytes.    *)
(* The inductive invariant says what the publications of a connection have   *)
(* in common: a later snapshot never has an earlier revision, so that the    *)
(* order of the fences, which compares revisions first, is that of both.     *)

PublicationOk(p) ==
  /\ p.group \in Groups /\ p.connection \in Nat /\ p.connection <= server
  /\ p.revision \in Nat /\ p.snapshot \in Nat /\ p.snapshot > 0
  /\ p.scopes \in [Members(p.group) -> Nat]

InStep(p, q) ==
  p.group = q.group /\ p.connection = q.connection /\ p.snapshot <= q.snapshot => p.revision <= q.revision

PublishedOk ==
  /\ \A p \in published : PublicationOk(p)
  /\ \A p, q \in published : InStep(p, q)
  /\ \E n \in Nat : \A p \in published : p.snapshot <= n

FenceOk(f, g) ==
  f = NoFence \/ (f.key \in published /\ f.key.group = g /\ f.key.connection = epoch)

AssemblyInv ==
  /\ epoch \in Nat /\ server \in Nat /\ epoch <= server
  /\ scopes \in [Entities -> Nat]
  /\ shown \in [Entities -> [scope : Nat, closed : BOOLEAN, snapshot : Nat]]
  /\ PublishedOk
  /\ \A g \in Groups : FenceOk(fences[g], g)
  /\ DOMAIN fences = Groups /\ DOMAIN begun = Groups
  /\ IsFiniteSet(Staging) /\ Cardinality(Staging) <= Incomplete
  /\ DeadlineKept

\* A nonempty bounded set of numbers has a maximum, which Max chooses.
LEMMA MaxOfBounded ==
  ASSUME NEW n \in Nat, NEW T, T \subseteq 0..n, T # {}
  PROVE  Max(T) \in T /\ Max(T) \in Nat /\ \A j \in T : j <= Max(T)
<1> DEFINE D == {n - i : i \in T}
<1>1. D \subseteq Nat /\ D # {}
  <2>1. PICK i \in T : TRUE
    BY Zenon
  <2>2. n - i \in D
    BY Zenon
  <2>3. \A j \in T : n - j \in Nat
    OBVIOUS
  <2> QED BY Zenon, <2>2, <2>3
<1>2. PICK d \in D : \A e \in D : ~(<<e, d>> \in OpToRel(<, Nat))
  <2> HIDE DEF D
  <2> QED BY Zenon, <1>1, NatLessThanWellFounded, WFMin
<1>3. PICK i \in T : d = n - i
  BY Zenon, <1>2
<1>4. ASSUME NEW j \in T PROVE i >= j
  <2>1. n - j \in D
    BY Zenon
  <2>2. n - j \in Nat /\ d \in Nat /\ ~(n - j < d)
    BY Zenon, <1>1, <1>2, <2>1 DEF OpToRel
  <2> QED BY <1>3, <2>2
<1> DEFINE m == CHOOSE x \in T : \A y \in T : x >= y
<1>5. m \in T /\ \A y \in T : m >= y
  BY Zenon, <1>4
<1>6. m = Max(T)
  BY Zenon DEF Max
<1> HIDE DEF m
<1>7. m \in Nat /\ \A j \in T : j <= m
  <2>1. m \in 0..n
    BY Zenon, <1>5
  <2>2. ASSUME NEW j \in T PROVE j <= m
    <3>1. j \in 0..n /\ m >= j
      BY Zenon, <1>5
    <3> QED BY <2>1, <3>1
  <2>3. m \in Nat
    BY <2>1
  <2> QED BY Zenon, <2>2, <2>3
<1> QED BY Zenon, <1>5, <1>6, <1>7

\* The newest snapshot of a group is past all others.
LEMMA NewestFacts ==
  ASSUME AssemblyInv, NEW g \in Groups
  PROVE  /\ Newest(g) \in Nat
         /\ \A p \in Sent(g) : p.snapshot <= Newest(g)
         /\ \A p \in Sent(g) : \E q \in Sent(g) : q.snapshot = Newest(g)
<1> DEFINE T == {0} \cup {p.snapshot : p \in Sent(g)}
<1>1. PICK n \in Nat : \A p \in published : p.snapshot <= n
  BY Zenon DEF AssemblyInv, PublishedOk
<1>2. \A p \in Sent(g) : p.snapshot \in Nat /\ p.snapshot > 0 /\ p.snapshot <= n
  BY Zenon, <1>1 DEF Sent, AssemblyInv, PublishedOk, PublicationOk
<1>3. T \subseteq 0..n /\ T # {}
  BY <1>1, <1>2
<1>4. Newest(g) = Max(T)
  BY Zenon DEF Newest
<1>5. \A p \in Sent(g) : p.snapshot \in T
  BY Zenon
<1>6. \A t \in T : t = 0 \/ \E q \in Sent(g) : q.snapshot = t
  BY Zenon
<1> HIDE DEF T
<1>7. Max(T) \in T /\ Max(T) \in Nat /\ \A j \in T : j <= Max(T)
  BY Zenon, <1>1, <1>3, MaxOfBounded
<1>8. ASSUME NEW p \in Sent(g) PROVE \E q \in Sent(g) : q.snapshot = Max(T)
  <2>1. Max(T) # 0
    BY <1>2, <1>5, <1>7
  <2> QED BY Zenon, <1>6, <1>7, <2>1
<1> QED BY Zenon, <1>4, <1>5, <1>7, <1>8

\* The revision never goes back.
LEMMA RevisionFacts ==
  ASSUME AssemblyInv, NEW g \in Groups
  PROVE  Revision(g) \in Nat /\ \A p \in Sent(g) : p.revision <= Revision(g)
<1> DEFINE last == {p \in Sent(g) : p.snapshot = Newest(g)}
           Bump(p) == p.revision + (IF \A e \in Members(g) : p.scopes[e] = scopes[e] THEN 0 ELSE 1)
           T == {1} \cup {Bump(p) : p \in last}
<1>1. Revision(g) = Max(T)
  BY Zenon DEF Revision
<1>2. \A p \in Sent(g) : p \in published /\ p.group = g /\ p.connection = server /\ p.revision \in Nat
  BY Zenon DEF Sent, AssemblyInv, PublishedOk, PublicationOk
<1>3. \A p, q \in Sent(g) : p.snapshot <= q.snapshot => p.revision <= q.revision
  BY Zenon, <1>2 DEF AssemblyInv, PublishedOk, InStep
<1>4. /\ Newest(g) \in Nat
      /\ \A p \in Sent(g) : p.snapshot <= Newest(g)
      /\ \A p \in Sent(g) : \E q \in Sent(g) : q.snapshot = Newest(g)
  BY Zenon, NewestFacts
<1>5. \A p \in last : Bump(p) \in Nat /\ p.revision <= Bump(p) /\ Bump(p) <= p.revision + 1
  BY <1>2
<1>6. \E n \in Nat : T \subseteq 0..n
  <2>1. CASE last = {}
    <3>1. T \subseteq 0..1
      BY <2>1
    <3> QED BY Zenon, <3>1
  <2>2. CASE last # {}
    <3>1. PICK q \in last : TRUE
      BY Zenon, <2>2
    <3>2. q.revision \in Nat /\ q \in Sent(g) /\ q.snapshot = Newest(g)
      BY Zenon, <1>2, <3>1
    <3>3. \A p \in last : p.revision \in Nat /\ p.revision <= q.revision
      BY Zenon, <1>2, <1>3, <1>4, <3>2
    <3>4. ASSUME NEW p \in last PROVE Bump(p) \in 0..(q.revision + 1)
      BY <1>5, <3>2, <3>3
    <3>5. T \subseteq 0..(q.revision + 1)
      BY <3>2, <3>4
    <3> QED BY <3>2, <3>5
  <2> QED BY Zenon, <2>1, <2>2
<1>7. T # {} /\ \A p \in last : Bump(p) \in T
  BY Zenon
<1> HIDE DEF T, Bump
<1>8. Max(T) \in Nat /\ \A j \in T : j \in Nat /\ j <= Max(T)
  <2>1. PICK n \in Nat : T \subseteq 0..n
    BY Zenon, <1>6
  <2>2. Max(T) \in Nat /\ \A j \in T : j <= Max(T)
    BY Zenon, <1>7, <2>1, MaxOfBounded
  <2> QED BY <2>1, <2>2
<1>9. ASSUME NEW p \in Sent(g) PROVE p.revision <= Max(T)
  <2>1. PICK q \in Sent(g) : q.snapshot = Newest(g)
    BY Zenon, <1>4
  <2>2. q \in last /\ p.revision <= q.revision
    BY Zenon, <1>3, <1>4, <2>1
  <2>3. Bump(q) \in Nat /\ q.revision <= Bump(q) /\ Bump(q) <= Max(T)
    BY Zenon, <1>5, <1>7, <1>8, <2>2
  <2>4. p.revision \in Nat /\ q.revision \in Nat
    BY Zenon, <1>2
  <2> QED BY <1>8, <2>2, <2>3, <2>4
<1> QED BY Zenon, <1>1, <1>8, <1>9

\* A step that leaves the client and the publications alone.
LEMMA ClientIdle ==
  ASSUME AssemblyInv, UNCHANGED <<epoch, fences, assemblies, shown, begun>>,
         server' \in Nat, epoch <= server', scopes' \in [Entities -> Nat],
         published \subseteq published', PublishedOk'
  PROVE  AssemblyInv'
<1>1. \A g \in Groups : FenceOk(fences[g], g)'
  BY Zenon DEF AssemblyInv, FenceOk
<1>2. Staging' = Staging /\ DeadlineKept'
  BY Zenon DEF AssemblyInv, Staging, DeadlineKept
<1> QED BY Zenon, <1>1, <1>2 DEF AssemblyInv

\* The server publishes with a newer snapshot and no older revision.
LEMMA PublishInv ==
  ASSUME GroupsAssumption, AssemblyInv, NEW g \in Groups, Publish(g)
  PROVE  AssemblyInv'
<1>1. PICK count \in 1..2 : published' = published \cup
          {[connection |-> server, group |-> g, revision |-> Revision(g),
            snapshot |-> Newest(g) + 1, count |-> count,
            scopes |-> [e \in Members(g) |-> scopes[e]]]}
  BY Zenon DEF Publish
<1>2. /\ UNCHANGED <<epoch, fences, assemblies, shown, begun>>
      /\ server' = server /\ scopes' = scopes /\ server \in Nat
  BY Zenon DEF Publish, AssemblyInv
<1>3. /\ Newest(g) \in Nat /\ \A p \in Sent(g) : p.snapshot <= Newest(g)
      /\ Revision(g) \in Nat /\ \A p \in Sent(g) : p.revision <= Revision(g)
  BY Zenon, NewestFacts, RevisionFacts
<1>4. [e \in Members(g) |-> scopes[e]] \in [Members(g) -> Nat]
  BY Zenon DEF AssemblyInv, Entities
<1>5. PICK new : /\ new.group = g /\ new.connection = server /\ new.revision = Revision(g)
                 /\ new.snapshot = Newest(g) + 1 /\ new.scopes \in [Members(g) -> Nat]
                 /\ published' = published \cup {new}
  BY Zenon, <1>1, <1>4
<1>6. published' = published \cup {new}
  BY Zenon, <1>5
<1>7. \A p \in published' : PublicationOk(p)'
  <2>1. PublicationOk(new)'
    BY <1>2, <1>3, <1>5 DEF PublicationOk
  <2>2. \A p \in published : PublicationOk(p)'
    BY Zenon, <1>2 DEF AssemblyInv, PublishedOk, PublicationOk
  <2> QED BY Zenon, <1>6, <2>1, <2>2
<1>8. ASSUME NEW p \in published', NEW q \in published' PROVE InStep(p, q)
  <2>1. CASE p \in published /\ q \in published
    BY Zenon, <2>1 DEF AssemblyInv, PublishedOk
  <2>2. CASE p \in published /\ q = new
    BY Zenon, <1>3, <1>5, <2>2 DEF InStep, Sent
  <2>3. CASE p = new /\ q \in published
    <3>1. q.group = g /\ q.connection = server => q.snapshot \in Nat /\ q.snapshot <= Newest(g)
      BY Zenon, <1>3, <2>3 DEF Sent, AssemblyInv, PublishedOk, PublicationOk
    <3> QED BY <1>3, <1>5, <2>3, <3>1 DEF InStep
  <2>4. CASE p = new /\ q = new
    BY <1>3, <1>5, <2>4 DEF InStep
  <2> QED BY Zenon, <1>6, <2>1, <2>2, <2>3, <2>4
<1>9. \E n \in Nat : \A p \in published' : p.snapshot <= n
  <2>1. PICK n \in Nat : \A p \in published : p.snapshot <= n
    BY Zenon DEF AssemblyInv, PublishedOk
  <2>2. \A p \in published : p.snapshot \in Nat
    BY Zenon DEF AssemblyInv, PublishedOk, PublicationOk
  <2>3. n + Newest(g) + 1 \in Nat /\ \A p \in published' : p.snapshot <= n + Newest(g) + 1
    BY <1>3, <1>5, <1>6, <2>1, <2>2
  <2> QED BY Zenon, <2>3
<1>10. PublishedOk'
  BY Zenon, <1>7, <1>8, <1>9 DEF PublishedOk, InStep
<1>11. epoch <= server' /\ scopes' \in [Entities -> Nat] /\ published \subseteq published'
  BY Zenon, <1>2, <1>6 DEF AssemblyInv
<1> QED BY Zenon, <1>2, <1>10, <1>11, ClientIdle

\* The server moves on: a new scope, a new connection.
LEMMA ServerMovesInv ==
  ASSUME AssemblyInv, Reconnect \/ \E e \in Entities : Reenter(e)
  PROVE  AssemblyInv'
<1>1. /\ UNCHANGED <<epoch, fences, assemblies, shown, begun, published>>
      /\ server' = server \/ server' = server + 1
  BY Zenon DEF Reconnect, Reenter
<1>2. epoch \in Nat /\ server \in Nat /\ epoch <= server
  BY Zenon DEF AssemblyInv
<1>3. server' \in Nat /\ server <= server' /\ epoch <= server'
  BY <1>1, <1>2
<1>4. scopes' \in [Entities -> Nat]
  BY DEF AssemblyInv, Reconnect, Reenter
<1>5. \A p \in published : PublicationOk(p)'
  BY <1>1, <1>2, <1>3 DEF AssemblyInv, PublishedOk, PublicationOk
<1>6. PublishedOk'
  BY Zenon, <1>1, <1>5 DEF AssemblyInv, PublishedOk, InStep
<1> QED BY Zenon, <1>1, <1>3, <1>4, <1>6, ClientIdle

\* What expiry leaves of the assemblies.
LEMMA KeptFacts ==
  ASSUME AssemblyInv
  PROVE  /\ DOMAIN Kept = Groups
         /\ \A g \in Groups : Kept[g] = assemblies[g] \/ Kept[g] = NoAssembly
         /\ \A g \in Groups : Kept[g] # NoAssembly => Kept[g].started = begun[g]
         /\ IsFiniteSet({g \in Groups : Kept[g] # NoAssembly})
         /\ Cardinality({g \in Groups : Kept[g] # NoAssembly}) \in Nat
         /\ Incomplete \in Nat => Cardinality({g \in Groups : Kept[g] # NoAssembly}) <= Incomplete
<1> DEFINE S == {g \in Groups : Kept[g] # NoAssembly}
<1>1. DOMAIN Kept = Groups /\ \A g \in Groups : Kept[g] = assemblies[g] \/ Kept[g] = NoAssembly
  BY Zenon DEF Kept
<1>2. \A g \in Groups : Kept[g] # NoAssembly => Kept[g].started = begun[g]
  BY Zenon, <1>1 DEF AssemblyInv, DeadlineKept, Staging
<1>3. S \subseteq Staging
  BY Zenon, <1>1 DEF Staging
<1> HIDE DEF S
<1>4. IsFiniteSet(S) /\ Cardinality(S) <= Cardinality(Staging)
  BY Zenon, <1>3, FS_Subset DEF AssemblyInv
<1>5. Cardinality(S) \in Nat /\ Cardinality(Staging) \in Nat
  BY Zenon, <1>4, FS_CardinalityType DEF AssemblyInv
<1>6. Incomplete \in Nat => Cardinality(S) <= Incomplete
  BY <1>4, <1>5 DEF AssemblyInv
<1> QED BY Zenon, <1>1, <1>2, <1>4, <1>5, <1>6 DEF S

\* Staging after a chunk of group g: within the limit, and on the deadlines.
LEMMA StagingStep ==
  ASSUME GroupsAssumption, AssemblyInv, DOMAIN begun' = Groups, NEW g \in Groups,
         \A h \in Groups \ {g} : assemblies'[h] = Kept[h] /\ begun'[h] = begun[h],
         assemblies'[g] # NoAssembly => assemblies'[g].started = begun'[g],
         Kept[g] = NoAssembly => Cardinality({h \in Groups : Kept[h] # NoAssembly}) < Incomplete
  PROVE  IsFiniteSet(Staging') /\ Cardinality(Staging') <= Incomplete /\ DeadlineKept'
<1> DEFINE S == {h \in Groups : Kept[h] # NoAssembly}
<1>1. /\ \A h \in Groups : Kept[h] # NoAssembly => Kept[h].started = begun[h]
      /\ IsFiniteSet(S) /\ Cardinality(S) \in Nat /\ Cardinality(S) <= Incomplete
      /\ Incomplete \in Nat
  BY Zenon, KeptFacts DEF GroupsAssumption
<1>2. Staging' \subseteq S \cup {g} /\ (g \notin S => Kept[g] = NoAssembly)
  BY Zenon DEF Staging
<1>3. \A h \in Groups \ {g} : h \in Staging' => assemblies'[h].started = begun'[h]
  BY Zenon, <1>1 DEF Staging
<1>4. DeadlineKept'
  BY Zenon, <1>3 DEF DeadlineKept, Staging
<1> HIDE DEF S
<1>5. /\ IsFiniteSet(S \cup {g})
      /\ Cardinality(S \cup {g}) = IF g \in S THEN Cardinality(S) ELSE Cardinality(S) + 1
  BY Zenon, <1>1, FS_AddElement
<1>6. Cardinality(S \cup {g}) \in Nat /\ Cardinality(S \cup {g}) <= Incomplete
  <2>1. CASE g \in S
    BY Zenon, <1>1, <1>5, <2>1
  <2>2. CASE g \notin S
    <3>1. Cardinality(S) < Incomplete
      BY Zenon, <1>2, <2>2 DEF S
    <3> QED BY <1>1, <1>5, <2>2, <3>1
  <2> QED BY Zenon, <2>1, <2>2
<1>7. IsFiniteSet(Staging') /\ Cardinality(Staging') <= Cardinality(S \cup {g})
  BY Zenon, <1>2, <1>5, FS_Subset
<1>8. Cardinality(Staging') \in Nat
  BY Zenon, <1>7, FS_CardinalityType
<1> QED BY <1>1, <1>4, <1>6, <1>7, <1>8

\* The members of a publication are applied together or not at all.
LEMMA AppliedFacts ==
  ASSUME GroupsAssumption, AssemblyInv, NEW p \in published, Applied(p) # shown
  PROVE  /\ \A e \in Members(p.group) : Applies(p, e)
         /\ \A e \in Members(p.group) :
              Applied(p)[e] = [scope |-> p.scopes[e], closed |-> FALSE, snapshot |-> p.snapshot]
         /\ \A e \in Entities \ Members(p.group) : Applied(p)[e] = shown[e]
         /\ Applied(p) \in [Entities -> [scope : Nat, closed : BOOLEAN, snapshot : Nat]]
<1>1. PublicationOk(p) /\ shown \in [Entities -> [scope : Nat, closed : BOOLEAN, snapshot : Nat]]
  BY Zenon DEF AssemblyInv, PublishedOk
<1>2. \A e \in Members(p.group) : Applies(p, e)
  BY Zenon DEF Applied
<1>3. Applied(p) = [e \in Entities |->
                      IF e \in Members(p.group)
                      THEN [scope |-> p.scopes[e], closed |-> FALSE, snapshot |-> p.snapshot]
                      ELSE shown[e]]
  BY Zenon, <1>2 DEF Applied
<1>4. Members(p.group) \subseteq Entities
  BY Zenon, <1>1 DEF PublicationOk, Entities
<1>5. \A e \in Members(p.group) : [scope |-> p.scopes[e], closed |-> FALSE, snapshot |-> p.snapshot]
                                    \in [scope : Nat, closed : BOOLEAN, snapshot : Nat]
  BY Zenon, <1>1 DEF PublicationOk
<1> QED BY <1>1, <1>2, <1>3, <1>4, <1>5

\* A replica that does not change does not go back.
Onward(e) ==
  \/ shown[e]'.scope > shown[e].scope
  \/ shown[e]'.scope = shown[e].scope /\ (shown[e].closed => shown[e]'.closed)
       /\ (shown[e]'.closed \/ shown[e]'.snapshot >= shown[e].snapshot)

LEMMA SameIsOnward ==
  ASSUME AssemblyInv, NEW e \in Entities, shown'[e] = shown[e]
  PROVE  Onward(e)
<1>1. shown[e].snapshot \in Nat
  BY Zenon DEF AssemblyInv
<1>2. shown[e]'.snapshot >= shown[e].snapshot
  BY <1>1
<1> QED BY Zenon, <1>2 DEF Onward

\* receive of a chunk that changes nothing but the deadlines.
LEMMA RefuseInv ==
  ASSUME GroupsAssumption, AssemblyInv, NEW p \in published, NEW i, Refuse(p, i),
         UNCHANGED <<epoch, network, clock>>
  PROVE  AssemblyInv' /\ NeverTorn /\ OnlyForward
<1>1. /\ assemblies' = Kept /\ fences' = fences /\ shown' = shown /\ begun' = begun
      /\ epoch' = epoch /\ server' = server /\ scopes' = scopes /\ published' = published
  BY Zenon DEF Refuse, network
<1>2. /\ \A g \in Groups : Kept[g] = assemblies[g] \/ Kept[g] = NoAssembly
      /\ \A g \in Groups : Kept[g] # NoAssembly => Kept[g].started = begun[g]
      /\ IsFiniteSet({g \in Groups : Kept[g] # NoAssembly})
      /\ Cardinality({g \in Groups : Kept[g] # NoAssembly}) <= Incomplete
  BY Zenon, KeptFacts DEF GroupsAssumption
<1>3. Staging' = {g \in Groups : Kept[g] # NoAssembly}
  BY Zenon, <1>1 DEF Staging
<1>4. DeadlineKept'
  BY Zenon, <1>1, <1>2, <1>3 DEF DeadlineKept
<1>5. PublishedOk' /\ \A g \in Groups : FenceOk(fences[g], g)'
  BY Zenon, <1>1 DEF AssemblyInv, PublishedOk, PublicationOk, InStep, FenceOk
<1>6. AssemblyInv'
  BY Zenon, <1>1, <1>2, <1>3, <1>4, <1>5 DEF AssemblyInv
<1>7. NeverTorn
  BY Zenon, <1>1 DEF NeverTorn
<1>8. \A g \in Groups : Dead(g) => Dead(g)'
  BY Zenon, <1>1, <1>2 DEF Dead
<1>9. \A g \in Groups : fences[g] # NoFence =>
        /\ fences[g]'.key.revision >= fences[g].key.revision
        /\ fences[g]'.key.snapshot >= fences[g].key.snapshot
  <2> SUFFICES ASSUME NEW g \in Groups, fences[g] # NoFence
               PROVE  /\ fences[g]'.key.revision >= fences[g].key.revision
                      /\ fences[g]'.key.snapshot >= fences[g].key.snapshot
    BY Zenon
  <2>1. fences[g].key.revision \in Nat /\ fences[g].key.snapshot \in Nat
    BY Zenon DEF AssemblyInv, FenceOk, PublishedOk, PublicationOk
  <2> QED BY <1>1, <2>1
<1>10. \A e \in Entities : Onward(e)
  BY Zenon, <1>1, SameIsOnward
<1>11. OnlyForward
  BY Zenon, <1>8, <1>9, <1>10 DEF OnlyForward, Onward
<1> QED BY Zenon, <1>6, <1>7, <1>11

\* receive of a chunk that belongs to the newest transfer of its group.
LEMMA StageInv ==
  ASSUME GroupsAssumption, AssemblyInv, NEW p \in published, NEW i, Stage(p, i),
         UNCHANGED <<epoch, network, clock>>
  PROVE  AssemblyInv' /\ NeverTorn /\ OnlyForward
<1> DEFINE g == p.group
           done == Existing(p).chunks \cup {i} = 1..p.count
<1>1. /\ epoch' = epoch /\ server' = server /\ scopes' = scopes /\ published' = published
      /\ PublicationOk(p) /\ g \in Groups /\ p.connection = epoch
  BY Zenon DEF network, Stage, Foreign, AssemblyInv, PublishedOk, PublicationOk
<1>2. \E r \in BOOLEAN : fences' = [fences EXCEPT ![g] = [key |-> p, receipts |-> r]]
  <2>1. fences' = [fences EXCEPT ![g] = [key |-> p, receipts |->
                     done /\ \A e \in Members(g) : Applies(p, e)]]
    BY Zenon DEF Stage
  <2> QED BY Zenon, <2>1
<1>3. /\ shown' = shown \/ shown' = Applied(p)
      /\ begun' = [begun EXCEPT ![g] = IF Kept[g] = NoAssembly THEN clock ELSE @]
      /\ Kept[g] = NoAssembly => Cardinality({h \in Groups : Kept[h] # NoAssembly}) < Incomplete
      /\ Admissible(p)
  BY Zenon DEF Stage, HasRoom
<1>4. assemblies' = [Kept EXCEPT ![g] =
          IF done THEN NoAssembly
          ELSE [chunks |-> Existing(p).chunks \cup {i}, started |-> Started(p),
                bytes |-> Existing(p).bytes + AddedBytes(p, i)]]
  BY Zenon DEF Stage
<1>5. DOMAIN Kept = Groups /\ DOMAIN begun = Groups /\ DOMAIN fences = Groups
  BY Zenon, KeptFacts DEF AssemblyInv
<1> HIDE DEF done
<1>6. PICK r \in BOOLEAN : fences' = [fences EXCEPT ![g] = [key |-> p, receipts |-> r]]
  BY Zenon, <1>2
<1>7. /\ fences'[g].key = p /\ DOMAIN fences' = Groups
      /\ \A h \in Groups \ {g} : fences'[h] = fences[h]
  BY Zenon, <1>1, <1>5, <1>6
<1>8. /\ DOMAIN begun' = Groups
      /\ \A h \in Groups \ {g} : assemblies'[h] = Kept[h] /\ begun'[h] = begun[h]
  BY Zenon, <1>1, <1>3, <1>4, <1>5
<1>9. assemblies'[g] # NoAssembly => assemblies'[g].started = begun'[g]
  <2> SUFFICES ASSUME assemblies'[g] # NoAssembly PROVE assemblies'[g].started = begun'[g]
    BY Zenon
  <2>1. assemblies'[g].started = Started(p)
    BY Zenon, <1>1, <1>4, <1>5
  <2>2. begun'[g] = IF Kept[g] = NoAssembly THEN clock ELSE begun[g]
    BY Zenon, <1>1, <1>3, <1>5
  <2>3. Kept[g] # NoAssembly => Kept[g].started = begun[g]
    BY Zenon, <1>1, KeptFacts
  <2> QED BY Zenon, <2>1, <2>2, <2>3 DEF Started
<1>10. IsFiniteSet(Staging') /\ Cardinality(Staging') <= Incomplete /\ DeadlineKept'
  BY Zenon, <1>1, <1>3, <1>8, <1>9, StagingStep
<1>11. PublishedOk'
  BY Zenon, <1>1 DEF AssemblyInv, PublishedOk, PublicationOk, InStep
<1>12. ASSUME NEW h \in Groups PROVE FenceOk(fences[h], h)'
  <2>1. CASE h = g
    BY Zenon, <1>1, <1>7, <2>1 DEF FenceOk
  <2>2. CASE h # g
    BY Zenon, <1>1, <1>7, <2>2 DEF FenceOk, AssemblyInv
  <2> QED BY Zenon, <2>1, <2>2
<1>13. shown' \in [Entities -> [scope : Nat, closed : BOOLEAN, snapshot : Nat]]
  BY <1>3, AppliedFacts DEF AssemblyInv
<1>14. AssemblyInv'
  BY Zenon, <1>1, <1>7, <1>8, <1>10, <1>11, <1>12, <1>13 DEF AssemblyInv
<1>15. NeverTorn
  <2> SUFFICES ASSUME NEW h \in Groups, NEW e \in Members(h), shown'[e] # shown[e]
               PROVE  \E q \in published :
                        /\ q.group = h /\ q.connection = epoch
                        /\ \A f \in Members(h) :
                             shown'[f] = [scope |-> q.scopes[f], closed |-> FALSE, snapshot |-> q.snapshot]
    BY Zenon DEF NeverTorn
  <2>1. shown' = Applied(p) /\ Applied(p) # shown
    BY Zenon, <1>3
  <2>2. e \in Entities
    BY Zenon DEF Entities
  <2>3. e \in Members(g)
    BY <2>1, <2>2, AppliedFacts
  <2>4. h = g
    BY Zenon, <1>1, <2>3 DEF GroupsAssumption
  <2> QED BY ZenonT(30), <1>1, <2>1, <2>4, AppliedFacts
<1>16. ASSUME NEW h \in Groups, fences[h] # NoFence
       PROVE  /\ fences[h]'.key.revision >= fences[h].key.revision
              /\ fences[h]'.key.snapshot >= fences[h].key.snapshot
              /\ Dead(h) => Dead(h)'
  <2> DEFINE k == fences[h].key
  <2>1. k \in published /\ PublicationOk(k) /\ k.group = h /\ k.connection = epoch
    BY Zenon, <1>16 DEF AssemblyInv, FenceOk, PublishedOk
  <2>2. /\ k.revision \in Nat /\ k.snapshot \in Nat /\ p.revision \in Nat /\ p.snapshot \in Nat
    BY Zenon, <1>1, <2>1 DEF PublicationOk
  <2>3. Kept[h] = assemblies[h] \/ Kept[h] = NoAssembly
    BY Zenon, KeptFacts
  <2>4. CASE h = g
    <3>1. ~SupersededBy(p, k) /\ (fences[h].receipts \/ Kept[h] # NoAssembly)
      BY Zenon, <1>3, <1>16, <2>4 DEF Admissible
    <3>2. ~Dead(h)
      BY Zenon, <2>3, <3>1 DEF Dead
    <3>3. p.revision >= k.revision /\ (p.revision = k.revision => p.snapshot >= k.snapshot)
      BY <2>2, <3>1 DEF SupersededBy
    <3>4. InStep(p, k)
      BY Zenon, <2>1 DEF AssemblyInv, PublishedOk
    <3>5. p.snapshot <= k.snapshot => p.revision <= k.revision
      BY Zenon, <1>1, <2>1, <2>4, <3>4 DEF InStep
    <3>6. p.snapshot >= k.snapshot
      BY <2>2, <3>3, <3>5
    <3> QED BY Zenon, <1>7, <2>4, <3>2, <3>3, <3>6
  <2>5. CASE h # g
    <3>1. fences'[h] = fences[h] /\ assemblies'[h] = Kept[h]
      BY Zenon, <1>7, <1>8, <2>5
    <3>2. Dead(h) => Dead(h)'
      BY Zenon, <2>3, <3>1 DEF Dead
    <3> QED BY <2>2, <3>1, <3>2
  <2> QED BY Zenon, <2>4, <2>5
<1>17. ASSUME NEW e \in Entities PROVE Onward(e)
  <2>1. CASE shown'[e] = shown[e]
    BY Zenon, <2>1, SameIsOnward
  <2>2. CASE shown'[e] # shown[e]
    <3>1. shown' = Applied(p) /\ Applied(p) # shown
      BY Zenon, <1>3, <2>2
    <3>2. e \in Members(g)
      BY <2>2, <3>1, AppliedFacts
    <3>3. Applies(p, e) /\ shown'[e] = [scope |-> p.scopes[e], closed |-> FALSE, snapshot |-> p.snapshot]
      BY Zenon, <3>1, <3>2, AppliedFacts
    <3> QED BY <3>3 DEF Applies, Onward
  <2> QED BY Zenon, <2>1, <2>2
<1>18. OnlyForward
  BY Zenon, <1>16, <1>17 DEF OnlyForward, Onward
<1> QED BY Zenon, <1>14, <1>15, <1>18

\* apply_exit
LEMMA ReceiveExitInv ==
  ASSUME AssemblyInv, NEW e \in Entities, ReceiveExit(e)
  PROVE  AssemblyInv' /\ NeverTorn /\ OnlyForward
<1>1. /\ epoch' = epoch /\ server' = server /\ scopes' = scopes /\ published' = published
      /\ fences' = fences /\ assemblies' = assemblies /\ begun' = begun
  BY Zenon DEF ReceiveExit, network
<1>2. scopes[e] \in Nat /\ shown \in [Entities -> [scope : Nat, closed : BOOLEAN, snapshot : Nat]]
  BY Zenon DEF AssemblyInv
<1>3. PICK s \in 1..(scopes[e] - 1) :
        /\ s > shown[e].scope \/ (s = shown[e].scope /\ ~shown[e].closed)
        /\ shown' = [shown EXCEPT ![e] = [scope |-> s, closed |-> TRUE, snapshot |-> 0]]
  BY Zenon DEF ReceiveExit
<1>4. s \in Nat
  BY <1>2, <1>3
<1>5. /\ shown'[e] = [scope |-> s, closed |-> TRUE, snapshot |-> 0]
      /\ \A f \in Entities \ {e} : shown'[f] = shown[f]
      /\ shown' \in [Entities -> [scope : Nat, closed : BOOLEAN, snapshot : Nat]]
  BY Zenon, <1>2, <1>3, <1>4
<1>6. Staging' = Staging /\ DeadlineKept'
  BY Zenon, <1>1 DEF AssemblyInv, Staging, DeadlineKept
<1>7. PublishedOk' /\ \A g \in Groups : FenceOk(fences[g], g)'
  BY Zenon, <1>1 DEF AssemblyInv, PublishedOk, PublicationOk, InStep, FenceOk
<1>8. AssemblyInv'
  BY Zenon, <1>1, <1>5, <1>6, <1>7 DEF AssemblyInv
<1>9. NeverTorn
  <2>1. \A f \in Entities : shown'[f] # shown[f] => shown'[f].snapshot = 0
    BY <1>5
  <2>2. \A g \in Groups : \A f \in Members(g) : f \in Entities
    BY Zenon DEF Entities
  <2> QED BY Zenon, <2>1, <2>2 DEF NeverTorn
<1>10. ASSUME NEW f \in Entities PROVE Onward(f)
  <2>1. CASE f = e
    BY Zenon, <1>3, <1>5, <2>1 DEF Onward
  <2>2. CASE f # e
    BY Zenon, <1>5, <2>2, SameIsOnward
  <2> QED BY Zenon, <2>1, <2>2
<1>11. \A g \in Groups : fences[g] # NoFence =>
         /\ fences[g]'.key.revision >= fences[g].key.revision
         /\ fences[g]'.key.snapshot >= fences[g].key.snapshot
         /\ Dead(g) => Dead(g)'
  <2>1. \A g \in Groups : fences[g] # NoFence =>
          fences[g].key.revision \in Nat /\ fences[g].key.snapshot \in Nat
    BY Zenon DEF AssemblyInv, FenceOk, PublishedOk, PublicationOk
  <2>2. \A g \in Groups : Dead(g) => Dead(g)'
    BY Zenon, <1>1 DEF Dead
  <2> QED BY SMTT(30), <1>1, <2>1, <2>2
<1>12. OnlyForward
  BY Zenon, <1>10, <1>11 DEF OnlyForward, Onward
<1> QED BY Zenon, <1>8, <1>9, <1>12

\* A step that leaves the client alone shows nothing new.
LEMMA IdleIsOnward ==
  ASSUME AssemblyInv, UNCHANGED <<fences, assemblies, shown>>
  PROVE  NeverTorn /\ OnlyForward
<1>1. NeverTorn
  BY Zenon DEF NeverTorn
<1>2. \A e \in Entities : Onward(e)
  BY Zenon, SameIsOnward
<1>3. \A g \in Groups : fences[g] # NoFence =>
        fences[g].key.revision \in Nat /\ fences[g].key.snapshot \in Nat
  BY Zenon DEF AssemblyInv, FenceOk, PublishedOk, PublicationOk
<1>4. \A g \in Groups : Dead(g) => Dead(g)'
  BY Zenon DEF Dead
<1>5. OnlyForward
  BY <1>2, <1>3, <1>4 DEF OnlyForward, Onward
<1> QED BY Zenon, <1>1, <1>5

\* reset of the assembler and of the client's scopes.
LEMMA ResetInv ==
  ASSUME GroupsAssumption, AssemblyInv, Reset
  PROVE  AssemblyInv' /\ NeverTorn /\ OnlyForward
<1>1. /\ epoch \in Nat /\ server \in Nat /\ epoch < server /\ epoch' = server
      /\ server' = server /\ scopes' = scopes /\ published' = published /\ begun' = begun
      /\ fences' = [g \in Groups |-> NoFence] /\ assemblies' = [g \in Groups |-> NoAssembly]
      /\ shown' = NothingShown
  BY Zenon DEF AssemblyInv, Reset, network
<1>2. Staging' = {}
  BY Zenon, <1>1 DEF Staging
<1>3. IsFiniteSet(Staging') /\ Cardinality(Staging') <= Incomplete
  <2>1. IsFiniteSet(Staging') /\ Cardinality(Staging') = 0
    BY Zenon, <1>2, FS_EmptySet
  <2> QED BY <2>1 DEF GroupsAssumption
<1>4. DeadlineKept'
  BY Zenon, <1>2 DEF DeadlineKept
<1>5. PublishedOk' /\ \A g \in Groups : FenceOk(fences[g], g)'
  BY Zenon, <1>1 DEF AssemblyInv, PublishedOk, PublicationOk, InStep, FenceOk
<1>6. /\ shown' \in [Entities -> [scope : Nat, closed : BOOLEAN, snapshot : Nat]]
      /\ \A e \in Entities : shown'[e].snapshot = 0
  BY Zenon, <1>1 DEF NothingShown
<1>7. AssemblyInv'
  BY <1>1, <1>3, <1>4, <1>5, <1>6 DEF AssemblyInv
<1>8. NeverTorn
  BY Zenon, <1>6 DEF NeverTorn, Entities
<1>9. OnlyForward
  BY <1>1 DEF OnlyForward
<1> QED BY Zenon, <1>7, <1>8, <1>9

\* Every step keeps the invariant and shows whole groups, in their order.
LEMMA AssemblyStep ==
  ASSUME GroupsAssumption, AssemblyInv, Next
  PROVE  AssemblyInv' /\ NeverTorn /\ OnlyForward
<1>1. ASSUME NEW g \in Groups, Publish(g) PROVE AssemblyInv' /\ NeverTorn /\ OnlyForward
  BY Zenon, <1>1, PublishInv, IdleIsOnward DEF Publish
<1>2. CASE Reconnect \/ \E e \in Entities : Reenter(e)
  <2>1. UNCHANGED <<fences, assemblies, shown>>
    BY Zenon, <1>2 DEF Reconnect, Reenter
  <2> QED BY Zenon, <1>2, <2>1, ServerMovesInv, IdleIsOnward
<1>3. CASE Deliver
  <2>1. PICK p \in published : \E i \in 1..p.count : Receive(p, i)
    BY Zenon, <1>3 DEF Deliver
  <2> QED BY Zenon, <2>1, RefuseInv, StageInv DEF Receive
<1>4. ASSUME NEW e \in Entities, ReceiveExit(e) PROVE AssemblyInv' /\ NeverTorn /\ OnlyForward
  BY Zenon, <1>4, ReceiveExitInv
<1>5. CASE Reset
  BY Zenon, <1>5, ResetInv
<1>6. CASE Wait
  <2>1. /\ UNCHANGED <<epoch, fences, assemblies, shown, begun>>
        /\ server' = server /\ scopes' = scopes /\ published' = published
    BY Zenon, <1>6 DEF Wait, network
  <2>2. PublishedOk'
    BY Zenon, <2>1 DEF AssemblyInv, PublishedOk, PublicationOk, InStep
  <2>3. server' \in Nat /\ epoch <= server' /\ scopes' \in [Entities -> Nat]
    BY Zenon, <2>1 DEF AssemblyInv
  <2>4. AssemblyInv'
    BY Zenon, <2>1, <2>2, <2>3, ClientIdle
  <2> QED BY Zenon, <2>1, <2>4, IdleIsOnward
<1> QED BY Zenon, <1>1, <1>2, <1>3, <1>4, <1>5, <1>6 DEF Next

\* The invariant holds in every reachable state.
LEMMA AssemblyInvariant ==
  ASSUME GroupsAssumption
  PROVE  Spec => []AssemblyInv
<1>1. Init => AssemblyInv
  <2> SUFFICES ASSUME Init PROVE AssemblyInv
    BY Zenon
  <2>1. Staging = {}
    BY Zenon DEF Init, Staging
  <2>2. IsFiniteSet(Staging) /\ Cardinality(Staging) = 0
    BY Zenon, <2>1, FS_EmptySet
  <2>3. Cardinality(Staging) <= Incomplete
    BY <2>2 DEF GroupsAssumption
  <2>4. PublishedOk
    BY Zenon DEF Init, PublishedOk
  <2>5. DeadlineKept
    BY Zenon, <2>1 DEF DeadlineKept
  <2>6. shown \in [Entities -> [scope : Nat, closed : BOOLEAN, snapshot : Nat]]
    BY Zenon DEF Init, NothingShown
  <2> QED BY <2>2, <2>3, <2>4, <2>5, <2>6 DEF Init, AssemblyInv, FenceOk
<1>2. AssemblyInv /\ [Next]_vars => AssemblyInv'
  <2> SUFFICES ASSUME AssemblyInv, [Next]_vars PROVE AssemblyInv'
    BY Zenon
  <2>1. CASE Next
    BY Zenon, <2>1, AssemblyStep
  <2>2. CASE UNCHANGED vars
    BY Zenon, <2>2 DEF vars, network, AssemblyInv, PublishedOk, PublicationOk, InStep, FenceOk,
                Staging, DeadlineKept
  <2> QED BY Zenon, <2>1, <2>2
<1> QED BY <1>1, <1>2, PTL DEF Spec

\* ShownWhole of every set of groups: whatever chunks are lost, repeated,
\* reordered or left over from another connection, a step that shows something
\* new of a group shows one whole publication of this connection, and neither a
\* transfer nor a member goes back, nor does an expired group return.
THEOREM GroupsAreShownWhole ==
  ASSUME GroupsAssumption
  PROVE  Spec => ShownWhole
<1>1. AssemblyInv /\ [Next]_vars => [NeverTorn /\ OnlyForward]_vars
  BY Zenon, AssemblyStep
<1> QED BY <1>1, AssemblyInvariant, PTL DEF Spec, ShownWhole

\* The deadline of a transfer counts from its first chunk, however often it was
\* superseded, and the number of incomplete transfers keeps to
\* GroupLimits.incomplete.
THEOREM TransfersAreBounded ==
  ASSUME GroupsAssumption
  PROVE  Spec => [](DeadlineKept /\ Cardinality(Staging) <= Incomplete)
<1>1. AssemblyInv => DeadlineKept /\ Cardinality(Staging) <= Incomplete
  BY Zenon DEF AssemblyInv
<1> QED BY <1>1, AssemblyInvariant, PTL

=============================================================================
