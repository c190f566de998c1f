------------------------------ MODULE Baselines ------------------------------
(***************************************************************************)
(* Delta compression of the owner group against states that the client has *)
(* proved to retain: the caches of engine/net/src/replication/baselines,   *)
(* as Dreamwake's server (authority/baselines.rs, publish.rs) and client   *)
(* (network/baselines.rs, session.rs) drive them.                          *)
(*                                                                         *)
(* Abstractions.                                                           *)
(*  - The members of the owner group are published, proved, retired and    *)
(*    reset together, so one cache stands for all.  Its context (scope,    *)
(*    schema, group revision) is fixed.                                    *)
(*  - Version and end tick grow with the snapshot and are not kept apart.  *)
(*  - The payload of snapshot n is n.  A delta from b to n applied to b is  *)
(*    n, applied to anything else it is Garbage.                           *)
(*  - The peer is active.  The deadlines of a frozen group and of a group   *)
(*    that waits for its reset, and the interval between repair requests,  *)
(*    are left to chance or to liveness.                                   *)
(*  - Control lanes are reliable and ordered, the group channel is         *)
(*    reliable and unordered.                                              *)
(***************************************************************************)
EXTENDS Integers, Sequences, FiniteSets, FiniteSetsExt

CONSTANTS
  Slots,          \* BaselineLimits.slots
  Proofs,         \* ScopeLimits.sent_proofs_per_scope
  MaxSnapshot,    \* bound: snapshots
  MaxGeneration,  \* bound: baseline generations
  MaxRepairs      \* bound: repair requests on their way

BaselinesAssumption ==
  /\ {Slots, Proofs, MaxSnapshot, MaxGeneration, MaxRepairs} \subseteq Nat
  /\ Slots >= 2 /\ MaxGeneration >= 1

VARIABLES
  world,      \* newest snapshot of the owner group
  published,  \* last_owner_publication
  server,     \* ServerBaselines: generation, sent and decoded snapshots, retired
  reset,      \* reset_pending and reset_queued: "none", "pending" or "queued"
  frozen,     \* FrozenGroup, or NoPacket
  proofs,     \* snapshots whose sent proofs ServerScopes retains
  shown,      \* newest snapshot that ServerScopes knows to be decoded
  client,     \* ClientBaselines: generation, entries, retired, latest, proposed
  waiting,    \* pending_reset_group, or NoPacket
  groups,     \* packets in the group channel
  down, up,   \* control lanes to the client and to the server
  rejected    \* history: an error that ends the session has occurred

vars == <<world, published, server, reset, frozen, proofs, shown, client, waiting,
          groups, down, up, rejected>>

Snapshots == 1..MaxSnapshot
Generations == 1..MaxGeneration
Garbage == 0
NoPacket == [generation |-> 0, snapshot |-> 0, base |-> 0]
Packets == [generation : Generations, snapshot : Snapshots, base : 0..MaxSnapshot]

\* A base of 0 is BaselineEncoding::Full.
Full(p) == p.base = 0

Init ==
  /\ world = 1 /\ published = 0
  /\ server = [generation |-> 1, sent |-> {}, decoded |-> {}, retired |-> 0]
  /\ reset = "none" /\ frozen = NoPacket
  /\ proofs = {} /\ shown = 0
  /\ client = [generation |-> 0, entries |-> {}, retired |-> 0, latest |-> 0, proposed |-> 0]
  /\ waiting = NoPacket
  /\ groups = {} /\ down = <<>> /\ up = <<>>
  /\ rejected = FALSE

-----------------------------------------------------------------------------
(* The server.                                                             *)

\* Mutant: a state is a base as soon as it is sent.
MutantBase == Max({0} \cup server.sent)

\* newest_decoded
Base == Max({0} \cup server.decoded)

\* begin_reset: both ends start again from a full state.  retired stays.
ResetServer == [server EXCEPT !.generation = @ + 1, !.sent = {}, !.decoded = {}]

\* mark_sent of the scopes: the oldest proof makes room.
ProofsAfter(s) ==
  LET kept == IF Cardinality(proofs) >= Proofs THEN proofs \ {Min(proofs)} ELSE proofs
  IN kept \cup {s}

CacheFull == Cardinality(server.sent) >= Slots

\* prepare: a cache without room begins a reset.
Prepared == IF CacheFull THEN ResetServer ELSE server

\* peer_state: prepare_group, the queued reset, and the transmission if the
\* scheduler admits the group.  A frozen group is neither prepared nor replaced.
PeerState(sends) ==
  LET ice     == IF reset = "none" THEN NoPacket ELSE frozen
      tries   == ice = NoPacket /\ published # world /\ ~(CacheFull /\ reset # "none")
      cache   == IF tries THEN Prepared ELSE server
      resets  == cache.generation # server.generation
      pending == IF resets THEN "pending" ELSE reset
      base    == IF resets THEN 0 ELSE Base
  IN /\ cache.generation <= MaxGeneration
     /\ down' = IF pending = "pending"
                THEN Append(down, [kind |-> "reset", generation |-> cache.generation])
                ELSE down
     /\ reset' = IF pending = "none" THEN "none" ELSE "queued"
     /\ sends => tries
     /\ IF sends
        THEN \E delta \in {0, base} :
               LET p == [generation |-> cache.generation, snapshot |-> world, base |-> delta]
               IN /\ groups' = groups \cup {p}
                  /\ frozen' = IF pending = "none" THEN NoPacket ELSE p
                  /\ server' = [cache EXCEPT !.sent = @ \cup {world}]
                  /\ published' = world
                  /\ proofs' = ProofsAfter(world)
        ELSE frozen' = ice /\ server' = cache /\ UNCHANGED <<groups, published, proofs>>
     /\ UNCHANGED <<world, shown, client, waiting, up, rejected>>

Transmit == PeerState(TRUE)
Defer == PeerState(FALSE) /\ <<reset, frozen, server>>' # <<reset, frozen, server>>

\* validate_proofs and the preflight of the scopes: the state is of this
\* generation, still cached, and its sent proof is still retained.
Proven(m) ==
  /\ m.generation = server.generation
  /\ m.snapshot \in server.sent
  /\ m.snapshot = shown \/ (m.snapshot \in proofs /\ m.snapshot > shown)

\* OwnerDecoded
ReceiveDecoded(m) ==
  /\ IF Proven(m)
     THEN /\ server' = [server EXCEPT !.decoded = @ \cup {m.snapshot}]
          /\ shown' = m.snapshot
          /\ proofs' = {s \in proofs : s >= m.snapshot}
          /\ reset' = "none"
          /\ frozen' = IF frozen.snapshot = m.snapshot THEN NoPacket ELSE frozen
     ELSE UNCHANGED <<server, shown, proofs, reset, frozen>>
  /\ UNCHANGED <<down, rejected>>

\* discard
Retired(m) ==
  [server EXCEPT !.sent = {s \in @ : s > m.through},
                 !.decoded = {s \in @ : s > m.through},
                 !.retired = Max({@, m.through})]

\* BaselineRetire: the server stops using the prefix, then tells the client.
ReceiveRetire(m) ==
  /\ IF m.generation # server.generation THEN UNCHANGED <<server, frozen, down, rejected>>
     ELSE IF m.through > server.retired /\ \A s \in server.decoded : s <= m.through
     THEN rejected' = TRUE /\ UNCHANGED <<server, frozen, down>>
     ELSE /\ server' = Retired(m)
          /\ frozen' = IF frozen.generation = m.generation /\ frozen.base \in 1..m.through
                       THEN NoPacket ELSE frozen
          /\ down' = Append(down, [kind |-> "retired", generation |-> m.generation,
                                   through |-> m.through])
          /\ UNCHANGED rejected
  /\ UNCHANGED <<shown, proofs, reset>>

\* Mutant: every repair request begins a reset.
MutantRepairs(m) == TRUE

\* repair: one reset at a time, for the present generation.
Repairs(m) == reset = "none" /\ m.generation = server.generation

ReceiveRepair(m) ==
  /\ IF Repairs(m)
     THEN /\ server.generation < MaxGeneration
          /\ server' = ResetServer /\ reset' = "pending" /\ frozen' = NoPacket
     ELSE UNCHANGED <<server, reset, frozen>>
  /\ UNCHANGED <<shown, proofs, down, rejected>>

ServerReceive ==
  /\ up # <<>>
  /\ LET m == Head(up) IN
     \/ m.kind = "decoded" /\ ReceiveDecoded(m)
     \/ m.kind = "retire" /\ ReceiveRetire(m)
     \/ m.kind = "repair" /\ ReceiveRepair(m)
  /\ up' = Tail(up)
  /\ UNCHANGED <<world, published, client, waiting, groups>>

-----------------------------------------------------------------------------
(* The client.                                                             *)

Held == {e.snapshot : e \in client.entries}

\* Mutant: a delta is applied to the newest state.
MutantEntry(p) == CHOOSE e \in client.entries : e.snapshot = Max(Held)

Entry(p) == CHOOSE e \in client.entries : e.snapshot = p.base

Decode(p) == IF Full(p) \/ Entry(p).payload = p.base THEN p.snapshot ELSE Garbage

\* The first full state makes the cache.
Cache(p) == IF client.generation = 0 THEN [client EXCEPT !.generation = p.generation] ELSE client

\* Expected traffic that changes nothing: older generations, retired and
\* superseded snapshots, deltas whose base is retired.
Obsolete(p) ==
  LET c == Cache(p) IN
  \/ p.generation < c.generation
  \/ p.generation = c.generation /\
       \/ p.snapshot <= c.retired
       \/ p.snapshot < c.latest /\ p.snapshot \notin Held
       \/ ~Full(p) /\ p.base <= c.retired

\* BaselineResetPending
Early(p) == client.generation # 0 /\ p.generation = client.generation + 1 /\ Full(p)

\* Envelopes that no honest exchange produces.
Invalid(p) ==
  \/ client.generation = 0 /\ ~Full(p)
  \/ p.generation > Cache(p).generation /\ ~Early(p)
  \/ p.generation = client.generation /\ p.snapshot = client.latest /\ p.snapshot \notin Held

Unknown(p) == ~Full(p) /\ p.base \notin Held

\* Mutant: one state too many.
MutantNoRoom(p) == p.snapshot \notin Held /\ Cardinality(client.entries) > Slots

NoRoom(p) == p.snapshot \notin Held /\ Cardinality(client.entries) >= Slots

\* A state that is decoded, with its proof and, if more than one state is
\* retained and no request is out, the proposal to retire all but the newest.
Accepted(p) ==
  LET c       == Cache(p)
      entries == c.entries \cup {[snapshot |-> p.snapshot, payload |-> Decode(p)]}
      newest  == IF p.snapshot \in Held THEN c.latest ELSE p.snapshot
      asks    == c.proposed = 0 /\ Cardinality(entries) >= 2 /\ newest > 1
  IN [cache |-> [c EXCEPT !.entries = entries, !.latest = newest,
                          !.proposed = IF asks THEN newest - 1 ELSE @],
      up    |-> <<[kind |-> "decoded", generation |-> p.generation, snapshot |-> p.snapshot]>>
                \o (IF asks THEN <<[kind |-> "retire", generation |-> p.generation,
                                    through |-> newest - 1]>>
                    ELSE <<>>)]

RepairsUnderWay == Cardinality({i \in DOMAIN up : up[i].kind = "repair"})

\* receive_state of a group: reconstruct in the staged caches, then publish.
ReceiveState(p) ==
  \/ /\ Invalid(p)
     /\ rejected' = TRUE /\ UNCHANGED <<client, waiting, up>>
  \/ /\ ~Invalid(p) /\ Obsolete(p)
     /\ UNCHANGED <<client, waiting, up, rejected>>
  \/ /\ ~Invalid(p) /\ Early(p)
     /\ waiting' = IF p.snapshot > waiting.snapshot THEN p ELSE waiting
     /\ UNCHANGED <<client, up, rejected>>
  \/ /\ ~Invalid(p) /\ ~Obsolete(p) /\ ~Early(p)
     /\ Unknown(p) \/ NoRoom(p)
     /\ \/ /\ RepairsUnderWay < MaxRepairs
           /\ up' = Append(up, [kind |-> "repair", generation |-> client.generation])
        \/ UNCHANGED up
     /\ UNCHANGED <<client, waiting, rejected>>
  \/ /\ ~Invalid(p) /\ ~Obsolete(p) /\ ~Early(p) /\ ~Unknown(p) /\ ~NoRoom(p)
     /\ client' = Accepted(p).cache
     /\ up' = up \o Accepted(p).up
     /\ waiting' = IF p.snapshot >= waiting.snapshot THEN NoPacket ELSE waiting
     /\ UNCHANGED rejected

ClientReceiveGroup(p) ==
  /\ ReceiveState(p)
  /\ groups' = groups \ {p}
  /\ UNCHANGED <<world, published, server, reset, frozen, proofs, shown, down>>

\* apply_reset: retired and latest survive.
ResetClient(g) == [client EXCEPT !.generation = g, !.entries = {}, !.proposed = 0]


\* receive_pending_reset_group: the group that waits is of the generation that begins.
Seeds(g) == waiting.generation = g

\* BaselineReset, and the group that waited for it.
ReceiveReset(m) ==
  IF client.generation # 0 /\ m.generation > client.generation + 1
  THEN rejected' = TRUE /\ UNCHANGED <<client, waiting, up>>
  ELSE IF m.generation <= client.generation THEN UNCHANGED <<client, waiting, up, rejected>>
  ELSE LET c == ResetClient(m.generation)
           p == waiting
       IN IF Seeds(m.generation)
          THEN LET entry == [snapshot |-> p.snapshot, payload |-> p.snapshot]
               IN /\ client' = [c EXCEPT !.entries = {entry}, !.latest = p.snapshot]
                  /\ up' = Append(up, [kind |-> "decoded", generation |-> p.generation,
                                       snapshot |-> p.snapshot])
                  /\ waiting' = NoPacket /\ UNCHANGED rejected
          ELSE client' = c /\ UNCHANGED <<waiting, up, rejected>>

\* BaselineRetired
ReceiveRetired(m) ==
  /\ IF m.generation < client.generation \/ m.through <= client.retired
     THEN UNCHANGED <<client, rejected>>
     ELSE IF m.generation # client.generation \/ client.proposed # m.through
     THEN rejected' = TRUE /\ UNCHANGED client
     ELSE /\ client' = [client EXCEPT !.entries = {e \in @ : e.snapshot > m.through},
                                      !.retired = m.through, !.proposed = 0]
          /\ UNCHANGED rejected
  /\ UNCHANGED <<waiting, up>>

ClientReceive ==
  /\ down # <<>>
  /\ LET m == Head(down) IN
     \/ m.kind = "reset" /\ ReceiveReset(m)
     \/ m.kind = "retired" /\ ReceiveRetired(m)
  /\ down' = Tail(down)
  /\ UNCHANGED <<world, published, server, reset, frozen, proofs, shown, groups>>

\* The game commits a newer state of the owner group.
Advance ==
  /\ world < MaxSnapshot
  /\ world' = world + 1
  /\ UNCHANGED <<published, server, reset, frozen, proofs, shown, client, waiting,
                 groups, down, up, rejected>>

Next ==
  \/ Advance \/ Transmit \/ Defer
  \/ ServerReceive \/ ClientReceive
  \/ \E p \in groups : ClientReceiveGroup(p)

Spec == Init /\ [][Next]_vars

\* Both lanes and the group channel deliver, and the scheduler admits the group
\* in the end.  The game need not go on.
Fairness ==
  /\ WF_vars(Transmit) /\ WF_vars(Defer)
  /\ WF_vars(ServerReceive) /\ WF_vars(ClientReceive)
  /\ WF_vars(\E p \in groups : ClientReceiveGroup(p))
FairSpec == Spec /\ Fairness

-----------------------------------------------------------------------------
\* The state keeps its shape and both caches their slots.
TypeOK ==
  /\ world \in Snapshots /\ published \in 0..world /\ shown \in 0..published
  /\ server.generation \in Generations /\ server.sent \subseteq 1..published
  /\ server.decoded \subseteq server.sent /\ server.retired \in 0..published
  /\ Cardinality(server.sent) <= Slots
  /\ client.generation \in 0..server.generation
  /\ client.entries \subseteq [snapshot : Snapshots, payload : 0..MaxSnapshot]
  /\ {client.retired, client.latest, client.proposed} \subseteq 0..published
  /\ Cardinality(client.entries) <= Slots
  /\ reset \in {"none", "pending", "queued"} /\ proofs \subseteq 1..published
  /\ {frozen, waiting} \subseteq Packets \cup {NoPacket} /\ groups \subseteq Packets
  /\ rejected \in BOOLEAN

\* "retaining promised states remains mandatory" (baselines/cache.rs): while both
\* ends are in the same generation the client holds every state that the server may
\* use as the base of a delta, although retirement runs over two lanes in two
\* phases.  A delta that arrives, in whatever order, finds its base or is obsolete:
\* Unknown, which costs a reset of the whole group, is never met.
BasesKnown ==
  /\ client.generation = server.generation => server.decoded \subseteq Held
  /\ \A p \in groups : ~Obsolete(p) => ~Unknown(p)

\* What the client reconstructs is what the server encoded, for every order of
\* arrival and every base.
Reconstructed == \A e \in client.entries : e.payload = e.snapshot

\* Neither end meets an error that ends the session: retirements are proposed
\* after the proof they rest on, fences answer the outstanding proposal, and
\* generations advance one at a time.
NeverRejected == ~rejected

\* Deltas are always against a base that both ends have, with the same payload.
BasesAgree == BasesKnown /\ Reconstructed /\ NeverRejected


=============================================================================
