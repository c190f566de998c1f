------------------------------ MODULE Disclosure ------------------------------
(***************************************************************************)
(* What the server tells each connection about the world                   *)
(* (games/dreamwake/server/src/replication.rs over                         *)
(* games/dreamwake/simulation/src/replication/capture.rs and the graph of  *)
(* InterestGraph): at every publication it captures the simulation, binds  *)
(* each actor to an entity identity, brings the graph up to date, finds    *)
(* what each peer may see, and offers it to the peer's scopes.             *)
(*                                                                         *)
(* The publication is one step, as it is in the code: no command, packet   *)
(* or disconnection comes between prepare and the last gather.  Between    *)
(* publications the simulation changes the world and peers come and go.    *)
(*                                                                         *)
(* Abstractions.                                                           *)
(*  - The world has heroes (enemies are the same to this code: spatial     *)
(*    actors that can be the source of others), shots (projectiles and     *)
(*    wisps), one effect, one cover with its marker, and one platform.     *)
(*    Damage numbers are spatial actors without a source and are left out. *)
(*  - A payload is what a projection discloses: a position, a source, a    *)
(*    detail and a parent scope.                                           *)
(*  - A state version is compared only with the one in the graph: fresh    *)
(*    says that a scope's version is that one.                             *)
(*  - Of a peer's ServerScopes (the module of that name) this one has the  *)
(*    identities, the payloads and the refusals; delivery is left out.     *)
(*  - An error drops a peer, or all of them if prepare fails; refused      *)
(*    records one, and the invariants say that there is none.              *)
(***************************************************************************)
EXTENDS InterestGraph
LOCAL INSTANCE FiniteSetsExt

CONSTANTS
  Players,        \* player ids
  HeroAt,         \* player -> the positions its hero takes
  ShotAt,         \* the positions of shots
  CoverAt,        \* where the cover stands
  PlatformAt,     \* where the platform stands, and whoever is there rides it
  EffectAt,       \* the position of the effect
  EffectRadius,   \* its extent
  CombatRefresh,  \* prepare: a combat actor is sampled again after 3 ticks
  MaxShots,       \* bound: shots and reservations
  MaxIdentities,  \* bound: entity indexes
  Shooters,       \* players that cast and have effects
  MaxChanges,     \* bound: what happens between publications, in all
  MaxRevision     \* bound: publications

DisclosureAssumption ==
  /\ Players \subseteq Nat \ {0} /\ Shooters \subseteq Players /\ Connections \subseteq Nat \ {0}
  /\ \A n \in {CombatRefresh, MaxShots, MaxIdentities, MaxChanges, MaxRevision} : n \in Nat \ {0}

VARIABLES
  world,      \* the simulation
  captured,   \* the world of the last publication
  ids,        \* key -> entity id
  named,      \* every <<id, key>> that ids ever held (ghost)
  present,    \* ids of the last capture, and reservations since
  retired,    \* ids whose actor is gone
  graph,      \* see InterestGraph
  sampled,    \* actor key -> its content and the age of its sample
  welcomed,   \* connection -> player, of admitted connections
  peers,      \* connection -> the peer, once its scene is ready
  changes,    \* steps other than publications so far
  revision,   \* publications so far
  refused     \* an error occurred

disclosureVars == <<world, captured, ids, named, present, retired, graph, sampled,
                    welcomed, peers, changes, revision, refused>>

Key(kind, id) == [kind |-> kind, id |-> id]
GlobalKey == Key("Global", 0)
CollisionKey == Key("Collision", 0)
CoverKey == Key("Cover", 0)
MarkerKey == Key("Marker", 0)
PlatformKey == Key("Platform", 0)
EffectKey == Key("Effect", 0)
IsActor(k) == k.kind \notin {"Global", "Collision", "Owner"}

Nobody == 0
NoEffect == [kind |-> "none", owner |-> Nobody]

-----------------------------------------------------------------------------
(* The capture of a world w.                                                *)

\* keys.
DeclaredKeys(w) ==
  {Key("Hero", p) : p \in {q \in Players : w.active[q]}}
  \cup {Key("Shot", n) : n \in DOMAIN w.shots}
  \cup {CoverKey, PlatformKey}
  \cup (IF w.cover # "gone" THEN {MarkerKey} ELSE {})
  \cup (IF w.effect # NoEffect THEN {EffectKey} ELSE {})

\* position.
PositionOf(w, k) ==
  CASE k.kind = "Hero"   -> w.at[k.id]
    [] k.kind = "Shot"   -> w.shots[k.id].at
    [] k.kind = "Effect" -> EffectAt
    [] k.kind \in {"Cover", "Marker"} -> CoverAt
    [] k.kind = "Platform" -> PlatformAt
    [] OTHER -> 0

\* bounds.
RadiusOf(k) == IF k.kind = "Effect" THEN EffectRadius ELSE 0

\* source_id.
SourceOf(w, k) ==
  CASE k.kind = "Hero"   -> k.id
    [] k.kind = "Shot"   -> w.shots[k.id].owner
    [] k.kind = "Effect" -> w.effect.owner
    [] OTHER -> Nobody

\* required_bases.
Rides(w, p) == w.active[p] /\ w.at[p] = PlatformAt

Payload(at, source, detail, parent) ==
  [at |-> at, source |-> source, detail |-> detail, parent |-> parent]
NoPayload == Payload(0, Nobody, "none", 0)

Approved(source, sources) == IF source \in sources THEN source ELSE Nobody

\* project, and for the recipient's copy of an effect project_event: a pulse
\* of a hidden source is told without it, another effect is not told.
Projection(w, k, sources, anonymous) ==
  CASE k.kind = "Hero"     -> Payload(w.at[k.id], k.id, "hero", 0)
    [] k.kind = "Shot"     -> Payload(w.shots[k.id].at, Approved(w.shots[k.id].owner, sources),
                                      "shot", 0)
    [] k.kind = "Effect"   -> IF w.effect.owner \in sources
                                THEN Payload(EffectAt, w.effect.owner, w.effect.kind, 0)
                              ELSE IF anonymous /\ w.effect.kind = "pulse"
                                THEN Payload(EffectAt, Nobody, "pulse", 0)
                              ELSE NoPayload
    [] k.kind = "Cover"    -> Payload(CoverAt, Nobody, w.cover, 0)
    [] k.kind = "Platform" -> Payload(PlatformAt, Nobody, w.turn, 0)
    [] k.kind = "Owner"    -> Payload(w.at[k.id], k.id, "owner", 0)
    [] OTHER               -> Payload(0, Nobody, k.kind, 0)

AllSources(w) == {p \in Players : w.active[p]}

-----------------------------------------------------------------------------
(* identity.  A table is [ids, retired].                                    *)

Newer(id) == [id EXCEPT !.generation = @ + 1]
Before(a, b) == a.index < b.index
FirstOf(S) == CHOOSE a \in S : \A b \in S \ {a} : Before(a, b)

Bind(t, k, id, gone) ==
  [ids |-> (k :> id) @@ Restrict(t.ids, {j \in DOMAIN t.ids : t.ids[j] # gone}),
   retired |-> t.retired \ {gone}]

RetiredActors(t) == {t.ids[j] : j \in {i \in DOMAIN t.ids : IsActor(i)}} \cap t.retired

\* Mutant: a slot is taken over with the generation it had.
MutantIdentity(t, k) ==
  CASE k \in DOMAIN t.ids /\ t.ids[k] \in t.retired -> Bind(t, k, Newer(t.ids[k]), t.ids[k])
    [] k \in DOMAIN t.ids -> t
    [] k \notin DOMAIN t.ids /\ RetiredActors(t) # {} ->
         LET old == FirstOf(RetiredActors(t)) IN Bind(t, k, old, old)
    [] OTHER -> [t EXCEPT !.ids = (k :> [index |-> Cardinality(DOMAIN t.ids) + 1,
                                         generation |-> 1]) @@ @]

\* A retired key comes back, and a retired actor's slot is taken over, with a
\* newer generation; otherwise the next index.
IdentityFor(t, k) ==
  CASE k \in DOMAIN t.ids /\ t.ids[k] \in t.retired -> Bind(t, k, Newer(t.ids[k]), t.ids[k])
    [] k \in DOMAIN t.ids -> t
    [] k \notin DOMAIN t.ids /\ RetiredActors(t) # {} ->
         LET old == FirstOf(RetiredActors(t)) IN Bind(t, k, Newer(old), old)
    [] OTHER -> [t EXCEPT !.ids = (k :> [index |-> Cardinality(DOMAIN t.ids) + 1,
                                         generation |-> 1]) @@ @]

Identities(t, keys) == FoldSet(LAMBDA k, acc : IdentityFor(acc, k), t, keys)

Table == [ids |-> ids, retired |-> retired]
Remember(t) == named \cup {<<t.ids[k], k>> : k \in DOMAIN t.ids}
KeyOf(t, id) == CHOOSE k \in DOMAIN t.ids : t.ids[k] = id

-----------------------------------------------------------------------------
(* prepare: identities, registrations, retirements.                         *)

Owners == {welcomed[c] : c \in DOMAIN welcomed}

\* The connection of a player whose scene is ready.
OwningConnections(p) == {c \in DOMAIN peers : peers[c].player = p}

Registered(w) ==
  {GlobalKey, CollisionKey} \cup DeclaredKeys(w)
  \cup {Key("Owner", p) : p \in {q \in Owners : OwningConnections(q) # {}}}

\* An owner's identity outlives the grant that a new handshake takes away.
PresentNow(t, w) ==
  {t.ids[k] : k \in Registered(w) \cup {Key("Shot", n) : n \in w.reserved}}
  \cup ({t.ids[k] : k \in {Key("Owner", p) : p \in Owners} \cap DOMAIN t.ids} \cap present)

Bases(t, w, p) == IF Rides(w, p) THEN {t.ids[PlatformKey]} ELSE {}
AllBases(t, w) == UNION {Bases(t, w, p) : p \in Owners}

IsCombat(w, k) == k.kind = "Hero" \/ (k.kind = "Cover" /\ w.cover # "gone")

Content(w, k) == Projection(w, k, AllSources(w), FALSE)

\* The actor's version stays, and it may sleep.
Unchanged(t, w, k) ==
  CASE k = MarkerKey -> captured.cover = w.cover
    [] IsActor(k) -> /\ t.ids[k] \notin AllBases(t, w)
                     /\ k \in DOMAIN sampled
                     /\ Content(w, k) # NoPayload /\ sampled[k].content = Content(w, k)
                     /\ IsCombat(w, k) => sampled[k].age + 1 < CombatRefresh
    [] OTHER -> FALSE

\* A sample only ages while it is reused.
Sampled(t, w) ==
  [k \in {j \in DeclaredKeys(w) \ {MarkerKey} : Content(w, j) # NoPayload} |->
     [content |-> Content(w, k),
      age |-> IF Unchanged(t, w, k) /\ IsCombat(w, k) THEN sampled[k].age + 1 ELSE 0]]

Registration(t, w, k) ==
  LET owner == IF k.kind = "Owner" THEN CHOOSE c \in OwningConnections(k.id) : TRUE
               ELSE NoConnection
  IN [id |-> t.ids[k], at |-> PositionOf(w, k), radius |-> RadiusOf(k),
      spatial |-> IsActor(k), global |-> k \in {GlobalKey, CollisionKey},
      owner |-> owner, visible |-> owner,
      dependencies |-> IF k.kind = "Owner" THEN {t.ids[CollisionKey]} \cup Bases(t, w, k.id)
                       ELSE {},
      dormant |-> Unchanged(t, w, k)]

\* The graph after every registration and retirement, and every peer's view.
Refreshed(t, w, gone) ==
  LET upserted == FoldSet(LAMBDA k, g : Upserted(g, Registration(t, w, k)), graph, Registered(w))
      removed  == FoldSet(LAMBDA id, g : Unindexed(g, id), upserted, gone)
  IN [removed EXCEPT !.connections = [c \in DOMAIN peers |-> w.at[peers[c].player]]]

-----------------------------------------------------------------------------
(* gather, for peer c of a publication x.  The fields of x are the new      *)
(* identities t, the world w, the graph g, the frozen peers, the ids that   *)
(* are gone or unchanged, and, per peer, what each step of the gather       *)
(* leaves to the next.                                                      *)

\* The policy lets the owner record require the geometry and its bases.
PredictionAdmitted(x, c) ==
  LET p == peers[c].player
      owner == x.t.ids[Key("Owner", p)]
      mandatory == {x.t.ids[CollisionKey]} \cup Bases(x.t, x.w, p)
      predictable == {id \in DOMAIN x.g.entities :
                        \/ x.g.entities[id].global
                        \/ x.g.entities[id].visible # NoConnection
                        \/ id \in Bases(x.t, x.w, p)}
  IN Admitted(x.g, c, {x.t.ids[GlobalKey], owner}, {owner} \X mandatory, predictable)

Eligible(x, c) ==
  Entries(x.g, c, peers[c].previous \cap DOMAIN x.g.entities)
  \cup (IF PredictionAdmitted(x, c)
        THEN Closure(x.g, {x.t.ids[GlobalKey], x.t.ids[Key("Owner", peers[c].player)]})
        ELSE {})

\* The heroes among them, the recipient's own included.
SourcesFor(x, c) ==
  {p \in Players : Key("Hero", p) \in DOMAIN x.t.ids /\ x.t.ids[Key("Hero", p)] \in x.eligible[c]}

Held(scopes, id) == scopes[id.index].open /\ scopes[id.index].generation = id.generation

Close(scopes, gone) ==
  [i \in DOMAIN scopes |->
     IF \E id \in gone : id.index = i /\ Held(scopes, id)
     THEN [scopes[i] EXCEPT !.open = FALSE] ELSE scopes[i]]

\* Mutant: only a source that comes into view counts.
MutantAudienceChanged(x, c, id) ==
  LET k == KeyOf(x.t, id)
  IN /\ k.kind \in {"Shot", "Effect"}
     /\ SourceOf(x.w, k) \in x.sources[c] \ peers[c].sources

\* What was told with its source, or without, and no longer may.
AudienceChanged(x, c, id) ==
  LET k == KeyOf(x.t, id)
  IN /\ k.kind \in {"Shot", "Effect"}
     /\ (SourceOf(x.w, k) \in x.sources[c]) # (SourceOf(x.w, k) \in peers[c].sources)

\* The peer's scopes after retirements and after changes of audience.
Surviving(x, c) ==
  LET destroyed == [i \in DOMAIN peers[c].scopes |->
                      LET r == peers[c].scopes[i]
                      IN IF \E id \in x.gone \cap peers[c].previous :
                              id.index = i /\ id.generation = r.generation
                         THEN [r EXCEPT !.open = FALSE, !.destroyed = TRUE]
                         ELSE [r EXCEPT !.fresh = @ /\ [index |-> i, generation |-> r.generation]
                                                        \in x.unchanged]]
  IN Close(destroyed, {id \in peers[c].previous \ x.gone : AudienceChanged(x, c, id)})

\* A current scope of a frozen owner group is not offered again.
Kept(x, c) ==
  {id \in x.eligible[c] \cap peers[c].previous :
     /\ c \in x.frozen
     /\ \/ KeyOf(x.t, id) \in {GlobalKey, CollisionKey, Key("Owner", peers[c].player)}
        \/ id \in Bases(x.t, x.w, peers[c].player)
     /\ Held(x.scopes[c], id)}

Reached(x, c) ==
  {id \in x.eligible[c] \ x.kept[c] : KeyOf(x.t, id) \notin {MarkerKey, Key("Hero", peers[c].player)}}

\* The kinds whose bytes are encoded once and shared by all recipients.
Canonical(k) == k.kind \in {"Global", "Collision", "Hero", "Cover", "Platform"}

\* CanonicalCache::encode: the first connection of the frame that is told.
Encoder(x, id) == Min({d \in DOMAIN peers : id \in x.reached[d]})

Encoded(x, c, id) ==
  LET k == KeyOf(x.t, id)
  IN Projection(x.w, k, x.sources[IF Canonical(k) THEN Encoder(x, id) ELSE c], TRUE)

\* ServerScopes::offer refuses a dead generation, and another payload for the
\* version it holds.
Refuses(r, id, payload) ==
  \/ id.generation < r.generation
  \/ id.generation = r.generation /\ r.destroyed
  \/ id.generation = r.generation /\ r.open /\ r.fresh /\ payload # r.payload

Offer(r, id, payload) ==
  IF id.generation = r.generation /\ r.open
  THEN [r EXCEPT !.fresh = TRUE, !.payload = payload]
  ELSE [generation |-> id.generation, scope |-> r.scope + 1, open |-> TRUE,
        destroyed |-> FALSE, fresh |-> TRUE, payload |-> payload]

\* The whole gather of a peer.  The marker comes last: it names the scope of
\* its cover, and starts a scope of its own whenever that one is another.
Gathered(x, c) ==
  LET peer == peers[c]
      base == x.scopes[c]
      offered == {id \in x.reached[c] : Encoded(x, c, id) # NoPayload}
      told == [i \in DOMAIN base |->
                 IF \E id \in offered : id.index = i
                 THEN LET id == CHOOSE id \in offered : id.index = i
                      IN Offer(base[i], id, Encoded(x, c, id))
                 ELSE base[i]]
      current == x.kept[c] \cup offered
      marked == /\ MarkerKey \in DOMAIN x.t.ids /\ x.t.ids[MarkerKey] \in x.eligible[c]
                /\ x.t.ids[CoverKey] \in current
      marker == x.t.ids[MarkerKey]
      sign == Payload(CoverAt, Nobody, x.w.cover, told[x.t.ids[CoverKey].index].scope)
      moved == Held(told, marker) /\ told[marker.index].payload.parent # sign.parent
      signed == IF ~marked THEN told
                ELSE LET r == (IF moved THEN Close(told, {marker}) ELSE told)[marker.index]
                     IN [told EXCEPT ![marker.index] = Offer(r, marker, sign)]
      now == current \cup (IF marked THEN {marker} ELSE {})
  IN [peer |-> [peer EXCEPT !.scopes = Close(signed, (peer.previous \ x.gone) \ now),
                            !.previous = now, !.sources = x.sources[c], !.sendable = TRUE],
      refused |-> \/ \E id \in offered : Refuses(base[id.index], id, Encoded(x, c, id))
                  \/ marked /\ ~moved /\ Refuses(told[marker.index], marker, sign)
                  \/ \E id \in x.eligible[c] :
                       KeyOf(x.t, id).kind = "Owner" /\ KeyOf(x.t, id).id # peer.player]

\* publish: prepare and one gather for each peer.
Publish(frozen) ==
  /\ revision < MaxRevision
  /\ DOMAIN welcomed # {}
  /\ \E t \in {Identities(Table, {Key("Shot", n) : n \in world.reserved} \cup Registered(world))} :
     \E now \in {PresentNow(t, world)} :
     \E g \in {Refreshed(t, world, present \ now)} :
     \E y \in {[t |-> t, w |-> world, g |-> g, frozen |-> frozen, gone |-> present \ now,
                unchanged |-> {t.ids[k] : k \in {j \in Registered(world) : Unchanged(t, world, j)}}]} :
     \E z \in {y @@ [eligible |-> [c \in DOMAIN peers |-> Eligible(y, c)]]} :
     \E u \in {z @@ [sources |-> [c \in DOMAIN peers |-> SourcesFor(z, c)]]} :
     \E v \in {u @@ [scopes |-> [c \in DOMAIN peers |-> Surviving(u, c)]]} :
     \E o \in {v @@ [kept |-> [c \in DOMAIN peers |-> Kept(v, c)]]} :
     \E x \in {o @@ [reached |-> [c \in DOMAIN peers |-> Reached(o, c)]]} :
     \E gathered \in {[c \in DOMAIN peers |-> Gathered(x, c)]} :
       /\ ids' = t.ids
       /\ named' = Remember(t)
       /\ retired' = t.retired \cup (present \ now)
       /\ present' = now
       /\ graph' = g
       /\ sampled' = Sampled(t, world)
       /\ captured' = world
       /\ peers' = [c \in DOMAIN peers |-> gathered[c].peer]
       /\ refused' = \/ refused
                     \/ \E c \in DOMAIN peers : gathered[c].refused
                     \/ \E k \in Registered(world) : t.ids[k] \notin DOMAIN g.entities
  /\ revision' = revision + 1
  /\ UNCHANGED <<world, welcomed, changes>>

-----------------------------------------------------------------------------
(* Peers, between publications.                                             *)

NoScope == [generation |-> 0, scope |-> 0, open |-> FALSE, destroyed |-> FALSE,
            fresh |-> FALSE, payload |-> NoPayload]

NewPeer(p) == [player |-> p, sendable |-> FALSE, sources |-> {}, previous |-> {},
               scopes |-> [i \in 1..MaxIdentities |-> NoScope]]

\* connect, up to the Welcome: reserve_owner.
Welcomed(c, p) ==
  /\ c \notin DOMAIN welcomed /\ p \notin Owners
  /\ \E t \in {Identities(Table, {GlobalKey, Key("Owner", p), CollisionKey})} :
       ids' = t.ids /\ retired' = t.retired /\ named' = Remember(t)
  /\ welcomed' = (c :> p) @@ welcomed
  /\ UNCHANGED <<world, captured, present, graph, sampled, peers, revision, refused>>

\* Ready: set_player_peer.
SceneReady(c) ==
  /\ c \in DOMAIN welcomed \ DOMAIN peers
  /\ peers' = (c :> NewPeer(welcomed[c])) @@ peers
  /\ UNCHANGED <<world, captured, ids, named, present, retired, graph, sampled, welcomed,
                 revision, refused>>

\* resync takes the grant away until the scene is ready again; disconnect also
\* ends the admission.
Drop(c, admitted) ==
  /\ c \in DOMAIN welcomed
  /\ admitted => c \in DOMAIN peers
  /\ graph' = Disconnected(graph, c)
  /\ peers' = Restrict(peers, DOMAIN peers \ {c})
  /\ welcomed' = IF admitted THEN welcomed ELSE Restrict(welcomed, DOMAIN welcomed \ {c})
  /\ UNCHANGED <<world, captured, ids, named, present, retired, sampled, revision, refused>>

-----------------------------------------------------------------------------
(* The simulation, between publications.                                    *)

Used(w) == DOMAIN w.shots \cup w.reserved \cup w.spent

\* An accepted cast: its shot is there, or reserved for later; either way its
\* identity is bound at once (reserve_projectile_identity).
Cast(p, later, x) ==
  \E n \in 1..MaxShots :
    /\ n = Cardinality(Used(world)) + 1
    /\ world.active[p]
    /\ world' = IF later THEN [world EXCEPT !.reserved = @ \cup {n}]
                ELSE [world EXCEPT !.shots = (n :> [owner |-> p, at |-> x]) @@ @]
    /\ \E t \in {IdentityFor(Table, Key("Shot", n))} :
         /\ ids' = t.ids /\ retired' = t.retired /\ named' = Remember(t)
         /\ present' = present \cup {t.ids[Key("Shot", n)]}
    /\ UNCHANGED <<captured, graph, sampled, welcomed, peers, revision, refused>>

\* What else a tick of the simulation can do to one actor.
WorldSteps(w) ==
  {[w EXCEPT !.at[p] = x] : p \in Players, x \in UNION {HeroAt[q] : q \in Players}}
  \cup {[w EXCEPT !.active[p] = ~@] : p \in Players}
  \cup {[w EXCEPT !.shots = Restrict(@, DOMAIN @ \ {n}), !.spent = @ \cup {n}] : n \in DOMAIN w.shots}
  \cup {[w EXCEPT !.reserved = @ \ {n}, !.spent = @ \cup {n}] : n \in w.reserved}
  \cup {[w EXCEPT !.reserved = @ \ {n}, !.shots = (n :> [owner |-> p, at |-> x]) @@ @] :
          n \in w.reserved, p \in Shooters, x \in ShotAt}
  \cup {[w EXCEPT !.effect = e] :
          e \in {NoEffect} \cup [kind : {"pulse", "beam"}, owner : AllSources(w) \cap Shooters]}
  \cup {[w EXCEPT !.cover = s] : s \in {"gone", "shut", "open"}}
  \cup {[w EXCEPT !.turn = s] : s \in {"left", "right"}}

Legal(w) ==
  /\ \A p \in Players : w.at[p] \in HeroAt[p]
  /\ Cardinality(DOMAIN w.shots \cup w.reserved \cup w.spent) <= MaxShots

WorldStep ==
  /\ world' \in {w \in WorldSteps(world) : w # world /\ Legal(w)}
  /\ UNCHANGED <<captured, ids, named, present, retired, graph, sampled, welcomed, peers,
                 revision, refused>>

\* Every player is admitted and its scene is ready; nothing is published yet.
DisclosureInit ==
  /\ world = [at |-> [p \in Players |-> CHOOSE x \in HeroAt[p] : TRUE],
              active |-> [p \in Players |-> TRUE], shots |-> << >>, reserved |-> {},
              spent |-> {}, effect |-> NoEffect, cover |-> "shut", turn |-> "left"]
  /\ captured = world
  /\ ids = Identities([ids |-> << >>, retired |-> {}],
                      {GlobalKey, CollisionKey} \cup {Key("Owner", p) : p \in Players}).ids
  /\ named = {<<ids[k], k>> : k \in DOMAIN ids}
  /\ present = {} /\ retired = {}
  /\ graph = EmptyGraph
  /\ sampled = << >>
  /\ welcomed = [p \in Players |-> p]
  /\ peers = [p \in Players |-> NewPeer(p)]
  /\ changes = 0 /\ revision = 0 /\ refused = FALSE

Between ==
  \/ \E c \in Connections, p \in Players : Welcomed(c, p)
  \/ \E c \in Connections : SceneReady(c)
  \/ \E c \in Connections, admitted \in BOOLEAN : Drop(c, admitted)
  \/ \E p \in Shooters, later \in BOOLEAN, x \in ShotAt : Cast(p, later, x)
  \/ WorldStep

DisclosureNext ==
  \/ changes < MaxChanges /\ changes' = changes + 1 /\ Between
  \/ \E frozen \in {{}, DOMAIN peers} : Publish(frozen)

DisclosureSpec == DisclosureInit /\ [][DisclosureNext]_disclosureVars

-----------------------------------------------------------------------------
ShownKeys(c) ==
  {k \in DOMAIN ids : Held(peers[c].scopes, ids[k])}

\* A peer that can be sent to is told exactly what it may know of the captured
\* world (gather_peer_with_frozen, replication.rs): the global records, its own
\* owner record and no other, the actors in reach and none beyond the leave
\* margin, a source only if that hero is itself told, a marker only under the
\* scope of its cover; and no offer contradicts what was told before.
DisclosureExact ==
  /\ ~refused
  /\ \A c \in DOMAIN peers : peers[c].sendable =>
       LET p == peers[c].player
           shown == ShownKeys(c)
           seen == {q \in Players : Key("Hero", q) \in shown} \cup ({p} \cap AllSources(captured))
           actors == DeclaredKeys(captured) \ {Key("Hero", p), MarkerKey}
           away(k) == Distance(PositionOf(captured, k), captured.at[p]) - RadiusOf(k) - CullRadius - Prefetch
           silent(k) == Projection(captured, k, seen, TRUE) = NoPayload
       IN /\ {GlobalKey, CollisionKey, Key("Owner", p)} \subseteq shown
          /\ shown \subseteq actors \cup {GlobalKey, CollisionKey, Key("Owner", p), MarkerKey}
          /\ \A k \in actors :
               /\ away(k) <= 0 /\ ~silent(k) => k \in shown
               /\ k \in shown => away(k) <= LeaveMargin \/ k = PlatformKey
               /\ k \in shown \ {PlatformKey} =>
                    peers[c].scopes[ids[k].index].payload = Projection(captured, k, seen, TRUE)
          /\ MarkerKey \in shown =>
               /\ CoverKey \in shown /\ captured.cover # "gone"
               /\ peers[c].scopes[ids[MarkerKey].index].payload =
                    Payload(CoverAt, Nobody, captured.cover, peers[c].scopes[ids[CoverKey].index].scope)

\* The lists that gather reads are those of the registrations (Graph::apply and
\* its shortcut for unchanged footprints, graph.rs), whatever was registered,
\* moved, rerouted to another connection, put to sleep or retired.
GraphExact == IndexExact(graph)

\* An entity id names one actor for ever (identity, replication.rs): what a
\* peer was told under an id is never about another actor, and an owner keeps
\* the id its Welcome named for as long as it is admitted.
IdentityForever ==
  /\ \A a, b \in named : a[1] = b[1] => a[2] = b[2]
  /\ \A j, k \in DOMAIN ids : ids[j] = ids[k] => j = k
  /\ \A c \in DOMAIN peers : ids[Key("Owner", peers[c].player)] \notin retired

\* Peers are told what they may know, from exact lists, under lasting ids.
DisclosureSound == DisclosureExact /\ GraphExact /\ IdentityForever
=============================================================================
