--------------------------- MODULE OwnerCreations ---------------------------
(***************************************************************************)
(* What a hero's casts leave in the world, and its prediction by the owner *)
(* (simulation/src/systems/{player,memories,companions,projectiles}.rs,    *)
(* starfall.rs, replication/owner.rs): bolts in flight, wisps that fire    *)
(* more bolts, and delayed casts (the repeat of an Echo, the second blow   *)
(* of a Twin).  The server runs them for one hero, publishes them in the   *)
(* owner checkpoint, and the owner's client steps a private world from the *)
(* checkpoint through the commands the server has not executed yet.        *)
(*                                                                         *)
(* A creation has the id the server's allocator gave it and a graphics     *)
(* identity computed from the action that made it: 65536 * command         *)
(* sequence + slot, with the slot arithmetic of the code.  Times are in    *)
(* ticks.  Damage, positions and effects without a life of their own are   *)
(* left out; a contact with an enemy is the choice of the server alone.    *)
(***************************************************************************)
EXTENDS Naturals, Sequences, FiniteSets, TLC

CONSTANTS
  Loadouts,        \* the loadouts: slot number -> [kind, essence]
  StarfallCapacity,  \* STARFALL_CAPACITY
  MaxProjectiles,  \* MAX_OWNER_PROJECTILES
  MaxWisps,        \* MAX_OWNER_WISPS
  MaxDelayed,      \* MAX_OWNER_DELAYED
  BoltLife, WispLife, FireGap, EchoDelay, TwinDelay, Recovery,   \* times
  MaxCasts,        \* bound: casts in a behaviour
  MaxLead          \* bound: ticks the client is ahead of the server

CreationAssumption ==
  /\ {StarfallCapacity, MaxProjectiles, MaxWisps, MaxDelayed} \subseteq Nat
  /\ {BoltLife, WispLife, FireGap, EchoDelay, TwinDelay, Recovery} \subseteq Nat \ {0}
  /\ MaxLead \in Nat \ {0}

VARIABLES
  loadout,   \* the hero's loadout
  terrain,   \* what both worlds see: [targets: an enemy in range, blocked: no blink]
  server,    \* the authoritative creations of the hero
  pending,   \* the casts (slot and sequence) predicted and not yet executed
  frames,    \* the predicted creations, from the server's tick on
  clean,     \* since the last checkpoint nothing but the predicted casts happened,
             \* and no wisp had to hold its fire
  bound,     \* Starfall key -> the id announced when the cast was accepted
  casts      \* the last command sequence used

creationVars == <<loadout, terrain, server, pending, frames, clean, bound, casts>>

NoCast == 0
NoKey  == <<>>
NoId   == 0

Graphics(sequence, slot) == 65536 * sequence + slot

\* ActionEffect::network and repeat for a cast of loadout slot s.
Source(s)   == 4096 * s
Repeated(s) == Source(s) + 2048

\* The owner's occupancy of each allowance.
Occupied(c)     == Cardinality({b \in c.bolts : b.key # NoKey})
                     + Cardinality({d \in c.delayed : d.key # NoKey})
OwnerWisps(c)   == Cardinality(c.wisps)
                     + Cardinality({d \in c.delayed : d.kind = "Wisp"})

\* spawn_count, and the other reservations of a cast.
SpawnCount(m) ==
  CASE m.kind # "Starfall" -> 0
    [] m.essence = "Twin"  -> 3
    [] m.essence = "Echo"  -> 2
    [] OTHER               -> 1
WispReservation(m) ==
  CASE m.kind # "Wisp" -> 0
    [] m.essence \in {"Twin", "Echo"} -> 2
    [] OTHER -> 1
DelayedReservation(m) ==
  IF m.essence = "Echo" \/ (m.essence = "Twin" /\ m.kind \in {"Crescent", "Nova", "Blink"})
    THEN 1 ELSE 0


\* The cast of slot s is accepted: neither Budget nor Cooldown.
Allowed(c, s) ==
  LET m == loadout[s] IN
  /\ Cardinality(c.bolts) + SpawnCount(m) <= MaxProjectiles
  /\ OwnerWisps(c) + WispReservation(m) <= MaxWisps
  /\ Cardinality(c.delayed) + DelayedReservation(m) <= MaxDelayed
  /\ m.kind = "Starfall" => Occupied(c) + SpawnCount(m) <= StarfallCapacity
  /\ c.cool[s] = 0

\* graphics_instance: a bolt is drawn under its action and its ordinal.
FlightGraphics(key) == Graphics(key[1], 61000 + (key[2] - 1) * 4 + key[3])

\* flight.
Flight(key) == [key |-> key, left |-> BoltLife, gfx |-> FlightGraphics(key)]

\* spawn_starfall: the identity is allocated now or was reserved by the cast.
Bolt(id, key) == Flight(key) @@ [id |-> id, auth |-> id]

\* spawn_wisp: 64 graphics slots are left for each wisp of a cast.
Wisp(id, gfx, i) ==
  [id |-> id, gfx |-> gfx + 64 * i, left |-> WispLife, fire |-> 1 + i, shots |-> 0]

\* DelayedCast::new.
DelayedCast(id, key, kind, gfx, delay) ==
  [id |-> id, auth |-> NoId, key |-> key, kind |-> kind, gfx |-> gfx, left |-> delay]

Ordinals(m) == IF m.essence = "Twin" THEN <<1, 0, 2>> ELSE <<0>>

\* starfall::spawn: the bolts of a cast, and the repeat an Echo reserves.
CastStarfall(c, s, n) ==
  LET m     == loadout[s]
      bolts == {Bolt(c.next + i, <<n, s, Ordinals(m)[i]>>) : i \in DOMAIN Ordinals(m)}
      after == c.next + Len(Ordinals(m))
      echo  == IF m.essence # "Echo" THEN {}
               ELSE {DelayedCast(after + 1, <<n, s, 3>>, "Starfall",
                                 Graphics(n, Repeated(s)), EchoDelay)}
  IN [c EXCEPT !.bolts = @ \cup bolts, !.delayed = @ \cup echo,
               !.next = after + Cardinality(echo)]

SummonWisps(c, essence, gfx) ==
  LET count == IF essence = "Twin" THEN 2 ELSE 1
  IN [c EXCEPT !.wisps = @ \cup {Wisp(c.next + i + 1, gfx, i) : i \in 0..(count - 1)},
               !.next = @ + count]

\* The blows around the hero; a blink that finds no place does nothing, and the
\* second blow of a Twin is delayed.
Strike(c, kind, essence, gfx) ==
  IF essence # "Twin" \/ kind = "Aegis" \/ (kind = "Blink" /\ terrain.blocked) THEN c
  ELSE [c EXCEPT !.next = @ + 1,
          !.delayed = @ \cup {DelayedCast(c.next + 1, NoKey,
                                          IF kind = "Blink" THEN "Nova" ELSE kind,
                                          gfx + 2048, TwinDelay)}]

\* execute_memory, with the graphics identity of its source.
ExecuteMemory(c, kind, essence, gfx) ==
  IF kind = "Wisp" THEN SummonWisps(c, essence, gfx) ELSE Strike(c, kind, essence, gfx)

CastMemory(c, s, n) ==
  LET m    == loadout[s]
      done == ExecuteMemory(c, m.kind, m.essence, Graphics(n, Source(s)))
  IN IF m.essence # "Echo" THEN done
     ELSE [done EXCEPT !.next = @ + 1,
             !.delayed = @ \cup {DelayedCast(done.next + 1, NoKey, m.kind,
                                             Graphics(n, Repeated(s)), EchoDelay)}]

\* The per-slot part of player_actions.
PlayerActions(c, cast) ==
  IF cast.slot = NoCast \/ ~c.alive \/ ~Allowed(c, cast.slot) THEN c
  ELSE LET ready == [c EXCEPT !.cool[cast.slot] = Recovery]
       IN IF loadout[cast.slot].kind = "Starfall"
            THEN CastStarfall(ready, cast.slot, cast.seq)
            ELSE CastMemory(ready, cast.slot, cast.seq)

\* The repeat takes a new identity.
MutantReserved(d, next) == next + 1

\* The identity of the bolt a reserved repeat becomes.
Reserved(d, next) == IF d.auth # NoId THEN d.auth ELSE d.id

\* One ready delayed cast of a living owner.
Execute(c, d) ==
  IF ~c.alive THEN c
  ELSE IF d.key # NoKey
    THEN [c EXCEPT !.bolts = @ \cup {Bolt(Reserved(d, c.next), d.key)}]
    ELSE ExecuteMemory(c, d.kind, "None", d.gfx)

\* DelayedActionStep and delayed_casts, in the order of the ids.
DelayedCasts(c) ==
  LET aged  == {[d EXCEPT !.left = @ - 1] : d \in c.delayed}
      ready == {d \in aged : d.left = 0}
      order == [c EXCEPT !.delayed = aged \ ready]
      run[R \in SUBSET ready] ==
        IF R = {} THEN order
        ELSE LET last == CHOOSE d \in R : \A e \in R : e.id <= d.id
             IN Execute(run[R \ {last}], last)
  IN run[ready]

\* CompanionState::tick.
Fires(c, w) == c.alive /\ w.left > 1 /\ w.fire <= 1 /\ terrain.targets
Followed(c, w) ==
  [w EXCEPT !.left = @ - 1,
            !.fire = IF ~c.alive THEN @ ELSE IF Fires(c, w) THEN FireGap
                     ELSE IF @ > 0 THEN @ - 1 ELSE 0]

\* wisp_actions: the shots, in the order of the ids, while the owner has room.
Shooters(c) ==
  LET ready == {w \in c.wisps : Fires(c, w)} IN
  {w \in ready :
     Cardinality(c.bolts) + Cardinality({v \in ready : v.id < w.id}) < MaxProjectiles}
WispActions(c) ==
  LET shooters == Shooters(c)
      shot(w)  == LET id == c.next + Cardinality({v \in shooters : v.id <= w.id})
                  IN [id |-> id, auth |-> NoId, key |-> NoKey, left |-> BoltLife,
                      gfx |-> w.gfx + 1024 + w.shots]
      next(w)  == [Followed(c, w) EXCEPT !.shots = IF w \in shooters THEN @ + 1 ELSE @]
  IN [c EXCEPT !.wisps = {next(w) : w \in {v \in @ : v.left > 1}},
               !.bolts = @ \cup {shot(w) : w \in shooters},
               !.next = @ + Cardinality(shooters)]

\* ProjectileState::advance: bolts move, and expire.
Flown(bolts) == {[b EXCEPT !.left = @ - 1] : b \in {x \in bolts : x.left > 1}}

\* projectile_actions; hits are the bolts that end on an enemy or a cover.
ProjectileActions(c, hits) == [c EXCEPT !.bolts = Flown(@ \ hits)]

\* One run of the DreamStep schedule up to the contacts.
BeforeContacts(c, cast) ==
  LET rested == [c EXCEPT !.cool = [s \in DOMAIN @ |-> IF @[s] > 0 THEN @[s] - 1 ELSE 0]]
  IN WispActions(DelayedCasts(PlayerActions(rested, cast)))

-----------------------------------------------------------------------------
(* The owner checkpoint and the client's private world.                     *)

\* canonicalize: every creation is named by its graphics identity.
Canonical(c) ==
  [c EXCEPT !.bolts   = {[b EXCEPT !.id = b.gfx] : b \in @},
            !.wisps   = {[w EXCEPT !.id = w.gfx] : w \in @},
            !.delayed = {[d EXCEPT !.id = d.gfx] : d \in @},
            !.next    = 0]

\* The checkpoint leaves out the count of shots a wisp has fired.
MutantCheckpoint(c) ==
  Canonical([c EXCEPT !.bolts   = {[b EXCEPT !.auth = b.id] : b \in @},
                      !.wisps   = {[w EXCEPT !.shots = 0] : w \in @},
                      !.delayed = {[d EXCEPT !.auth = d.id] : d \in @}])

\* owner_checkpoint: the server's identities are kept beside the owner's own.
Checkpoint(c) ==
  Canonical([c EXCEPT !.bolts   = {[b EXCEPT !.auth = b.id] : b \in @},
                      !.delayed = {[d EXCEPT !.auth = d.id] : d \in @}])

Identities(c) ==
  {x.gfx : x \in c.bolts} \cup {x.gfx : x \in c.wisps} \cup {x.gfx : x \in c.delayed}

\* OwnerTransients::validate_for.
ValidFor(c) ==
  /\ Cardinality(c.bolts) <= MaxProjectiles
  /\ Cardinality(c.wisps) <= MaxWisps
  /\ Cardinality(c.delayed) <= MaxDelayed
  /\ Cardinality(Identities(c))
       = Cardinality(c.bolts) + Cardinality(c.wisps) + Cardinality(c.delayed)

\* The authority identity a set of creations holds for a graphics identity.
AuthorityOf(set, gfx) ==
  LET known == {x.auth : x \in {y \in set : y.gfx = gfx}}
  IN IF known = {} THEN NoId ELSE CHOOSE id \in known : TRUE

\* capture_world: a creation keeps the authority identity its predecessor had.
Captured(before, c) ==
  Canonical([c EXCEPT
    !.bolts   = {[b EXCEPT !.auth = AuthorityOf(before.bolts, b.gfx)] : b \in @},
    !.delayed = {[d EXCEPT !.auth = AuthorityOf(before.delayed, d.gfx)] : d \in @}])

\* OwnerPredictionRunner::step_with_targets: restore, run, capture.
Predicted(c, cast) == Captured(c, ProjectileActions(BeforeContacts(c, cast), {}))

\* The replay of the pending commands from a checkpoint.
Replayed(c) ==
  LET replay[k \in 0..Len(pending)] ==
        IF k = 0 THEN Checkpoint(c) ELSE Predicted(replay[k - 1], pending[k])
  IN [k \in 1..(Len(pending) + 1) |-> replay[k - 1]]

\* starfall_bindings: the identities announced with the acceptance.
Bindings(c) ==
  {<<b.key, b.id>> : b \in {x \in c.bolts : x.key # NoKey}}
    \cup {<<d.key, d.id>> : d \in {x \in c.delayed : x.key # NoKey}}

-----------------------------------------------------------------------------
CreationInit ==
  /\ loadout \in Loadouts
  /\ terrain \in [targets : BOOLEAN, blocked : BOOLEAN]
  /\ terrain.blocked => \E s \in DOMAIN loadout : loadout[s].kind = "Blink"
  /\ server = [alive |-> TRUE, cool |-> [s \in DOMAIN loadout |-> 0],
               bolts |-> {}, wisps |-> {}, delayed |-> {}, next |-> 0]
  /\ pending = <<>>
  /\ frames = <<Checkpoint(server)>>
  /\ clean = TRUE
  /\ bound = {}
  /\ casts = 0

\* Without a valid state the owner's prediction, or its connection, ends.
Stopped == frames = <<>>
Stop    == frames' = <<>> /\ pending' = <<>>

\* The client predicts its next tick, with a cast or without.
Predict(slot) ==
  /\ ~Stopped
  /\ Len(pending) < MaxLead
  /\ slot # NoCast => casts < MaxCasts
  /\ casts' = IF slot = NoCast THEN casts ELSE casts + 1
  /\ \E cast \in {[slot |-> slot, seq |-> casts']} :
     \E next \in {Predicted(frames[Len(frames)], cast)} :
       IF ValidFor(next)
         THEN pending' = Append(pending, cast) /\ frames' = Append(frames, next)
         ELSE Stop
  /\ UNCHANGED <<loadout, terrain, server, clean, bound>>

\* The server executes the tick, with the command or (it came late) without its
\* cast; a bolt may end on an enemy and the hero may die.
ServerTick(late, hit, dies) ==
  /\ pending # <<>>
  /\ late => Head(pending).slot # NoCast
  /\ dies => server.alive
  /\ \E cast \in {IF late THEN [Head(pending) EXCEPT !.slot = NoCast] ELSE Head(pending)} :
     \E moved \in {BeforeContacts(server, cast)} :
     \E hits \in IF hit THEN {{b} : b \in moved.bolts} ELSE {{}} :
       /\ server' = [ProjectileActions(moved, hits) EXCEPT !.alive = @ /\ ~dies]
       /\ bound'  = bound \cup {p \in Bindings(moved) : \A q \in bound : q[1] # p[1]}
       /\ clean'  = (clean /\ ~late /\ ~hit /\ ~dies
                       /\ Cardinality(moved.bolts) < MaxProjectiles)
  /\ pending' = Tail(pending)
  /\ frames'  = Tail(frames)
  /\ UNCHANGED <<loadout, terrain, casts>>

\* The server publishes the owner checkpoint; the client takes it and replays
\* its pending commands.
Reconcile ==
  /\ ~Stopped
  /\ ~clean \/ ~ValidFor(server)
  /\ clean' = TRUE
  /\ IF ValidFor(server) /\ \A k \in DOMAIN Replayed(server) : ValidFor(Replayed(server)[k])
       THEN frames' = Replayed(server) /\ UNCHANGED pending
       ELSE Stop
  /\ UNCHANGED <<loadout, terrain, server, bound, casts>>

CreationNext ==
  \/ \E slot \in DOMAIN loadout \cup {NoCast} : Predict(slot)
  \/ \E late, hit, dies \in BOOLEAN : ServerTick(late, hit, dies)
  \/ Reconcile

CreationSpec == CreationInit /\ [][CreationNext]_creationVars

-----------------------------------------------------------------------------
(* Properties.                                                              *)

\* Everything a hero has in the world fits its owner checkpoint, whatever was
\* reserved or delayed when it was cast: wisps, delayed casts and Starfall bolts
\* stay within their maxima, so do the bolts apart from the repeats of Echoes,
\* and no two creations share a graphics identity.  OwnerTransients::validate_for
\* refuses any other state, and the server then drops the player.
CreationsFit ==
  /\ Cardinality(server.wisps) <= MaxWisps
  /\ Cardinality(server.delayed) <= MaxDelayed
  /\ Occupied(server) <= StarfallCapacity
  /\ Cardinality({b \in server.bolts : b.key = NoKey \/ b.key[3] # 3}) <= MaxProjectiles
  /\ Cardinality(Identities(server))
       = Cardinality(server.bolts) + Cardinality(server.wisps) + Cardinality(server.delayed)

\* What two worlds have in common: everything but the allocated identities.
Anonymous(c) ==
  [alive |-> c.alive, cool |-> c.cool,
   bolts |-> {[key |-> b.key, gfx |-> b.gfx, left |-> b.left] : b \in c.bolts},
   wisps |-> {[w EXCEPT !.id = NoId] : w \in c.wisps},
   delayed |-> {[d EXCEPT !.id = NoId, !.auth = NoId] : d \in c.delayed}]

\* The prediction is exact: as long as the server executes the predicted
\* commands, nothing else touches the hero's creations and the bolts are below
\* their maximum (at it, which wisp fires depends on ids the client does not
\* have), the client's frame for the server's tick shows the server's creations, down to every timer and
\* to the number of shots of each wisp, however many commands were replayed from
\* the last checkpoint (OwnerPredictionRunner, capture_replication).
PredictionExact == clean /\ ~Stopped => Anonymous(frames[1]) = Anonymous(server)

\* A Starfall bolt has one identity: the one announced when the cast was
\* accepted, which the repeat of an Echo keeps through its delay; no other bolt
\* has it, and a predicted bolt or repeat never shows another one
\* (docs/predicted-graphics.md:86).
ReservedIdentity ==
  /\ \A p, q \in bound : (p[1] = q[1]) <=> (p[2] = q[2])
  /\ Bindings(server) \subseteq bound
  /\ \A i \in DOMAIN frames :
       \A x \in {b \in frames[i].bolts : b.key # NoKey}
                  \cup {d \in frames[i].delayed : d.key # NoKey} :
         x.auth # NoId => <<x.key, x.auth>> \in bound

=============================================================================
