----------------------------- MODULE CombatStep -----------------------------
(***************************************************************************)
(* One authoritative tick with explicit combat actions (games/dreamwake/   *)
(* simulation/src/combat.rs, systems/rays.rs, state/ray.rs and the part of *)
(* systems/combat.rs that commits or fails the batch): the shot and the    *)
(* channeled beam of the Dreamlance, and a dash beside them.               *)
(*                                                                         *)
(* A tick first refuses actions, then the player systems answer a dash,    *)
(* then every lance request is checked against its own historical view and *)
(* STAGED, and only when the whole batch resolves are the staged lances    *)
(* written back.  A request of a running beam is internal: its verdict is  *)
(* cut off before the results are returned.                                *)
(*                                                                         *)
(* A command carries one action (or two, the second is a conflict), and    *)
(* the held aim of a beam.  The sequence number of a command is the tick   *)
(* it executes at; an owner that is given another command stream only      *)
(* stops steering its beam, as one whose commands are lost does.  What     *)
(* the geometry finds along a ray is a free choice; the enemy alive at     *)
(* each tick is what history is about, so an enemy is its identity and 0   *)
(* is none.  Damage amounts, aim and poses are left out; so are the parts  *)
(* of a view's timing that engine/net's combat_timing settles before the   *)
(* action reaches the simulation.                                          *)
(***************************************************************************)
EXTENDS Integers, Sequences, FiniteSets, SequencesExt

CONSTANTS
  Shooters,        \* heroes, numbers: verdicts are in the order of their ids
  Channelers,      \* the shooters that start beams (bounds the model)
  Capacity,        \* DREAMLANCE_CAPACITY
  FireCooldown,    \* DREAMLANCE_COOLDOWN, in ticks
  DashTicks,       \* ticks a dash lasts
  DashCooldown,    \* ticks from a dash to the next
  BeamDuration,    \* BEAM_DURATION_TICKS
  BeamDamage,      \* BEAM_DAMAGE_TICKS
  BeamAmmo,        \* BEAM_AMMO_TICKS
  Rewind,          \* 9 ticks: the oldest view, and the oldest held sample
  HistoryFrames,   \* frames CombatHistory keeps
  MaxFoes,         \* bound on enemies
  CombatTicks      \* bound on ticks

CombatAssumption ==
  /\ Shooters \subseteq Nat /\ Channelers \subseteq Shooters
  /\ {Capacity, FireCooldown, DashTicks, DashCooldown, BeamDuration,
      BeamDamage, BeamAmmo, HistoryFrames, MaxFoes, CombatTicks} \subseteq Nat \ {0}
  /\ Rewind \in Nat

VARIABLES
  gameplay,     \* Run.tick
  lances,       \* RayState of each hero
  bodies,       \* the rest of a hero that the actions look at
  foes,         \* CombatHistory: tick -> the enemy alive at it
  outcome       \* what the last tick was asked and what it answered

combatVars == <<gameplay, lances, bodies, foes, outcome>>

NoBeam == [started |-> 0]
NoView == -1

\* Requests are pairs of a shooter and an edge; a pulse is the internal one.
ShotEdges == {"Ray", "Begin"}

\* A command: its edge, whether a second edge follows it, the tick its view is
\* of, whether it holds the beam, and what the query of this tick finds.
NoCommand == [edge |-> "None", second |-> FALSE, held |-> FALSE, view |-> NoView, found |-> "Miss"]

\* The other shooters only shoot, at what they see now.  Only the combinations
\* that can be answered differently are tried: a ray that is refused before its
\* query has one view, a view that is too old is answered like lost poses, and a
\* hit on an enemy that is still there like a miss.
Commands(s, tick) ==
  LET l     == lances[s]
      asks  == l.beam = NoBeam /\ l.cooldown <= 1 /\ l.ammo > 0
      views == {t \in {tick, tick - Rewind} : t >= 0}
      finds == {"Miss", "Lost", "Hit"}
      now   == [view |-> tick, found |-> "Miss"]
      shots == IF s \in Channelers /\ asks THEN [view : views, found : finds] ELSE {now}
      Command(edge, shot) == [NoCommand EXCEPT !.edge = edge, !.view = shot.view, !.found = shot.found]
      edges == IF s \in Channelers THEN {"None", "Stop", "Dash"} ELSE {"None"}
  IN {[NoCommand EXCEPT !.edge = e] : e \in edges}
     \cup {Command("Ray", shot) : shot \in shots}
     \cup IF s \notin Channelers THEN {}
          ELSE {[Command("Ray", now) EXCEPT !.second = TRUE]}
               \cup {Command("Begin", shot) : shot \in shots}
               \cup IF l.beam = NoBeam THEN {}
                    ELSE {[NoCommand EXCEPT !.found = f] : f \in finds}
                         \cup {[Command("None", [view |-> v, found |-> f]) EXCEPT !.held = TRUE] :
                                 v \in views, f \in finds}

Dashing(body) == body.dash > DashCooldown - DashTicks

CombatInit ==
  /\ gameplay = 0
  /\ lances = [s \in Shooters |-> [ammo |-> Capacity, cooldown |-> 0, last |-> 0, beam |-> NoBeam]]
  /\ bodies = [s \in Shooters |-> [up |-> TRUE, dash |-> 0]]
  /\ foes = [t \in 0..0 |-> 1]
  /\ outcome = [answers |-> [a \in {} |-> {}], failed |-> FALSE]

-----------------------------------------------------------------------------
(* RayState.  A key is its sequence number.                                 *)

Replayed(l, key) == l.last # 0 /\ key <= l.last

FireEligibility(l, key) ==
  CASE Replayed(l, key) -> "InvalidAction"
    [] l.cooldown > 0   -> "Cooldown"
    [] l.ammo < 1       -> "NoAmmo"
    [] OTHER            -> "Accepted"

Accept(l, key) == [l EXCEPT !.ammo = @ - 1, !.cooldown = FireCooldown, !.last = key]

Sample(key, tick, view) == [key |-> key, accepted |-> tick, view |-> view]

Begun(l, key, tick, view) ==
  [l EXCEPT !.beam = [key |-> key, started |-> tick, damaged |-> tick,
                      sample |-> Sample(key, tick, view)]]

\* tick_dreamlance.
Cooled(l) == [l EXCEPT !.cooldown = IF @ > 0 THEN @ - 1 ELSE 0]

-----------------------------------------------------------------------------
(* ray_actions, for one hero: lance l at this tick, before any request.     *)

BeamStop(l, c, key) ==
  IF c.edge = "Stop" /\ ~Replayed(l, key) THEN [l EXCEPT !.beam = NoBeam, !.last = key] ELSE l

BeamAim(l, c, key, tick) ==
  IF /\ c.held /\ l.beam # NoBeam
     /\ key > l.beam.sample.key
     /\ tick - c.view <= Rewind
  THEN [l EXCEPT !.beam.sample = Sample(key, tick, c.view)]
  ELSE l

\* A held sample never grows old.
MutantBeamOver(l, body, tick) == ~body.up \/ Dashing(body) \/ tick - l.beam.started >= BeamDuration

BeamOver(l, body, tick) ==
  \/ ~body.up \/ Dashing(body)
  \/ tick - l.beam.started >= BeamDuration
  \/ tick - l.beam.sample.accepted > Rewind

\* The lance after the edges and the samples of this tick, and the checks that
\* end a beam.
Held(l, body, c, key, tick) ==
  LET aimed == BeamAim(BeamStop(l, c, key), c, key, tick)
  IN IF aimed.beam # NoBeam /\ BeamOver(aimed, body, tick) THEN [aimed EXCEPT !.beam = NoBeam] ELSE aimed

PulseDue(l, tick) == l.beam # NoBeam /\ tick - l.beam.damaged >= BeamDamage

\* The query of a view: found is what the ray meets, a Hit needs an enemy in
\* the frame of the view that is still the enemy of the current frame.
QueryReason(found, view, frames, tick, early) ==
  CASE view > tick \/ tick - view > Rewind -> "MissingHistory"
    [] view \notin DOMAIN frames            -> "MissingHistory"
    [] found = "Lost"                      -> "MissingHistory"
    [] early                               -> "Budget"
    [] found = "Hit" /\ frames[view] # 0 /\ frames[view] # frames[tick] -> "WrongLifecycle"
    [] OTHER                               -> "Accepted"

ShotReason(l, body, c, key, frames, tick, early) ==
  CASE ~body.up \/ Dashing(body)                      -> "NotEligible"
    [] l.beam # NoBeam                                -> "NotEligible"
    [] FireEligibility(l, key) # "Accepted"           -> FireEligibility(l, key)
    [] OTHER -> QueryReason(c.found, c.view, frames, tick, early)

Boundary(beam, tick) == (tick - beam.started) % BeamAmmo = 0

PulseReason(l, c, frames, tick, early) ==
  IF Boundary(l.beam, tick) /\ l.ammo < 1 THEN "NoAmmo"
  ELSE QueryReason(c.found, l.beam.sample.view, frames, tick, early)

\* The lance the last staged commit of a hero holds; l is its lance and h the
\* held one.
Staged(l, h, c, key, tick, shot, pulse) ==
  CASE pulse = "NoAmmo"   -> [l EXCEPT !.beam = NoBeam]
    [] pulse = "Accepted" -> [h EXCEPT !.ammo = IF Boundary(h.beam, tick) THEN @ - 1 ELSE @,
                                       !.beam.damaged = tick]
    [] shot = "Accepted"  -> IF c.edge = "Begin" THEN Begun(Accept(h, key), key, tick, c.view)
                             ELSE Accept(h, key)
    [] OTHER              -> h

-----------------------------------------------------------------------------
(* The tick.                                                                *)

\* Beams are asked before the shots of the tick.
MutantRequests(shots, pulses) == pulses \o shots

\* Explicit requests come first, in the order of the heroes, then the pulses.
Requests(shots, pulses) == shots \o pulses

Verdict(s, edge, reason) == [shooter |-> s, edge |-> edge, reason |-> reason]

ActionReason(reason) == CASE reason = "WrongLifecycle" -> "InvalidAction"
                          [] reason = "NoAmmo"         -> "Resource"
                          [] reason = "NotEligible"    -> "Inactive"
                          [] OTHER                     -> reason

\* fail_pending keeps the verdict of a shot it takes back.
MutantFailPending(verdicts) == verdicts

\* fail_pending: only verdicts with a combat part are taken back.
FailPending(verdicts) ==
  [i \in DOMAIN verdicts |->
     IF verdicts[i].edge \in ShotEdges \cup {"Pulse"} /\ verdicts[i].reason = "Accepted"
     THEN [verdicts[i] EXCEPT !.reason = "Budget"] ELSE verdicts[i]]

\* Verdicts from the first internal one on are dropped; an action without a
\* verdict is answered Inactive.  Kept for each action asked: the number of its
\* verdicts and whether one accepts it.
Answers(verdicts, asked) ==
  LET internal == {i \in DOMAIN verdicts : verdicts[i].edge = "Pulse"}
      cut == IF internal = {} THEN Len(verdicts) ELSE Min(internal) - 1
      mine(a) == {i \in 1..cut : <<verdicts[i].shooter, verdicts[i].edge>> = a}
  IN [a \in asked |-> [count |-> Max({1, Cardinality(mine(a))}),
                       accepted |-> \E i \in mine(a) : verdicts[i].reason = "Accepted"]]

\* Where a batch fails: before the lance requests (a pose or the
\* intent budget), or when it is resolved (history or the critical stream).
Faults == {"early", "late"}

Less(n) == IF n > 0 THEN n - 1 ELSE 0

\* CombatHistory::capture.
Captured(frames, tick, foe) ==
  [t \in {u \in DOMAIN frames : tick - u < HistoryFrames} \cup {tick} |->
     IF t = tick THEN foe ELSE frames[t]]

\* What command c of hero s comes to: its lance and body after the tick, and
\* the verdicts it adds in each phase of it.
Resolved(s, c, fault, frames) ==
  LET tick  == gameplay + 1
      up    == bodies[s].up
      edge  == IF up THEN c.edge ELSE "None"
      dash  == edge = "Dash" /\ Less(bodies[s].dash) = 0
      body  == [up |-> up, dash |-> IF dash THEN DashCooldown ELSE Less(bodies[s].dash)]
      l     == Cooled(lances[s])
      h     == Held(l, body, [c EXCEPT !.edge = edge], tick, tick)
      shot  == IF edge \in ShotEdges
               THEN ShotReason(l, body, c, tick, frames, tick, fault = "early") ELSE "none"
      pulse == IF PulseDue(h, tick) THEN PulseReason(h, c, frames, tick, fault = "early") ELSE "none"
      When(listed, e, reason) == IF listed THEN <<Verdict(s, e, reason)>> ELSE <<>>
  IN [lance   |-> IF fault = "none" THEN Staged(l, h, c, tick, tick, shot, pulse) ELSE l,
      body    |-> body,
      refused |-> When(c.edge # edge, c.edge, "Inactive")
                  \o When(c.second, "Second", IF up THEN "Conflict" ELSE "Inactive"),
      simple  |-> When(edge = "Dash", "Dash", IF dash THEN "Accepted" ELSE "Cooldown"),
      stop    |-> When(edge = "Stop", "Stop", IF Replayed(l, tick) THEN "InvalidAction" ELSE "Accepted"),
      shot    |-> When(shot # "none", edge, ActionReason(shot)),
      pulse   |-> When(pulse # "none", "Pulse", ActionReason(pulse))]

\* The verdicts of one phase, in the order of the heroes.
Phase(resolved, phase) ==
  LET order == SetToSortSeq(Shooters, <)
  IN FlattenSeq([i \in DOMAIN order |-> resolved[order[i]][phase]])

\* step_multiplayer_with_actions with command cs[s] of each hero: foe is the
\* enemy the poses of this tick are captured with, fallen heroes die in it.
Tick(cs, fault, fallen, foe) ==
  LET frames == Captured(foes, gameplay + 1, foe)
      asked  == {<<s, cs[s].edge>> : s \in {x \in Shooters : cs[x].edge # "None"}}
                \cup {<<s, "Second">> : s \in {x \in Shooters : cs[x].second}}
  IN \E r \in {[s \in Shooters |-> Resolved(s, cs[s], fault, frames)]} :
       LET verdicts == Phase(r, "refused") \o Phase(r, "simple") \o Phase(r, "stop")
                       \o Requests(Phase(r, "shot"), Phase(r, "pulse"))
       IN /\ gameplay' = gameplay + 1
          /\ foes' = frames
          /\ lances' = [s \in Shooters |->
                          IF s \in fallen THEN [r[s].lance EXCEPT !.beam = NoBeam] ELSE r[s].lance]
          /\ bodies' = [s \in Shooters |-> [r[s].body EXCEPT !.up = @ /\ s \notin fallen]]
          /\ outcome' = [failed |-> fault # "none",
                         answers |-> Answers(IF fault = "none" THEN verdicts ELSE FailPending(verdicts), asked)]

\* The enemy of the next tick: the same, none, or a new one after none.
NextFoes ==
  LET now == foes[gameplay]
  IN {now, 0} \cup (IF now = 0 THEN {f \in 1..MaxFoes : \A t \in DOMAIN foes : foes[t] < f} ELSE {})

Step ==
  /\ gameplay < CombatTicks
  /\ \E all \in {[s \in Shooters |-> Commands(s, gameplay + 1)]} :
     \E cs \in {f \in [Shooters -> UNION Range(all)] : \A s \in Shooters : f[s] \in all[s]} :
     LET plain == \A s \in Shooters : cs[s].found = "Miss"
     IN \/ \E foe \in NextFoes : Tick(cs, "none", {}, foe)
        \/ plain /\ \E s \in Channelers : bodies[s].up /\ Tick(cs, "none", {s}, foes[gameplay])
        \/ plain /\ \E fault \in Faults : Tick(cs, fault, {}, foes[gameplay])

CombatNext == Step

CombatSpec == CombatInit /\ [][CombatNext]_combatVars

-----------------------------------------------------------------------------
\* Every action gets exactly one verdict, and it is Accepted exactly when the
\* action took effect: for a shot or a beam's start one round, the cooldown and
\* the key are written, for a dash its cooldown; whatever other beams
\* did in the tick (internal_verdict_start) and wherever the batch failed
\* (fail_pending).
VerdictMatchesEffect ==
  [][gameplay' # gameplay =>
       \A a \in DOMAIN outcome'.answers :
         LET s == a[1]
             accepted == outcome'.answers[a].accepted
         IN /\ outcome'.answers[a].count = 1
            /\ a[2] \in ShotEdges => (accepted <=> lances'[s].cooldown = FireCooldown)
            /\ a[2] \in ShotEdges /\ accepted =>
                 lances'[s].ammo = lances[s].ammo - 1 /\ lances'[s].last = gameplay'
            /\ a[2] = "Dash" => (accepted <=> bodies'[s].dash = DashCooldown)
            /\ a[2] = "Second" => ~accepted]_combatVars

\* A beam that outlives a tick is younger than its duration and follows an aim
\* of the last Rewind ticks, also when commands or their stream were lost;
\* only a failed batch can keep one longer.
BeamLimits ==
  \A s \in Shooters :
    LET beam == lances[s].beam
    IN beam # NoBeam =>
         \/ outcome.failed
         \/ /\ bodies[s].up
            /\ gameplay - beam.started < BeamDuration
            /\ gameplay - beam.sample.accepted <= Rewind

\* "Beam pulses retain their fixed-tick cadence": a beam deals damage at
\* multiples of BEAM_DAMAGE_TICKS from its start.
BeamCadence ==
  \A s \in Shooters :
    lances[s].beam # NoBeam => (lances[s].beam.damaged - lances[s].beam.started) % BeamDamage = 0
=============================================================================
