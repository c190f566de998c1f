------------------------------- MODULE DreamRun -------------------------------
(***************************************************************************)
(* The life cycle of a shared run (games/dreamwake/simulation/src/         *)
(* encounters.rs, simulation.rs, systems/progression.rs): who takes part,  *)
(* when the party moves on, what a cleared room and a fallen party do.     *)
(* Every operator maps a world to the world a call leaves behind.          *)
(*                                                                         *)
(* A hero keeps what the life cycle depends on: whether it takes part      *)
(* (active), has finished the current choice (ready), has offers left to   *)
(* choose from, stands or is down, how many level choices it is owed, and  *)
(* the ownership epochs of the casts whose Starfall bolts still exist      *)
(* (bolts: flying or reserved for an Echo).                                *)
(*                                                                         *)
(* Left out: positions, numbers (health, shards, experience), which memory *)
(* or essence a reward grants, colors, and the ambient enemies, which no   *)
(* phase change depends on.  What happens inside a combat tick is an input *)
(* of FightTick.                                                           *)
(***************************************************************************)
EXTENDS Integers, FiniteSets

CONSTANTS
  Players,         \* authenticated Traveler ids
  TotalRooms,      \* TOTAL_ROOMS
  RestRooms,       \* the sanctuaries, rooms 3 and 7 of the game
  FirstWave,       \* the encounter enemies enter_room spawns
  Reinforcements,  \* the enemies a room still holds back
  WaveSize,        \* the most that join at once
  MaxSpawns,       \* MAX_ENCOUNTER_SPAWNS
  MaxLevels,       \* bound on owed level choices
  Casters          \* the players who cast Starfall

ASSUME RunAssumption ==
  /\ {TotalRooms, FirstWave, WaveSize, MaxSpawns} \subseteq Nat \ {0}
  /\ {Reinforcements, MaxLevels} \subseteq Nat
  /\ RestRooms \subseteq 0..(TotalRooms - 2)
  /\ Casters \subseteq Players

Phases   == {"Intro", "Combat", "Reward", "Rest", "Transition", "Victory", "Defeat"}
Choosing == {"Reward", "Rest"}
Waiting  == {"Intro", "Transition"} \cup Choosing

NoHero == [present |-> FALSE, active |-> FALSE, ready |-> FALSE, offers |-> FALSE,
           levels |-> 0, alive |-> TRUE, bolts |-> {}]

\* DreamSimulation::new, with the initial player removed, as a server starts.
NewRun ==
  [phase |-> "Intro", room |-> 0, paused |-> FALSE, party |-> 0, offers |-> FALSE,
   held |-> 0, spawned |-> 0, foes |-> 0, hero |-> [p \in Players |-> NoHero]]

ActiveIn(w) == {p \in Players : w.hero[p].active}
Smaller(a, b) == IF a < b THEN a ELSE b

\* spawn_enemy, n times: past MAX_ENCOUNTER_SPAWNS nothing appears.
Spawn(w, n) ==
  LET k == Smaller(n, MaxSpawns - w.spawned)
  IN [w EXCEPT !.spawned = @ + k, !.foes = @ + k]

\* What the party sees of a hero, changed for everyone who takes part.
ForActive(w, Change(_)) ==
  [w EXCEPT !.hero = [p \in Players |-> IF w.hero[p].active THEN Change(w.hero[p])
                                        ELSE w.hero[p]]]

\* Everything but heroes and platforms goes, bolts of the absent included.
EnterRoom(w) ==
  LET Refreshed(h) == [h EXCEPT !.ready = FALSE, !.offers = FALSE, !.alive = TRUE]
      cleared == ForActive([w EXCEPT !.hero = [p \in Players |-> [@[p] EXCEPT !.bolts = {}]]],
                           Refreshed)
      entered == [cleared EXCEPT !.paused = FALSE, !.offers = FALSE, !.held = 0,
                                 !.spawned = 0, !.foes = 0]
      Offered(h) == [h EXCEPT !.offers = TRUE]
  IN CASE w.room \in RestRooms ->
            ForActive([entered EXCEPT !.phase = "Rest", !.offers = TRUE], Offered)
       [] w.room = TotalRooms - 1 -> Spawn([entered EXCEPT !.phase = "Combat"], 1)
       [] OTHER -> Spawn([entered EXCEPT !.phase = "Combat", !.held = Reinforcements], FirstWave)

\* Whether every active hero is ready, and there is one.
AllReady(w) == ActiveIn(w) # {} /\ \A p \in ActiveIn(w) : w.hero[p].ready

ReconcileReady(w) ==
  LET Unready(h) == [h EXCEPT !.ready = FALSE, !.offers = FALSE]
  IN CASE w.phase \notin Waiting \/ ~AllReady(w) -> w
       [] w.phase \in Choosing ->
            ForActive([w EXCEPT !.phase = "Transition", !.offers = FALSE], Unready)
       [] w.phase = "Intro" -> EnterRoom(w)
       [] w.phase = "Transition" ->
            IF w.room + 1 >= TotalRooms
            THEN [w EXCEPT !.room = @ + 1, !.phase = "Victory"]
            ELSE EnterRoom([w EXCEPT !.room = @ + 1])

-----------------------------------------------------------------------------
(* Membership.                                                              *)

\* A hero that stops taking part stays counted.
MutantSetPlayerActivity(w, p, active) ==
  IF ~w.hero[p].present \/ w.hero[p].active = active THEN w
  ELSE ReconcileReady(
         [w EXCEPT !.hero[p].active = active, !.hero[p].ready = FALSE,
                   !.hero[p].bolts = IF active THEN @ ELSE {},
                   !.party = IF active THEN @ + 1 ELSE @])

\* Coming back is a fresh start.
MutantReturn(w, p, active) ==
  IF ~w.hero[p].present \/ w.hero[p].active = active THEN w
  ELSE ReconcileReady(
         [w EXCEPT !.hero[p].active = active, !.hero[p].ready = FALSE, !.hero[p].alive = TRUE,
                   !.hero[p].bolts = IF active THEN @ ELSE {},
                   !.party = IF active THEN @ + 1 ELSE IF @ = 0 THEN 0 ELSE @ - 1])

\* set_player_activity: a departure takes the hero's creations with it and may
\* be what the others were waiting for.
SetPlayerActivity(w, p, active) ==
  IF ~w.hero[p].present \/ w.hero[p].active = active THEN w
  ELSE ReconcileReady(
         [w EXCEPT !.hero[p].active = active, !.hero[p].ready = FALSE,
                   !.hero[p].bolts = IF active THEN @ ELSE {},
                   !.party = IF active THEN @ + 1 ELSE IF @ = 0 THEN 0 ELSE @ - 1])

\* add_player_with_activity: the latecomer has the offers the run holds out.
AddPlayer(w, p, active) ==
  IF w.hero[p].present THEN w
  ELSE [w EXCEPT !.hero[p] = [NoHero EXCEPT !.present = TRUE, !.active = active,
                                            !.offers = w.phase \in Choosing /\ w.offers],
                 !.party = IF active THEN Cardinality(ActiveIn(w)) + 1 ELSE @]

RemovePlayer(w, p) ==
  IF ~w.hero[p].present THEN w
  ELSE ReconcileReady([w EXCEPT !.hero[p] = NoHero,
                                !.party = IF w.hero[p].active /\ @ > 0 THEN @ - 1 ELSE @])

\* restart_party: a new world with the same heroes, each as active as it was.
RestartParty(w) ==
  [NewRun EXCEPT !.hero = [p \in Players |->
                             [NoHero EXCEPT !.present = w.hero[p].present,
                                            !.active = w.hero[p].active]],
                 !.party = Cardinality(ActiveIn(w))]

-----------------------------------------------------------------------------
(* What a player asks for.                                                  *)

ContinueRun(w, p) ==
  IF w.phase \notin {"Intro", "Rest", "Transition"} \/ ~w.hero[p].active THEN w
  ELSE ReconcileReady([w EXCEPT !.hero[p].ready = TRUE,
                                !.hero[p].offers = @ /\ w.phase # "Rest"])

\* The readiness of the last chooser goes unnoticed.
MutantChooseReward(w, p, heals) ==
  IF w.phase \notin Choosing \/ ~w.hero[p].active \/ w.hero[p].ready \/ ~w.hero[p].offers
  THEN w
  ELSE [w EXCEPT !.hero[p].offers = FALSE, !.hero[p].ready = TRUE]

\* choose_reward, for a choice among the offers that the chosen slot can take.
\* The Health upgrade adds health even to a hero that is down.
ChooseReward(w, p, heals) ==
  LET chosen == [w EXCEPT !.hero[p].alive = @ \/ heals]
  IN IF w.phase \notin Choosing \/ ~w.hero[p].active \/ w.hero[p].ready \/ ~w.hero[p].offers
     THEN w
     ELSE IF w.hero[p].levels > 0 /\ w.phase = "Reward"
          THEN [chosen EXCEPT !.hero[p].levels = @ - 1]
          ELSE ReconcileReady([chosen EXCEPT !.hero[p].offers = FALSE, !.hero[p].ready = TRUE])

-----------------------------------------------------------------------------
(* A simulation tick.                                                       *)

Running(w)  == ~w.paused /\ w.phase # "Intro" /\ w.party > 0
Fighting(w) == Running(w) /\ w.phase = "Combat"

\* What a combat tick can do to the life cycle: heroes that fall, encounter
\* enemies that die, enemies the boss summons, heroes that gain a level, and what
\* becomes of each hero's bolts, to which a cast adds its epoch.
Fights(w) ==
  [fallen : SUBSET {p \in ActiveIn(w) : w.hero[p].alive}, killed : 0..w.foes,
   summoned : IF w.room = TotalRooms - 1 /\ w.foes > 0 /\ w.spawned < MaxSpawns
              THEN {0, 1} ELSE {0},
   risen : {{}} \cup {{p} : p \in {q \in ActiveIn(w) : w.hero[q].levels < MaxLevels}},
   cast : SUBSET {p \in ActiveIn(w) \cap Casters : w.hero[p].alive},
   gone : SUBSET {p \in ActiveIn(w) : w.hero[p].bolts # {}}]

\* resolve_deaths, after the tick's damage.
ResolveDeaths(w) ==
  IF w.party > 0 /\ ~\E p \in ActiveIn(w) : w.hero[p].alive
  THEN [w EXCEPT !.phase = "Defeat"] ELSE w

\* finish_encounter.
FinishEncounter(w) ==
  LET wave == Smaller(w.held, WaveSize)
      Rested(h) == [h EXCEPT !.ready = FALSE, !.alive = TRUE]
      Gifted(h) == [h EXCEPT !.ready = FALSE, !.alive = TRUE, !.offers = TRUE]
  IN CASE w.phase # "Combat" -> w
       [] w.phase = "Combat" /\ w.foes <= 2 /\ w.held > 0 ->
            Spawn([w EXCEPT !.held = @ - wave], wave)
       [] w.phase = "Combat" /\ w.foes > 0 /\ (w.foes > 2 \/ w.held = 0) -> w
       [] w.phase = "Combat" /\ w.foes = 0 /\ w.held = 0 ->
            IF w.room = TotalRooms - 1 THEN ForActive([w EXCEPT !.phase = "Victory"], Rested)
            ELSE ForActive([w EXCEPT !.phase = "Reward", !.offers = TRUE], Gifted)

\* A hero is owed a level only for a kill.  epoch is the ownership epoch under
\* which each player acts.
FightTick(w, f, epoch) ==
  LET fought == [w EXCEPT
                   !.foes = @ - f.killed,
                   !.hero = [p \in Players |->
                               [@[p] EXCEPT
                                 !.alive = @ /\ p \notin f.fallen,
                                 !.levels = IF p \in f.risen /\ f.killed > 0 THEN @ + 1 ELSE @,
                                 !.bolts = (IF p \in f.gone THEN {} ELSE @)
                                           \cup (IF p \in f.cast THEN {epoch[p]} ELSE {})]]]
  IN FinishEncounter(ResolveDeaths(Spawn(fought, f.summoned)))
=============================================================================
