------------------------------- MODULE Surge --------------------------------
(***************************************************************************)
(* The charged surge, from the button to the curve: the edges a client     *)
(* collects from its keyboard and gamepads (games/dreamwake/client/src/    *)
(* plugins/input/charge.rs), the queue that gives each tick one of them    *)
(* and an episode (network/session.rs), and the charge the simulation      *)
(* keeps (simulation/src/state/charge.rs over engine/core's ChargeState).  *)
(*                                                                         *)
(* One frame of the client collects its hardware events in order, flushes  *)
(* the edges to the action buffer, which the same frame hands to the       *)
(* session, so a flush always finds the buffer empty.  One tick takes one  *)
(* action of the session to the simulation, unless the command misses its  *)
(* tick.  The frames of a client and the ticks interleave freely, and what *)
(* the server knows of the pause menu lags.  A hold is numbered so that a  *)
(* surge can be traced back to the button that made it; holds and their    *)
(* fates are not part of the code.                                         *)
(*                                                                         *)
(* Left out: aim and distance, more pads than MAX_SOURCES, a Blink, which  *)
(* interrupts like a dash, and the time stamps of the input journal (a     *)
(* tick drains what the frames before it recorded).                        *)
(***************************************************************************)
EXTENDS Integers, Sequences, FiniteSets, SequencesExt

CONSTANTS
  Pads,            \* gamepads
  MaxEdges,        \* MAX_EDGES
  MaxBacklog,      \* 32: edges a session queues
  ChargeMin,       \* CHARGE_MIN_TICKS
  ChargeMax,       \* CHARGE_MAX_TICKS
  ChargeCooldown,  \* CHARGE_COOLDOWN
  CurveSteps,      \* samples of the curve that are consumed
  Stamina,         \* capacity, in units of what an idle tick restores
  SurgeCost,       \* CHARGE_STAMINA_COST, in the same units
  Rooms,           \* whether rooms are cleared, left and entered
  MaxHolds,        \* bound on holds
  MaxStreams,      \* bound on command streams
  SurgeTicks       \* bound on ticks

SurgeAssumption ==
  /\ {MaxEdges, MaxBacklog, ChargeMin, ChargeMax, ChargeCooldown, CurveSteps,
      Stamina, SurgeCost, MaxHolds, MaxStreams, SurgeTicks} \subseteq Nat \ {0}
  /\ ChargeMin <= ChargeMax /\ SurgeCost <= Stamina /\ Rooms \in BOOLEAN

VARIABLES
  buttons,     \* ChargeEdges
  holding,     \* CapturedCharge.0
  menu,        \* the client's pause menu is open
  link,        \* the client's session: stream, backlog, episode, live
  charge,      \* ChargedMovement
  traveler,    \* the hero and its authority: up, active, generation, stream, interrupt
  room,        \* phase and pause of the run
  clock,       \* ticks done; the sequence number of the command for a tick
  holds        \* how each hold ended: "down", "let go" or "lost"

surgeVars == <<buttons, holding, menu, link, charge, traveler, room, clock, holds>>

NoKey == [stream |-> 0, seq |-> 0, generation |-> 0]
Idle  == [kind |-> "Idle"]
Charging(n)  == [kind |-> "Charging", ticks |-> n]
Executing(n) == [kind |-> "Executing", cursor |-> n]

NewLink(stream) == [stream |-> stream, backlog |-> <<>>, episode |-> 0, hold |-> 0, live |-> TRUE]

SurgeInit ==
  /\ buttons = [key |-> FALSE, pads |-> {}, pending |-> <<>>,
                recovering |-> FALSE, blocked |-> FALSE]
  /\ holding = FALSE /\ menu = FALSE 
  /\ link = NewLink(1)
  /\ charge = [episode |-> 0, phase |-> Idle, cooldown |-> 0, stamina |-> Stamina,
               begin |-> NoKey, hold |-> 0]
  /\ traveler = [up |-> TRUE, active |-> TRUE, generation |-> 1, stream |-> 1, interrupt |-> FALSE]
  /\ room = [phase |-> "Combat", paused |-> FALSE]
  /\ clock = 0
  /\ holds = <<>>

-----------------------------------------------------------------------------
(* ChargeEdges.                                                             *)

IsHeld(b) == b.key \/ b.pads # {}


Interrupted(b) == [b EXCEPT !.pending = <<>>, !.recovering = TRUE, !.blocked = TRUE]

Transition(b, was, enabled) ==
  LET now == IsHeld(b)
      edge == IF ~enabled \/ b.blocked \/ now = was THEN b
              ELSE IF Len(b.pending) = MaxEdges THEN Interrupted(b)
              ELSE [b EXCEPT !.pending = Append(@, now)]
  IN IF ~now /\ ~edge.recovering THEN [edge EXCEPT !.blocked = FALSE] ELSE edge

\* Hardware events: the key, the button of a pad, a pad that disconnects.
Events(b) ==
  {[kind |-> "key", down |-> ~b.key]}
  \cup {[kind |-> "pad", pad |-> p, down |-> p \notin b.pads] : p \in Pads}
  \cup {[kind |-> "gone", pad |-> p] : p \in b.pads}

\* One event of collect.
Collected(b, e, enabled) ==
  LET was == IsHeld(b)
  IN CASE e.kind = "key" -> Transition([b EXCEPT !.key = e.down], was, enabled)
       [] e.kind = "pad" ->
            Transition([b EXCEPT !.pads = IF e.down THEN @ \cup {e.pad} ELSE @ \ {e.pad}], was, enabled)
       [] OTHER ->
            LET without == [b EXCEPT !.pads = @ \ {e.pad}]
            IN Transition(IF ~IsHeld(without) THEN Interrupted(without) ELSE without, was, enabled)

\* The rest of collect: focus and suppression.
Settled(b, unfocused, enabled) ==
  LET focused == IF unfocused THEN Interrupted([b EXCEPT !.key = FALSE]) ELSE b
  IN IF enabled THEN focused ELSE Interrupted(focused)

\* CapturedCharge::flush to an empty buffer: the actions in order.  The pending
\* presses are the last holds.
Flushed(b, held, count) ==
  LET later(i) == Cardinality({j \in (i + 1)..Len(b.pending) : b.pending[j]})
  IN (IF b.recovering /\ held THEN <<[kind |-> "Cancel", hold |-> 0]>> ELSE <<>>)
     \o [i \in DOMAIN b.pending |->
           IF b.pending[i] THEN [kind |-> "Begin", hold |-> count - later(i)]
           ELSE [kind |-> "Release", hold |-> 0]]

AfterFlush(b) ==
  [b EXCEPT !.recovering = FALSE, !.pending = <<>>,
            !.blocked = IF b.recovering THEN @ /\ IsHeld(b) ELSE @]

\* The holds after an event that took the edges from b to c: the open one ends
\* when no source is held, by the player's hand unless its pad is gone.
Witnessed(hs, b, c, e) ==
  LET ended == IF IsHeld(b) /\ ~IsHeld(c) /\ hs # <<>> /\ Last(hs) = "down"
               THEN ReplaceAt(hs, Len(hs), IF e.kind = "gone" THEN "lost" ELSE "let go") ELSE hs
      began == c.pending # <<>> /\ Last(c.pending) /\ Len(c.pending) > Len(b.pending)
  IN IF began THEN Append(ended, "down") ELSE ended

\* A hold that loses the focus or the game is lost.
Broken(hs, broken) ==
  IF broken /\ hs # <<>> /\ Last(hs) = "down" THEN ReplaceAt(hs, Len(hs), "lost") ELSE hs

\* The edges and holds after up to two events of a frame.
AfterEvents(enabled) ==
  LET Next1(x) == {LET c == Collected(x.b, e, enabled)
                   IN [b |-> c, holds |-> Witnessed(x.holds, x.b, c, e)] : e \in Events(x.b)}
      none == [b |-> buttons, holds |-> holds]
      one  == Next1(none)
  IN {none} \cup one \cup UNION {Next1(x) : x \in one}

\* Session::recover.
RecoveredLink(l) == [l EXCEPT !.backlog = <<>>, !.episode = 0, !.hold = 0, !.live = FALSE]

\* capture_input and journal_hardware.
Frame ==
  /\ LET enabled == ~menu /\ room.phase = "Combat"
     IN \E unfocused \in BOOLEAN, x \in AfterEvents(enabled) :
        \E after \in {Settled(x.b, unfocused, enabled)} :
          LET queue == link.backlog \o Flushed(after, holding, Len(x.holds))
          IN /\ Len(x.holds) <= MaxHolds
             /\ buttons' = AfterFlush(after)
             /\ holding' = IF after.pending # <<>> THEN Last(after.pending)
                           ELSE holding /\ ~after.recovering
             /\ holds' = Broken(x.holds, unfocused \/ ~enabled)
             /\ link' = CASE ~link.live             -> link
                          [] Len(queue) > MaxBacklog -> RecoveredLink(link)
                          [] OTHER                   -> [link EXCEPT !.backlog = queue]
  /\ UNCHANGED <<menu, charge, traveler, room, clock>>

-----------------------------------------------------------------------------
(* The session: one action per tick.                                        *)

\* resolve_charge_edge, for the command with sequence number seq.
ResolvedEdge(l, seq) ==
  LET edge == Head(l.backlog)
      rest == [l EXCEPT !.backlog = Tail(@)]
  IN CASE edge.kind = "Begin" ->
            [link |-> [rest EXCEPT !.episode = seq, !.hold = edge.hold],
             action |-> [kind |-> "Begin", episode |-> seq, hold |-> edge.hold]]
       [] l.episode = 0 -> [link |-> rest, action |-> [kind |-> "None", episode |-> 0, hold |-> 0]]
       [] OTHER -> [link |-> [rest EXCEPT !.episode = 0, !.hold = 0],
                    action |-> [kind |-> edge.kind, episode |-> l.episode, hold |-> l.hold]]

\* next_action.
NextAction ==
  IF link.live /\ link.backlog # <<>> THEN ResolvedEdge(link, clock + 1)
  ELSE [link |-> link, action |-> [kind |-> "None", episode |-> 0, hold |-> 0]]

-----------------------------------------------------------------------------
(* ChargeState and ChargedMovement.                                         *)

TickedCharge(c) ==
  [c EXCEPT !.cooldown = IF @ > 0 THEN @ - 1 ELSE 0,
            !.phase = IF @.kind = "Charging" /\ @.ticks < ChargeMax THEN Charging(@.ticks + 1) ELSE @,
            !.stamina = IF c.phase.kind = "Idle" /\ @ < Stamina THEN @ + 1 ELSE @]

EndedCharge(c) == [c EXCEPT !.phase = Idle]

\* ChargeState::begin; a new stream has episodes of its own once the old charge
\* is over.
BegunCharge(c, action, key) ==
  LET fresh == c.begin # NoKey /\ c.begin.stream # key.stream /\ c.phase = Idle /\ c.cooldown = 0
      floor == IF fresh THEN 0 ELSE c.episode
  IN IF action.episode <= floor \/ c.phase # Idle \/ c.cooldown # 0 THEN [c EXCEPT !.episode = floor]
     ELSE [c EXCEPT !.episode = action.episode, !.phase = Charging(0), !.begin = key,
                    !.hold = action.hold]

ReleasedCharge(c) ==
  IF c.phase.ticks < ChargeMin \/ c.stamina < SurgeCost THEN EndedCharge(c)
  ELSE [c EXCEPT !.stamina = @ - SurgeCost, !.cooldown = ChargeCooldown, !.phase = Executing(0)]

\* prepare.
Prepare(c, action, key, interrupted) ==
  LET t == TickedCharge(c)
  IN CASE interrupted -> EndedCharge(t)
       [] action.kind \in {"Release", "Cancel"}
          /\ (c.begin = NoKey \/ c.begin.stream # key.stream \/ key.seq <= c.begin.seq) -> t
       [] action.kind = "Begin" -> IF t.stamina < SurgeCost THEN t ELSE BegunCharge(t, action, key)
       [] action.kind = "Cancel" -> IF action.episode = t.episode THEN EndedCharge(t) ELSE t
       [] action.kind = "Release" ->
            IF t.phase.kind = "Charging" /\ action.episode = t.episode THEN ReleasedCharge(t) ELSE t
       [] OTHER -> t

\* authored_motion_delta.
Travelled(c) ==
  IF c.phase.kind # "Executing" THEN c
  ELSE [c EXCEPT !.phase = IF @.cursor + 1 = CurveSteps THEN Idle ELSE Executing(@.cursor + 1)]

\* advance_owner_charged_motion: a collision error keeps the charge as it was.
Advanced(c, action, key, interrupted, collides) ==
  IF collides THEN c ELSE Travelled(Prepare(c, action, key, interrupted))

-----------------------------------------------------------------------------
(* The authority and the room.                                              *)

Running == room.phase = "Combat" /\ ~room.paused

\* step_committed and player_actions: the client's command is there or misses
\* its tick.
GameTick(arrives, interrupted, collides) ==
  LET next   == NextAction
      action == IF arrives /\ link.stream = traveler.stream THEN next.action
                ELSE [kind |-> "None", episode |-> 0, hold |-> 0]
      key    == [stream |-> traveler.stream, seq |-> clock + 1, generation |-> traveler.generation]
      before == IF traveler.interrupt THEN EndedCharge(charge) ELSE charge
  IN /\ clock < SurgeTicks
     /\ clock' = clock + 1
     /\ link' = next.link
     /\ charge' = CASE ~Running                             -> before
                    [] ~traveler.active \/ ~traveler.up     -> EndedCharge(before)
                    [] OTHER -> Advanced(before, action, key, interrupted, collides)
     /\ traveler' = [traveler EXCEPT !.interrupt = FALSE]
     /\ UNCHANGED <<buttons, holding, menu, room, holds>>

\* A hero falls in a tick.
Fall ==
  /\ Rooms /\ Running /\ traveler.active /\ traveler.up
  /\ traveler' = [traveler EXCEPT !.up = FALSE]
  /\ UNCHANGED <<buttons, holding, menu, link, charge, room, clock, holds>>

\* finish_encounter revives the active heroes.
Clear ==
  /\ Rooms /\ Running
  /\ room' = [room EXCEPT !.phase = "Transition"]
  /\ traveler' = [traveler EXCEPT !.up = @ \/ traveler.active]
  /\ UNCHANGED <<buttons, holding, menu, link, charge, clock, holds>>

\* enter_room gives a hero that is down a new generation.
EnterNext ==
  /\ room.phase = "Transition"
  /\ room' = [phase |-> "Combat", paused |-> FALSE]
  /\ traveler' = IF traveler.active /\ ~traveler.up
                 THEN [traveler EXCEPT !.up = TRUE, !.generation = @ + 1] ELSE traveler
  /\ UNCHANGED <<buttons, holding, menu, link, charge, clock, holds>>

\* disconnect, and the hero made inactive.
Leave ==
  /\ Rooms /\ traveler.active /\ traveler.stream < MaxStreams
  /\ traveler' = [traveler EXCEPT !.active = FALSE]
  /\ charge' = EndedCharge(charge)
  /\ link' = RecoveredLink(link)
  /\ UNCHANGED <<buttons, holding, menu, room, clock, holds>>

\* A connection of the same Traveler is activated: resume_player does not heal.
Return ==
  /\ ~traveler.active
  /\ traveler' = [traveler EXCEPT !.active = TRUE, !.stream = @ + 1]
  /\ link' = NewLink(traveler.stream + 1)
  /\ charge' = EndedCharge(charge)
  /\ UNCHANGED <<buttons, holding, menu, room, clock, holds>>

\* The client asks for a new stream, which interrupts the charge; the Welcome
\* reaches the client later.
Resync ==
  /\ traveler.active /\ traveler.stream < MaxStreams /\ link.stream = traveler.stream
  /\ traveler' = [traveler EXCEPT !.stream = @ + 1, !.interrupt = TRUE]
  /\ link' = RecoveredLink(link)
  /\ UNCHANGED <<buttons, holding, menu, charge, room, clock, holds>>

Welcome ==
  /\ traveler.active /\ link.stream # traveler.stream
  /\ link' = NewLink(traveler.stream)
  /\ menu' = FALSE
  /\ UNCHANGED <<buttons, holding, charge, traveler, room, clock, holds>>

\* The pause menu suppresses input at once; the server pauses when the request
\* arrives, and a running room unpauses only with the menu.
ToggleMenu ==
  /\ menu = room.paused
  /\ menu' = ~menu
  /\ UNCHANGED <<buttons, holding, link, charge, traveler, room, clock, holds>>

PauseArrives ==
  /\ room.phase = "Combat" /\ room.paused # menu
  /\ room' = [room EXCEPT !.paused = menu]
  /\ UNCHANGED <<buttons, holding, menu, link, charge, traveler, clock, holds>>

SurgeNext ==
  \/ Frame
  \/ \E arrives \in BOOLEAN : GameTick(arrives, FALSE, FALSE)
  \/ charge.phase # Idle /\ GameTick(TRUE, TRUE, FALSE)
  \/ charge.phase # Idle /\ GameTick(TRUE, FALSE, TRUE)
  \/ Fall \/ Clear \/ EnterNext \/ Leave \/ Return
  \/ Resync \/ Welcome
  \/ ToggleMenu \/ PauseArrives

SurgeSpec == SurgeInit /\ [][SurgeNext]_surgeVars

-----------------------------------------------------------------------------

\* "Charge ... stays held until release or cancellation": the release or cancel
\* of the episode, there in time for its tick, ends the hold.
CancelEnds ==
  [][LET action == NextAction.action
     IN /\ GameTick(TRUE, FALSE, FALSE) /\ link.stream = traveler.stream
        /\ action.kind \in {"Release", "Cancel"} /\ action.episode = charge.episode
        => charge'.phase.kind # "Charging"]_surgeVars

\* "The shared simulation saves [the charge] in complete and owner
\* checkpoints": what is saved passes ChargedMovement::valid.
ChargeSaved ==
  charge.begin # NoKey /\ traveler.active => charge.begin.generation = traveler.generation
=============================================================================
