----------------------------- MODULE RemotePoses -----------------------------
(***************************************************************************)
(* How a client shows the actors it does not predict: the history of poses *)
(* and its playback cursor (engine/net/src/interpolation), the game's rules *)
(* over it (client network/presentation.rs), and what the session does to  *)
(* them when a state, an exit or a destruction arrives.                    *)
(*                                                                         *)
(* States may be lost, repeated and reordered: one once sent can arrive at *)
(* any later time, any number of times.  Exits and destructions go over    *)
(* the reliable ordered channel.  The pause of the game is learned from    *)
(* the owner group, whose publications may arrive late but are only ever   *)
(* replaced by newer ones.                                                 *)
(*                                                                         *)
(* Abstractions.  Time is in ticks.  A pose is a place and a motion        *)
(* revision (of a platform); what is interpolated between two poses is     *)
(* left out, since the policy never refuses, and so are the visual clocks. *)
(* One scene, one connection and no representation change.  Left out: the  *)
(* limits on known entities, total samples and bytes.                      *)
(***************************************************************************)
EXTENDS Integers, FiniteSets, Sequences, TLC
LOCAL INSTANCE FiniteSetsExt

CONSTANTS
  Indexes,         \* entity indexes
  Kinds,           \* of "enemy", "cover", "platform", "marker"
  Places,          \* positions
  Jump,            \* receive: a longer way in one step is a teleport (8 m)
  Delay,           \* Config.delay
  ExtrapolationCap,
  SamplesPerEntity,
  HistoryTicks,
  PauseHistory,    \* completed pauses that are kept (64)
  Crowded,         \* whether more scopes may end in one publication than
                   \* lifecycle sends (8 of each kind)
  MaxGeneration, MaxScope, MaxTick   \* bounds

PosesAssumption ==
  /\ {Delay, ExtrapolationCap, Jump} \subseteq Nat
  /\ SamplesPerEntity \in Nat \ {0, 1} /\ HistoryTicks \in Nat \ {0} /\ PauseHistory \in Nat
  /\ Crowded \in BOOLEAN

VARIABLES
  now,        \* the server's tick
  actors,     \* index -> the server's actor
  pausedAt,   \* tick -> whether the game was paused
  sent,       \* every state sent
  controls,   \* the exits and destructions on their way
  replicas,   \* index -> the client's record: generation, scope, closed,
              \*          destroyed and the state, if it holds one
  entities,   \* Session.entities
  global,     \* the tick of the newest global state decoded
  tracks,     \* index -> the pose history
  cohort,     \* RemotePoses.combat_entities
  clock,      \* the cursor and the newest estimate of the server's time
  pauses,     \* what RemotePoses knows of pauses
  unanswered  \* a state that the client holds was refused its receipt

posesVars == <<now, actors, pausedAt, sent, controls, replicas, entities, global, tracks,
               cohort, clock, pauses, unanswered>>

Never == -1
NoState == [tick |-> Never, kind |-> "none", place |-> 0, motion |-> 0, solid |-> FALSE]
NoReplica == [generation |-> 0, scope |-> 0, closed |-> TRUE, destroyed |-> FALSE, state |-> NoState]
NoTrack == [generation |-> 0, scope |-> 0, segment |-> 0, retired |-> TRUE, samples |-> << >>]

Entity(i, r) == <<i, r.generation>>
Holds(r) == r.state # NoState

-----------------------------------------------------------------------------
(* Pauses.                                                                  *)

\* set_paused: a change is dated by the global state that shows it.
SetPaused(p, paused, at) ==
  CASE paused /\ ~p.on -> [p EXCEPT !.on = TRUE, !.started = at]
    [] ~paused /\ p.on ->
         LET all == Append(p.history, <<p.started, IF at > p.started THEN at ELSE p.started>>)
         IN IF Len(all) > PauseHistory
            THEN [on |-> FALSE, started |-> Never, history |-> Tail(all),
                  retired |-> p.retired + all[1][2] - all[1][1]]
            ELSE [p EXCEPT !.on = FALSE, !.started = Never, !.history = all]
    [] OTHER -> p

Since(start, t) == IF t > start THEN t - start ELSE 0

\* paused_elapsed_at.
PausedElapsedAt(p, t) ==
  LET completed[n \in 0..Len(p.history)] ==
        IF n = 0 THEN p.retired
        ELSE completed[n - 1] + Since(p.history[n][1], Min({t, p.history[n][2]}))
  IN completed[Len(p.history)] + (IF p.started = Never THEN 0 ELSE Since(p.started, t))

-----------------------------------------------------------------------------
(* RemoteBuffer.                                                            *)

Latest(t) == t.samples[Len(t.samples)]

SameIncarnation(t, r) == ~t.retired /\ t.generation = r.generation /\ t.scope = r.scope

\* newer_identity.
NewerIdentity(a, b) ==
  \/ a.generation > b.generation
  \/ (a.generation = b.generation /\ a.scope > b.scope)
  \/ a.generation = b.generation /\ a.scope = b.scope /\ a.segment > b.segment

SameIdentity(a, b) ==
  a.generation = b.generation /\ a.scope = b.scope /\ a.segment = b.segment

\* The samples with s among them: too old a sample changes nothing, and the
\* oldest make room.
Inserted(prior, s) ==
  LET newest == Max({s.tick} \cup {prior[n].tick : n \in DOMAIN prior})
      recent(x) == x.tick >= newest - HistoryTicks
      kept   == SelectSeq(prior, recent)
      before == SelectSeq(kept, LAMBDA x : x.tick < s.tick)
      after  == SelectSeq(kept, LAMBDA x : x.tick > s.tick)
      all    == before \o <<s>> \o after
  IN IF ~recent(s) \/ (Len(prior) = SamplesPerEntity /\ s.tick < prior[1].tick) THEN prior
     ELSE IF Len(all) > SamplesPerEntity THEN Tail(all) ELSE all

\* RemoteBuffer::receive, of sample s with identity id.
Received(t, id, s) ==
  LET changed == t.generation = 0 \/ ~SameIdentity(id, t)
      prior == IF changed THEN << >> ELSE t.samples
      twin == {n \in DOMAIN prior : prior[n].tick = s.tick}
  IN CASE t.generation # 0 /\ t.retired /\ id.generation = t.generation /\ id.scope <= t.scope
            -> [result |-> "Stale", track |-> t]
       [] t.generation # 0 /\ changed /\ ~NewerIdentity(id, t) -> [result |-> "Stale", track |-> t]
       [] twin # {} /\ \E n \in twin : prior[n] = s -> [result |-> "Duplicate", track |-> t]
       [] twin # {} /\ \A n \in twin : prior[n] # s -> [result |-> "Conflict", track |-> t]
       [] OTHER -> [result |-> "Inserted",
                    track |-> [generation |-> id.generation, scope |-> id.scope,
                               segment |-> id.segment, retired |-> FALSE,
                               samples |-> Inserted(prior, s)]]

\* RemoteBuffer::exit.
Retired(t) == [t EXCEPT !.retired = TRUE, !.samples = << >>]

\* RemoteBuffer::sample: the time of the pose that is shown.
PoseTime(t, at) ==
  CASE at < t.samples[1].tick -> t.samples[1].tick
    [] at <= Latest(t).tick -> at
    [] OTHER -> Latest(t).tick + Min({at - Latest(t).tick, ExtrapolationCap})

\* Mutant: the newest estimate is taken, older or not.
MutantAdvanced(c, estimate) == [estimate |-> estimate, at |-> Since(Delay, estimate)]

\* RemoteBuffer::advance.
Advanced(c, estimate) ==
  LET newest == Max({c.estimate, estimate})
  IN [estimate |-> newest, at |-> Max({c.at, Since(Delay, newest)})]

-----------------------------------------------------------------------------
(* RemotePoses.  A view is [tracks, cohort].                                *)

Distance(x, y) == IF x < y THEN y - x ELSE x - y

\* Mutant: a platform that starts another motion goes on in its segment.
MutantSegment(t, r) ==
  IF ~SameIncarnation(t, r) THEN 1
  ELSE IF r.state.tick > Latest(t).tick /\ Distance(r.state.place, Latest(t).place) > Jump
    THEN t.segment + 1
  ELSE t.segment

\* A jump or another motion starts a segment.
Segment(t, r) ==
  IF ~SameIncarnation(t, r) THEN 1
  ELSE IF /\ r.state.tick > Latest(t).tick
          /\ \/ Distance(r.state.place, Latest(t).place) > Jump
             \/ r.state.motion # Latest(t).motion
    THEN t.segment + 1
  ELSE t.segment

\* Rays meet enemies, and covers while they stand.
Collidable(s) == s.kind = "enemy" \/ (s.kind = "cover" /\ s.solid)

\* Older generations leave the cohort.
Joined(members, i, r) ==
  LET current == {e \in members : ~(e[1] = i /\ e[2] < r.generation)}
  IN IF Collidable(r.state) THEN current \cup {Entity(i, r)} ELSE current \ {Entity(i, r)}

\* remove.
Removed(view, e) ==
  LET t == view.tracks[e[1]]
  IN [tracks |-> IF ~t.retired /\ t.generation = e[2]
                 THEN [view.tracks EXCEPT ![e[1]] = Retired(t)] ELSE view.tracks,
      cohort |-> view.cohort \ {e}]

\* receive, of the state that replica r of index i holds.  An attachment has
\* no pose of its own.
Observed(view, i, r) ==
  LET t == view.tracks[i]
      id == [generation |-> r.generation, scope |-> r.scope, segment |-> Segment(t, r)]
      got == Received(t, id, [tick |-> r.state.tick, place |-> r.state.place,
                              motion |-> r.state.motion,
                              paused |-> PausedElapsedAt(pauses, r.state.tick)])
      ok == got.result \in {"Inserted", "Duplicate"}
  IN IF r.state.kind = "marker" THEN [ok |-> TRUE, tracks |-> view.tracks, cohort |-> view.cohort]
     ELSE [ok |-> ok, tracks |-> [view.tracks EXCEPT ![i] = got.track],
           cohort |-> IF ok /\ Latest(got.track).tick = r.state.tick
                      THEN Joined(view.cohort, i, r) ELSE view.cohort]

View == [tracks |-> tracks, cohort |-> cohort]

\* combat_view_time, or Never when the cohort is not shown at one time.
CombatViewTime ==
  LET times == {PoseTime(tracks[e[1]], clock.at) : e \in cohort}
  IN IF Cardinality(times) > 1 THEN Never
     ELSE IF times = {} THEN clock.at ELSE CHOOSE t \in times : TRUE

-----------------------------------------------------------------------------
(* The session.                                                             *)

\* ClientScopes::apply_full, as ClientScopes has it.
Obsolete(r, m) ==
  \/ m.generation < r.generation
  \/ m.generation = r.generation /\ (r.destroyed \/ m.scope < r.scope)
  \/ m.generation = r.generation /\ m.scope = r.scope
     /\ (r.closed \/ m.state.tick < r.state.tick)

\* remember_published_entity: older generations leave with their poses.
Remembered(view, older) == FoldSet(LAMBDA e, v : Removed(v, e), view, older)

\* receive_state, for a standalone state: published, shown, and answered with
\* a receipt, unless showing it fails.
ReceiveFull(m) ==
  LET i == m.index
      r == [generation |-> m.generation, scope |-> m.scope, closed |-> FALSE,
            destroyed |-> FALSE, state |-> m.state]
      view == Observed(View, i, r)
      older == {e \in entities : e[1] = i /\ e[2] < r.generation}
      shown == Remembered([tracks |-> view.tracks, cohort |-> view.cohort], older)
  IN /\ ~Obsolete(replicas[i], m)
     /\ replicas' = [replicas EXCEPT ![i] = r]
     /\ IF view.ok
        THEN /\ tracks' = shown.tracks /\ cohort' = shown.cohort
             /\ entities' = (entities \ older) \cup {Entity(i, r)}
             /\ UNCHANGED unanswered
        ELSE /\ tracks' = view.tracks /\ cohort' = view.cohort
             /\ unanswered' = TRUE
             /\ UNCHANGED entities
     /\ UNCHANGED <<now, actors, pausedAt, sent, controls, global, clock, pauses>>

\* receive_message: Exit, after which an entity that is no longer held is
\* forgotten, and Destroy.
ReceiveEnd ==
  LET m == Head(controls)
      i == m.index
      r == replicas[i]
      past == IF m.type = "Exit"
              THEN \/ m.generation < r.generation
                   \/ m.generation = r.generation /\ (m.scope < r.scope \/ r.destroyed)
              ELSE m.generation < r.generation
      ended == [generation |-> m.generation, scope |-> IF m.type = "Exit" THEN m.scope ELSE 1,
                closed |-> TRUE, destroyed |-> m.type = "Destroy", state |-> NoState]
      after == IF past THEN r ELSE ended
      gone == m.type = "Destroy" \/ ~(Holds(after) /\ after.generation = m.generation)
      view == IF gone THEN Removed(View, <<i, m.generation>>) ELSE View
  IN /\ controls # << >>
     /\ controls' = Tail(controls)
     /\ replicas' = [replicas EXCEPT ![i] = after]
     /\ tracks' = view.tracks /\ cohort' = view.cohort
     /\ entities' = IF gone THEN entities \ {<<i, m.generation>>} ELSE entities
     /\ UNCHANGED <<now, actors, pausedAt, sent, global, clock, pauses, unanswered>>

\* A newer owner group is published.
ReceiveGlobal(t) ==
  /\ t \in global + 1..now
  /\ global' = t
  /\ UNCHANGED <<now, actors, pausedAt, sent, controls, replicas, entities, tracks, cohort, clock, pauses,
                 unanswered>>

\* advance_presentation_clock, once a frame.  An estimate may be older than
\* the one before it.
Frame(estimate) ==
  /\ estimate \in 0..now
  /\ pauses' = IF global = Never THEN pauses ELSE SetPaused(pauses, pausedAt[global], global)
  /\ clock' = Advanced(clock, estimate)
  /\ UNCHANGED <<now, actors, pausedAt, sent, controls, replicas, entities, global, tracks, cohort,
                 unanswered>>

-----------------------------------------------------------------------------
(* The server.                                                              *)

Message(type, i, a, state) ==
  [type |-> type, index |-> i, generation |-> a.generation, scope |-> a.scope, state |-> state]

\* What an actor may be after a tick.  A scope that opens replaces the record
\* of the one before it, its unsent end included; a slot is taken over once
\* its actor is gone.
Changed(a) ==
  LET opened == [a EXCEPT !.open = TRUE, !.scope = @ + 1, !.ending = "none"]
      closed(end) == [a EXCEPT !.open = FALSE, !.ending = end, !.gone = end = "Destroy"]
  IN IF a.open
     THEN {a, closed("Exit"), closed("Destroy")}
          \cup {[a EXCEPT !.place = x] : x \in Places}
          \cup (IF a.kind = "cover" THEN {[a EXCEPT !.solid = ~@]} ELSE {})
          \cup (IF a.kind = "platform" THEN {[a EXCEPT !.motion = 1 - @]} ELSE {})
     ELSE IF a.scope = MaxScope THEN {}
     ELSE (IF a.gone THEN {} ELSE {opened})
          \cup (IF a.generation = MaxGeneration THEN {}
                ELSE {[opened EXCEPT !.generation = @ + 1, !.kind = k, !.gone = FALSE,
                                     !.motion = 0, !.solid = TRUE] : k \in Kinds})

StateOf(a, t) ==
  [tick |-> t, kind |-> a.kind, place |-> a.place, motion |-> a.motion, solid |-> a.solid]

\* lifecycle: the end of a scope is sent once, in the publication that ended
\* it or, behind others, in a later one.
Lifecycle(i, b) ==
  \/ /\ b.ending # "none"
     /\ controls' = Append(controls, Message(b.ending, i, b, NoState))
     /\ actors' = [actors EXCEPT ![i] = [b EXCEPT !.ending = "none"]]
  \/ /\ b.ending # "none" => Crowded
     /\ actors' = [actors EXCEPT ![i] = b]
     /\ UNCHANGED controls

\* One tick: the pause may change, and one actor changes, enters, leaves,
\* dies or takes a slot over, or is published again as it is.
ServerTick(i, paused) ==
  /\ now < MaxTick
  /\ now' = now + 1
  /\ pausedAt' = (now + 1 :> paused) @@ pausedAt
  /\ \E b \in Changed(actors[i]) :
       /\ Lifecycle(i, b)
       /\ sent' = IF b.open THEN sent \cup {Message("Full", i, b, StateOf(b, now + 1))} ELSE sent
  /\ UNCHANGED <<replicas, entities, global, tracks, cohort, clock, pauses, unanswered>>

PosesInit ==
  /\ now = 0
  /\ actors = [i \in Indexes |->
                 [generation |-> 0, scope |-> 0, open |-> FALSE, gone |-> TRUE,
                  ending |-> "none", kind |-> "none",
                  place |-> CHOOSE x \in Places : \A y \in Places : x <= y,
                  motion |-> 0, solid |-> TRUE]]
  /\ pausedAt = (0 :> FALSE)
  /\ sent = {}
  /\ controls = << >>
  /\ replicas = [i \in Indexes |-> NoReplica]
  /\ entities = {}
  /\ global = Never
  /\ tracks = [i \in Indexes |-> NoTrack]
  /\ cohort = {}
  /\ clock = [estimate |-> 0, at |-> 0]
  /\ pauses = [on |-> FALSE, started |-> Never, history |-> << >>, retired |-> 0]
  /\ unanswered = FALSE

PosesNext ==
  \/ \E i \in Indexes, paused \in BOOLEAN : ServerTick(i, paused)
  \/ \E m \in sent : ReceiveFull(m)
  \/ ReceiveEnd
  \/ \E t \in 0..MaxTick : ReceiveGlobal(t) \/ Frame(t)

PosesSpec == PosesInit /\ [][PosesNext]_posesVars

-----------------------------------------------------------------------------
\* What is shown is what is held: every actor the client holds, attachments
\* apart, has a live pose history of its own scope that ends with the held
\* state, and nothing else has; no two neighbours of a history lie on both
\* sides of a teleport or of a change of motion; and the combat cohort is the
\* held enemies and standing covers, so that a combat view time is the time at
\* which every one of them is shown, whatever order generations, exits and
\* destructions arrive in.
PosesFollow ==
  /\ \A i \in Indexes :
       LET r == replicas[i]
           t == tracks[i]
       IN /\ ~t.retired <=> Holds(r) /\ r.state.kind # "marker"
          /\ ~t.retired => /\ t.generation = r.generation /\ t.scope = r.scope
                           /\ Latest(t).tick = r.state.tick /\ Latest(t).place = r.state.place
          /\ \A n \in 1..Len(t.samples) - 1 :
               /\ Distance(t.samples[n].place, t.samples[n + 1].place) <= Jump
               /\ t.samples[n].motion = t.samples[n + 1].motion
  /\ cohort = {Entity(i, replicas[i]) : i \in {j \in Indexes : Holds(replicas[j])
                                                              /\ Collidable(replicas[j].state)}}
  /\ CombatViewTime # Never =>
       \A e \in cohort : PoseTime(tracks[e[1]], clock.at) = CombatViewTime

\* An actor never moves back in time on the screen: the time of the pose shown
\* for one identity only grows, through reordered clock estimates, samples that
\* arrive while it is extrapolated, and samples that drop out of the history.
TimeNeverReverses ==
  [][\A i \in Indexes :
       /\ ~tracks[i].retired /\ ~tracks'[i].retired
       /\ SameIdentity(tracks[i], tracks'[i])
       => PoseTime(tracks[i], clock.at) <= PoseTime(tracks'[i], clock'.at)]_posesVars

\* network/mod.rs: presentation must follow the actual scope fence.  A pose is
\* shown, and counts for the combat view, only while its scope is held.
PresentationFollowsFence ==
  \A i \in Indexes : ~tracks[i].retired => SameIncarnation(tracks[i], replicas[i])

\* interpolation/mod.rs: samples are renderer-only and never become
\* authoritative replication receipts.  A state that the client holds is
\* answered with its receipt whatever the renderer makes of it.
RenderingKeepsReceipts == ~unanswered
=============================================================================
