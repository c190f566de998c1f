---------------------------- MODULE CombatViews ----------------------------
(***************************************************************************)
(* The view of a shot: which poses of the past an aimed action is tested   *)
(* against.  A client stamps the action with the time E it was sampled at, *)
(* the time R of the remote poses on its screen and a state it has         *)
(* decoded; the authority keeps its own evidence (server/src/authority/    *)
(* combat.rs: the states it sent, the first arrival of a command, the      *)
(* gameplay tick of every server tick), bounds the view with it (engine/   *)
(* net/src/combat_timing.rs) and reads the poses of that instant from the  *)
(* history of the simulation (engine/core combat/history, simulation       *)
(* combat_history.rs).                                                     *)
(*                                                                         *)
(* Times are in parts of a tick: Parts stands for the 65,536 of the code.  *)
(* One hero shoots; an enemy is a new identity each time it is born.  A    *)
(* pose is its lifecycle and a place.  A gameplay tick captures the poses  *)
(* after everything has moved and before damage; a kill therefore shows in *)
(* the next frame.  A restart begins an epoch with a new simulation and    *)
(* new streams.  The geometry of a ray, the query budgets (the game gives  *)
(* each batch one for all its poses) and the scene revision, which a match *)
(* keeps, are left out; what becomes of the hit is CombatStep's.           *)
(***************************************************************************)
EXTENDS Integers, Sequences, FiniteSets
LOCAL INSTANCE FiniteSetsExt

CONSTANTS
  Parts,             \* fractions of a tick
  SampleAge,         \* TimingPolicy.maximum_sample_age, in ticks like the next five
  FutureSample,      \* maximum_future_sample
  ExecutionLead,     \* maximum_execution_lead, and the ticks a command may be early
  PresentationAge,   \* maximum_presentation_age
  MaxRewind,         \* maximum_rewind, and the simulation's own cap
  ReferenceAdvance,  \* maximum_reference_advance
  ReferenceLimit,    \* REFERENCE_LIMIT
  ClockLimit,        \* CLOCK_LIMIT
  PoseFrames,        \* COMBAT_HISTORY_TICKS
  MaxBeat,           \* bound on server ticks
  MaxEvents          \* bound on what happens to the actors and the run

ViewsAssumption ==
  /\ {Parts, ReferenceLimit, ClockLimit, PoseFrames, MaxBeat} \subseteq Nat \ {0}
  /\ {SampleAge, FutureSample, ExecutionLead, PresentationAge, MaxRewind,
      ReferenceAdvance, MaxEvents} \subseteq Nat

VARIABLES
  beat,      \* the committed server tick
  epoch,     \* the match epoch
  played,    \* the gameplay tick, which stands still while the run is paused
  poses,     \* actor -> pose
  timeline,  \* GameplayClock.entries
  prepared,  \* HitHistory.frames
  archive,   \* CombatArchive.frames: their ticks
  evidence,  \* PeerCombat.references
  shot,      \* the one aimed command
  truth,     \* every server tick of this behaviour -> its epoch and captured poses
  events     \* what has happened to the actors and the run so far

viewVars == <<beat, epoch, played, poses, timeline, prepared, archive, evidence,
              shot, truth, events>>

Shooter == 1
NoShot  == [stage |-> "none"]
Spawn   == [generation |-> 1, segment |-> 1, place |-> 0]

\* The actors a ray may hit (ray_target), with their poses.
Foes(frame) == [a \in DOMAIN frame \ {Shooter} |-> frame[a]]

Lifecycle(pose) == <<pose.generation, pose.segment>>

ViewsInit ==
  /\ beat = 1 /\ epoch = 1 /\ played = 0 /\ events = 0
  /\ poses = [a \in {Shooter, 2} |-> Spawn]
  /\ timeline = <<[epoch |-> 1, server |-> 1, gameplay |-> 0]>>
  /\ prepared = <<>> /\ archive = <<>>
  /\ evidence = <<>>
  /\ shot = NoShot
  /\ truth = [t \in {1} |-> [epoch |-> 1, poses |-> <<>>]]

-----------------------------------------------------------------------------
(* The authority's evidence.                                                *)

Recent(seq, limit) == SubSeq(seq, IF Len(seq) > limit THEN Len(seq) - limit + 1 ELSE 1, Len(seq))

\* PeerCombat::sent, for the owner state of tick t; a state is its tick.
Sent(refs, t) == Recent(Append(refs, [state |-> t, sent |-> t, decoded |-> FALSE]), ReferenceLimit)

\* PeerCombat::decoded.
Decoded(refs, state) ==
  [i \in DOMAIN refs |-> IF refs[i].state = state THEN [refs[i] EXCEPT !.decoded = TRUE] ELSE refs[i]]

\* GameplayClock::record.
Recorded(entries, e, t, g) ==
  LET kept == IF entries # <<>> /\ entries[Len(entries)].epoch # e THEN <<>> ELSE entries
  IN Recent(Append(kept, [epoch |-> e, server |-> t, gameplay |-> g]), ClockLimit)

\* GameplayClock::at: -1 is None.
At(entries, e, t) ==
  LET found == {i \in DOMAIN entries : entries[i].epoch = e /\ entries[i].server = t}
  IN IF found = {} THEN -1 ELSE entries[Min(found)].gameplay

\* GameplayClock::bounds, as the server ticks of this epoch's entries.
Known(entries, e) ==
  IF entries # <<>> /\ entries[1].epoch = e /\ entries[Len(entries)].epoch = e
  THEN entries[1].server..entries[Len(entries)].server ELSE {}

\* validate_view: the views the policy and the evidence allow, {} when the
\* request is refused for another reason.
Allowable(ref, s, execution, known) ==
  LET lower == Max({s.sampled - PresentationAge * Parts, (execution - MaxRewind) * Parts,
                    ref.state * Parts, Min(known) * Parts})
      upper == Min({s.sampled, execution * Parts, (ref.state + ReferenceAdvance) * Parts,
                    Max(known) * Parts})
  IN IF /\ s.sampled \in (s.arrival - SampleAge) * Parts..(s.arrival + FutureSample) * Parts
        /\ execution * Parts - s.sampled \in 0..ExecutionLead * Parts
        /\ ref.sent <= s.arrival
     THEN lower..upper ELSE {}

\* A pause does not end the fraction of the view.
MutantFractionOf(g, next, fraction) == fraction

\* The fraction between two gameplay ticks; -1 when they are not adjacent.
FractionOf(g, next, fraction) ==
  CASE fraction = 0 \/ next = g -> 0
    [] next = g + 1             -> fraction
    [] OTHER                    -> -1

\* PeerCombat::validate: the gameplay tick and the fraction to look at.
Refused == [gameplay |-> -1, fraction |-> 0]
Validated(s, execution) ==
  LET refs  == {i \in DOMAIN evidence : evidence[i].state = s.reference /\ evidence[i].decoded}
      known == Known(timeline, epoch)
      query == s.viewed \div Parts
      g     == At(timeline, epoch, query)
      next  == IF s.viewed % Parts = 0 THEN g ELSE At(timeline, epoch, query + 1)
      f     == FractionOf(g, next, s.viewed % Parts)
  IN IF \/ refs = {} \/ known = {}
        \/ s.viewed \notin Allowable(evidence[Min(refs)], s, execution, known)
        \/ g < 0 \/ next < 0 \/ f < 0
     THEN Refused ELSE [gameplay |-> g, fraction |-> f]

-----------------------------------------------------------------------------
(* The pose history.  Every capture is of the next gameplay tick.           *)

\* HitHistory::capture; the archive drops its first frame when it is full.
Captured(frames, tick, frame) == Recent(Append(frames, [tick |-> tick, poses |-> frame]), PoseFrames)
Archived(ticks, tick) ==
  Append(IF Len(ticks) = PoseFrames THEN Tail(ticks) ELSE ticks, tick)

\* HitHistory::frame: the poses of a tick in a sequence of none or one.
FrameAt(frames, tick) ==
  LET found == SelectSeq(frames, LAMBDA frame : frame.tick = tick)
  IN IF found = <<>> THEN <<>> ELSE <<found[1].poses>>

\* sample_pose of the shooter, between the two newest frames: the muzzle.
Muzzle(frames, tick, fraction, body) ==
  LET ends == {tick - 1} \cup (IF fraction = 0 THEN {} ELSE {tick})
  IN \A t \in ends : /\ FrameAt(frames, t) # <<>>
                     /\ Shooter \in DOMAIN FrameAt(frames, t)[1]
                     /\ Lifecycle(FrameAt(frames, t)[1][Shooter]) = Lifecycle(body)

\* Only the earlier endpoint is asked who was there.
MutantContinuous(left, right) ==
  \A a \in DOMAIN left : a \in DOMAIN right /\ Lifecycle(left[a]) = Lifecycle(right[a])

\* sample_frame: births, removals and changed lifecycles reject the sample.
Continuous(left, right) ==
  /\ DOMAIN left = DOMAIN right
  /\ \A a \in DOMAIN left : Lifecycle(left[a]) = Lifecycle(right[a])

\* ray_actions up to the geometry: what the ray of a validated view is tested
\* against, at gameplay tick now.
Answer(v, s, frames, now, body) ==
  LET left  == FrameAt(frames, v.gameplay)
      right == IF v.fraction = 0 THEN left ELSE FrameAt(frames, v.gameplay + 1)
      Rejected(reason) == [s EXCEPT !.stage = reason]
  IN CASE v.gameplay > now \/ now - v.gameplay > MaxRewind -> Rejected("MissingHistory")
       [] ~Muzzle(frames, now, s.sampled % Parts, body)    -> Rejected("NoMuzzle")
       [] left = <<>> \/ right = <<>>                      -> Rejected("MissingHistory")
       [] ~Continuous(Foes(left[1]), Foes(right[1]))       -> Rejected("WrongLifecycle")
       [] OTHER -> [s EXCEPT !.stage = "tested", !.left = Foes(left[1]), !.right = Foes(right[1])]

-----------------------------------------------------------------------------
(* The shot.                                                                *)

\* The client aims and sends: the capture of the stamp at the hardware edge and
\* the command it is put in.  Its estimate of the time may be a tick off.
Fire(sampled, viewed, reference, target) ==
  /\ shot = NoShot
  /\ viewed <= sampled
  /\ shot' = [stage |-> "sent", sampled |-> sampled, viewed |-> viewed, reference |-> reference,
              target |-> target, arrival |-> 0, left |-> <<>>, right |-> <<>>]
  /\ UNCHANGED <<beat, epoch, played, poses, timeline, prepared, archive, evidence, truth, events>>

\* A bundle with the command: PeerCombat::admit keeps the first arrival of a
\* command that is still to be executed, so a redundant delivery changes nothing.
Arrive ==
  /\ shot.stage = "sent"
  /\ shot' = IF shot.target > beat THEN [shot EXCEPT !.stage = "admitted", !.arrival = beat]
             ELSE [shot EXCEPT !.stage = "late"]
  /\ UNCHANGED <<beat, epoch, played, poses, timeline, prepared, archive, evidence, truth, events>>

\* The client's receipt for an owner state.  Only the state the shot names
\* matters, and that its receipt comes before the shot is executed or not.
Acknowledge(state) ==
  /\ shot # NoShot /\ state = shot.reference
  /\ \E i \in DOMAIN evidence : evidence[i].state = state /\ ~evidence[i].decoded
  /\ evidence' = Decoded(evidence, state)
  /\ UNCHANGED <<beat, epoch, played, poses, timeline, prepared, archive, shot, truth, events>>

-----------------------------------------------------------------------------
(* The server tick.                                                         *)

\* The behaviours of interest end with the answer to the shot.
Open == shot.stage \in {"none", "sent", "admitted"}

\* What moves before the capture of a gameplay tick: everybody stands still, an
\* enemy walks, an enemy or the hero blinks, the hero is raised, an enemy is born.
Moves == {"still", "walk", "blink", "heroBlink", "rise", "birth"}

Moved(move) ==
  LET Blinked(p) == [p EXCEPT !.segment = @ + 1, !.place = 1 - @]
      foes == DOMAIN poses \ {Shooter}
      newest == Max(DOMAIN poses)
  IN CASE move = "walk" -> [a \in DOMAIN poses |-> IF a \in foes THEN [poses[a] EXCEPT !.place = 1 - @]
                                                  ELSE poses[a]]
       [] move = "blink" -> [a \in DOMAIN poses |-> IF a \in foes THEN Blinked(poses[a]) ELSE poses[a]]
       [] move = "heroBlink" -> [poses EXCEPT ![Shooter] = Blinked(@)]
       [] move = "rise" -> [poses EXCEPT ![Shooter].generation = @ + 1, ![Shooter].segment = @ + 1]
       [] move = "birth" -> [a \in DOMAIN poses \cup {newest + 1} |->
                               IF a \in DOMAIN poses THEN poses[a] ELSE Spawn]
       [] OTHER -> poses

\* The shot at the tick it is for, once the frame of the tick is captured; a
\* view the timing refuses does not reach the simulation.
Executed(running, frames, now, body) ==
  IF shot.stage # "admitted" \/ shot.target # beat + 1 THEN shot
  ELSE LET v == Validated(shot, beat + 1)
       IN CASE v = Refused -> [shot EXCEPT !.stage = "timing"]
            [] ~running    -> [shot EXCEPT !.stage = "inactive"]
            [] OTHER       -> Answer(v, shot, frames, now, body)

\* step_committed in a run that is on: the gameplay tick, the capture, the shot,
\* what dies of the tick, the clock, and the publication of the owner state
\* unless the link has no room for it.
Advance(move, dies, published) ==
  LET moved  == Moved(move)
      frames == Captured(prepared, played + 1, moved)
      foes   == DOMAIN moved \ {Shooter}
  IN /\ Open /\ beat < MaxBeat
     /\ dies => foes # {}
     /\ events' = events + Cardinality({<<1, move>>, <<2, dies>>, <<3, published>>}
                                        \ {<<1, "still">>, <<2, FALSE>>, <<3, TRUE>>})
     /\ events' <= MaxEvents
     /\ beat' = beat + 1
     /\ played' = played + 1
     /\ prepared' = frames
     /\ archive' = Archived(archive, played + 1)
     /\ shot' = Executed(TRUE, frames, played + 1, moved[Shooter])
     /\ poses' = IF dies THEN [a \in DOMAIN moved \ {Min(foes)} |-> moved[a]] ELSE moved
     /\ timeline' = Recorded(timeline, epoch, beat + 1, played + 1)
     /\ truth' = [t \in DOMAIN truth \cup {beat + 1} |->
                    IF t \in DOMAIN truth THEN truth[t] ELSE [epoch |-> epoch, poses |-> moved]]
     /\ evidence' = IF published THEN Sent(evidence, beat + 1) ELSE evidence
     /\ UNCHANGED epoch

\* step_committed while the run is paused or between rooms.
Rest ==
  /\ Open /\ beat < MaxBeat /\ events < MaxEvents
  /\ events' = events + 1
  /\ beat' = beat + 1
  /\ shot' = Executed(FALSE, prepared, played, poses[Shooter])
  /\ timeline' = Recorded(timeline, epoch, beat + 1, played)
  /\ truth' = [t \in DOMAIN truth \cup {beat + 1} |-> IF t \in DOMAIN truth THEN truth[t] ELSE truth[beat]]
  /\ evidence' = Sent(evidence, beat + 1)
  /\ UNCHANGED <<epoch, played, poses, prepared, archive>>

\* step_committed with a restart: a new simulation, and new streams whose
\* peers have sent nothing yet.
Restart ==
  /\ Open /\ beat < MaxBeat /\ events < MaxEvents
  /\ events' = events + 1
  /\ beat' = beat + 1 /\ epoch' = epoch + 1 /\ played' = 0
  /\ poses' = [a \in {Shooter, 2} |-> Spawn]
  /\ prepared' = <<>> /\ archive' = <<>> /\ evidence' = <<>>
  /\ shot' = NoShot
  /\ timeline' = Recorded(timeline, epoch + 1, beat + 1, 0)
  /\ truth' = [t \in DOMAIN truth \cup {beat + 1} |->
                 IF t \in DOMAIN truth THEN truth[t] ELSE [epoch |-> epoch + 1, poses |-> <<>>]]

\* Only stamps near the current time: older ones are refused like the oldest.
Stamps ==
  LET now == beat * Parts
  IN [sampled : {now - Parts, now, now + 1}, viewed : (now - (MaxRewind + 1) * Parts)..(now + 1)]

ViewsNext ==
  \/ \E stamp \in Stamps, i \in DOMAIN evidence, target \in (beat + 1)..(beat + ExecutionLead) :
       Fire(stamp.sampled, stamp.viewed, evidence[i].state, target)
  \/ Arrive
  \/ \E i \in DOMAIN evidence : Acknowledge(evidence[i].state)
  \/ \E move \in Moves, dies \in BOOLEAN, published \in BOOLEAN : Advance(move, dies, published)
  \/ Rest \/ Restart

ViewsSpec == ViewsInit /\ [][ViewsNext]_viewVars

-----------------------------------------------------------------------------
\* A shot is tested against exactly the poses of the instant on the shooter's
\* screen: the poses the server captured at the viewed tick and, between two
\* ticks, at the next one, in the shooter's epoch; nothing is born, removed,
\* teleported or raised between the two; the view is no older than the rewind
\* limit and no older than the state the shooter had decoded.  Pauses, evictions
\* and restarts in between only ever refuse it.  (PeerCombat::validate,
\* validate_view, sample_frame)
RewindExact ==
  LET at == shot.viewed \div Parts
  IN shot.stage = "tested" =>
       /\ at \in DOMAIN truth /\ truth[at].epoch = epoch
       /\ shot.left = Foes(truth[at].poses)
       /\ shot.viewed % Parts # 0 => shot.right = Foes(truth[at + 1].poses)
       /\ {<<a, Lifecycle(shot.left[a])>> : a \in DOMAIN shot.left} =
          {<<a, Lifecycle(shot.right[a])>> : a \in DOMAIN shot.right}
       /\ shot.target * Parts - shot.viewed <= MaxRewind * Parts
       /\ shot.viewed >= shot.reference * Parts
       /\ [i \in DOMAIN prepared |-> prepared[i].tick] = archive
=============================================================================
