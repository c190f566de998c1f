-------------------------- MODULE PredictionManager --------------------------
(***************************************************************************)
(* The history of one predicted group (engine/net/src/prediction/          *)
(* manager.rs, history.rs): frames, each the state after one tick with the *)
(* transition that led to it, and the operations on them.                  *)
(*                                                                         *)
(* A model steps a state by an input and a dependency sample.  The state   *)
(* here is the sequence of these transitions since tick 0, the finest      *)
(* state there is: two states are equal only if everything that led to     *)
(* them is.  A dependency sample is a number.  The recovery flag of a      *)
(* history is the caller's, since an operation that sets it also returns   *)
(* the reason as an error; only revoke_scope sets it silently, which is    *)
(* the field revoked.                                                      *)
(*                                                                         *)
(* Left out: the byte and entity-step budgets (one group of fixed size     *)
(* meets them exactly when it meets the tick budgets), the events of a     *)
(* frame (EventJournal), update_dependencies and replace_groups, which no  *)
(* part of the game calls (the second is in GroupTopology), and validation *)
(* of decoded data.                                                        *)
(***************************************************************************)
EXTENDS Integers, Sequences, Functions, TLC
LOCAL INSTANCE FiniteSetsExt

CONSTANTS
  HistoryTicks,      \* PredictionLimits.history_ticks
  ReplayTicks,       \* PredictionLimits.replay_ticks_per_frame
  PredictionTicks    \* PredictionLimits.prediction_ticks_per_frame

\* PredictionManager::new refuses a zero limit.
ASSUME PredictionLimitsAssumption ==
  {HistoryTicks, ReplayTicks, PredictionTicks} \subseteq Nat \ {0}

\* The input of a frame: none for a checkpoint, 0 for ReplayInput::Substitute,
\* otherwise the sequence number of the command.
NoInput    == -1
Substitute == 0

\* step_input.
Step(state, input, deps) == Append(state, [input |-> input, deps |-> deps])

PredictedTick(h)  == Max(DOMAIN h.frames)
PredictedState(h) == h.frames[PredictedTick(h)].state
CheckpointKept(h) == h.checkpoint \in DOMAIN h.frames
CheckpointDependencies(h) == h.frames[h.checkpoint].deps

CheckpointFrame(p) == [input |-> NoInput, deps |-> p.deps, state |-> p.state]

\* initialize: p is a published group.
Initialized(p) ==
  [frames |-> p.tick :> CheckpointFrame(p), revision |-> p.revision,
   checkpoint |-> p.tick, revoked |-> FALSE]

\* One frame too few is kept.
MutantNewest(frames) ==
  Restrict(frames, {t \in DOMAIN frames : Max(DOMAIN frames) - t < HistoryTicks})

\* The frames are the ticks of an interval, so popping the first one until
\* history_ticks + 1 are left keeps the newest.
Newest(frames) ==
  Restrict(frames, {t \in DOMAIN frames : Max(DOMAIN frames) - t <= HistoryTicks})

\* predict_input at the tick after the predicted one.
Predicted(h, input, deps) ==
  LET next == [input |-> input, deps |-> deps,
               state |-> Step(PredictedState(h), input, deps)]
  IN [h EXCEPT !.frames = Newest((PredictedTick(h) + 1) :> next @@ @)]

\* revoke_scope, for a scope that is a member of the group or was sampled by
\* one of its frames.
Revoked(h) == [h EXCEPT !.revoked = TRUE]

-----------------------------------------------------------------------------
(* reconcile.  A publication's snapshot number grows with its tick, which   *)
(* stands for both.                                                         *)

Stale(h, p) ==
  \/ p.revision < h.revision
  \/ p.revision = h.revision /\ p.tick <= h.checkpoint
  \/ p.tick < h.checkpoint

ReplayCount(h, p) == PredictedTick(h) - p.tick


NeedsReplay(h, p) == h.frames[p.tick].state # p.state \/ h.frames[p.tick].deps # p.deps

HasInputs(h, ticks) == \A t \in ticks : t \in DOMAIN h.frames /\ h.frames[t].input # NoInput

\* The reason reconcile recovers for, in the order of its checks.
Failure(h, p) ==
  CASE h.revoked                      -> "DisclosureRevoked"
    [] Stale(h, p)                    -> "none"
    [] p.revision # h.revision        -> "IdentityChanged"
    [] p.tick > PredictedTick(h)      -> "CheckpointAhead"
    [] p.tick \notin DOMAIN h.frames  -> "MissingHistory"
    [] ~NeedsReplay(h, p)             -> "none"
    [] ReplayCount(h, p) > ReplayTicks -> "ReplayBudget"
    [] ~HasInputs(h, (p.tick + 1)..PredictedTick(h)) -> "MissingHistory"
    [] OTHER                          -> "none"

\* The states after p's, from the retained inputs and their pinned samples.
ReplayedStates(h, p) ==
  LET replayed[t \in p.tick..PredictedTick(h)] ==
        IF t = p.tick THEN p.state
        ELSE Step(replayed[t - 1], h.frames[t].input, h.frames[t].deps)
  IN replayed

\* The replay takes the newest sample for every tick.
MutantCorrected(h, p) ==
  LET states[t \in p.tick..PredictedTick(h)] ==
        IF t = p.tick THEN p.state ELSE Step(states[t - 1], h.frames[t].input, p.deps)
  IN [h EXCEPT !.checkpoint = p.tick,
               !.frames = [t \in p.tick..PredictedTick(h) |->
                             IF t = p.tick THEN CheckpointFrame(p)
                             ELSE [h.frames[t] EXCEPT !.state = states[t], !.deps = p.deps]]]

\* The history from p on; without a replay the later states are kept.
Corrected(h, p) ==
  LET states == IF NeedsReplay(h, p) THEN ReplayedStates(h, p)
                ELSE [t \in DOMAIN h.frames |-> h.frames[t].state]
  IN [h EXCEPT !.checkpoint = p.tick,
               !.frames = [t \in p.tick..PredictedTick(h) |->
                             IF t = p.tick THEN CheckpointFrame(p)
                             ELSE [h.frames[t] EXCEPT !.state = states[t]]]]
=============================================================================
