-------------------------- MODULE PredictedSession ---------------------------
(***************************************************************************)
(* An active client session predicting its own hero ahead of the server    *)
(* (client plugins/network/session.rs, mod.rs; engine synchronization.rs,  *)
(* prediction/).  The client authors a command for a tick the server has   *)
(* not reached, steps its own copy of the state with it, and when the      *)
(* server's state of an older tick arrives rebases its copy on that state. *)
(*                                                                         *)
(* Commit is a tick of the server, Poll a rendered frame's receive pass    *)
(* with its reconciliation, Generate one fixed update.  Commands travel    *)
(* unreliably: whether the one for a tick came in time is decided when the *)
(* tick runs (what the inbox then does is CommandInbox).  Finalization and *)
(* state travel on lanes of their own and reach the client in any order.   *)
(*                                                                         *)
(* Abstractions: the clock estimate is any tick between the committed one  *)
(* and the ceiling CommittedClock gives it; arrival feedback moves the     *)
(* lead by one step either way or not at all; a topology revision has one  *)
(* base of its own that no later one has, and the sample is the value of   *)
(* the dependencies whatever the topology.  The model ends where the       *)
(* session asks for resynchronization (recovery).                          *)
(***************************************************************************)
EXTENDS PredictionManager, SequencesExt, FiniteSets

CONSTANTS
  InitialLead,    \* the lead of a new LeadController
  MaxLead,        \* its largest lead
  TargetJump,     \* largest step between two command targets
  AdoptTicks,     \* largest distance a checkpoint may be ahead of prediction
  PendingLimit,   \* largest number of commands awaiting finalization
  MaxTick,        \* bound: the last tick the server runs
  MaxSample,      \* bound: dependency samples of the server's world
  MaxRevision     \* bound: topologies of the owner group

ASSUME SessionAssumption ==
  /\ {InitialLead, MaxLead, TargetJump, AdoptTicks, PendingLimit} \subseteq Nat \ {0}
  /\ {MaxTick, MaxSample, MaxRevision} \subseteq Nat \ {0}
  /\ ReplayTicks <= PredictionTicks
  /\ InitialLead <= MaxLead /\ MaxLead <= ReplayTicks

VARIABLES
  ran,        \* server: the transition of every tick, which is also its state
  topology,   \* server: the group revision published at each tick
  group,      \* client: tick of the newest published group it holds
  finalized,  \* client: Session.finalized
  committed,  \* client: CommittedClock.committed
  history,    \* client: the predictor's group
  predicted,  \* client: PredictionWork.predicted_ticks of this frame
  lead,       \* client: LeadController.lead
  leadFault,  \* client: LeadController.resync is set
  lastTarget, \* client: LeadController.last_target, 0 for None
  sequence,   \* client: last command sequence
  pending,    \* client: targets of the commands kept for retry
  issued,     \* history: the command authored for a target
  exited,     \* client: topologies whose base has exited
  recovery    \* client: why the session asked for a resync, or "none"

server == <<ran, topology>>
intent == <<lastTarget, sequence, issued>>
vars   == <<server, group, finalized, committed, history, predicted, lead, leadFault,
            intent, pending, exited, recovery>>

\* The sample and the topology of the server's world after a tick.
SampleAt(tick)   == IF tick = 0 THEN 1 ELSE ran[tick].deps
RevisionAt(tick) == IF tick = 0 THEN 1 ELSE topology[tick]
Now == Len(ran)

Publication(tick) ==
  [tick |-> tick, state |-> SubSeq(ran, 1, tick),
   deps |-> SampleAt(tick), revision |-> RevisionAt(tick)]

\* A session whose first checkpoint was acknowledged and that has authored
\* nothing.  Tick 0 is the tick of that checkpoint.
Init ==
  /\ ran = <<>> /\ topology = <<>>
  /\ group = 0 /\ finalized = 0 /\ committed = 0
  /\ history = Initialized(Publication(0))
  /\ predicted = 0
  /\ lead = InitialLead /\ leadFault = FALSE /\ lastTarget = 0
  /\ sequence = 0 /\ pending = {} /\ issued = <<>> /\ exited = {}
  /\ recovery = "none"

Running == recovery = "none"

\* maximum_ahead of the CommittedClock.
MaxAhead == ReplayTicks

-----------------------------------------------------------------------------
(* The server.                                                              *)

\* The tick runs the command admitted for it, or a substitute.
InputAt(tick, arrived) ==
  IF arrived /\ tick \in DOMAIN issued THEN issued[tick] ELSE Substitute

Commit(arrived, sample, revision) ==
  /\ Running /\ Now < MaxTick
  /\ arrived => Now + 1 \in DOMAIN issued
  /\ sample >= SampleAt(Now) /\ revision >= RevisionAt(Now)
  /\ ran' = Step(ran, InputAt(Now + 1, arrived), sample)
  /\ topology' = Append(topology, revision)
  /\ UNCHANGED <<group, finalized, committed, history, predicted, lead, leadFault,
                 intent, pending, exited, recovery>>

-----------------------------------------------------------------------------
(* Reconciliation of the newest group p with the predictor's history h.      *)

\* No replayable transition exists before the first command.
Unstarted(h) == sequence = 0 /\ h.frames[PredictedTick(h)].input = NoInput

Kept(h) == history' = h /\ predicted' = 0 /\ UNCHANGED recovery

Failed(h, reason) == history' = h /\ predicted' = 0 /\ recovery' = reason

\* replace_topology's refusals.
TopologyFailure(h, p) ==
  LET ahead == p.tick - PredictedTick(h)
  IN CASE ahead < -ReplayTicks                 -> "ReplayBudget"
       [] ahead > AdoptTicks /\ ~Unstarted(h)  -> "CheckpointAhead"
       [] ~HasInputs(h, (p.tick + 1)..PredictedTick(h)) -> "MissingHistory"
       [] OTHER                                -> "none"

\* The retained inputs over the new topology, all with the sample of p.
Rebuilt(h, p) ==
  LET inputs == [i \in 1..ReplayCount(h, p) |-> h.frames[p.tick + i].input]
  IN FoldLeft(LAMBDA next, input : Predicted(next, input, p.deps), Initialized(p), inputs)

ReplaceTopology(h, p) ==
  /\ p.revision > h.revision
  /\ \E failure \in {TopologyFailure(h, p)} :
       \/ failure # "none" /\ Failed(h, failure)
       \/ /\ failure = "none"
          /\ history' = Rebuilt(h, p)
          /\ predicted' = Cardinality(1..ReplayCount(h, p))
          /\ UNCHANGED recovery

\* The server got ahead of the prediction by a little, or nothing was predicted.
Adoptable(h, p) ==
  /\ p.revision = h.revision
  /\ p.tick > PredictedTick(h)
  /\ p.tick - PredictedTick(h) <= AdoptTicks \/ Unstarted(h)

Adopt(h, p) == Adoptable(h, p) /\ Kept(Initialized(p))

Correct(h, p) ==
  /\ p.revision <= h.revision /\ ~Adoptable(h, p)
  /\ \E failure \in {Failure(h, p)} :
       \/ failure # "none" /\ Failed(h, failure)
       \/ failure = "none" /\ Stale(h, p) /\ Kept(h)
       \/ failure = "none" /\ ~Stale(h, p) /\ Kept(Corrected(h, p))

\* An exited member does not end the publication.
MutantWaits(p, through) == p.tick > through

\* A checkpoint of the finalized tick itself waits.
MutantWaitsAtFinalized(p, through) == p.tick >= through \/ p.revision \in exited'

\* A checkpoint waits for the proof that its commands are final.  A group of
\* which a member has exited is no publication any more.
Waits(p, through) == p.tick > through \/ p.revision \in exited'

Reconcile(h, p, through) ==
  \/ Waits(p, through) /\ Kept(h)
  \/ ~Waits(p, through) /\ (ReplaceTopology(h, p) \/ Adopt(h, p) \/ Correct(h, p))

-----------------------------------------------------------------------------
(* The client's frame.                                                      *)

\* observe_arrival_slack fails at the largest lead and ever after.
SlackFault(slack) == slack = "late" /\ (leadFault \/ lead = MaxLead)

ObserveSlack(slack) ==
  /\ slack = "early" => lead > 1 /\ ~leadFault
  /\ lead' = CASE slack = "late" /\ ~SlackFault(slack) -> lead + 1
               [] slack = "early"                      -> lead - 1
               [] OTHER                                -> lead
  /\ leadFault' = (leadFault \/ SlackFault(slack))

\* Feedback on the arrival of commands: late, early enough to lower the lead, or
\* nothing to learn.  A fault leaves the message's remaining work undone: the
\* retry queue keeps finalized commands.
Feedback(slack, through) ==
  /\ slack # "none" => sequence > 0
  /\ ObserveSlack(slack)
  /\ pending' = IF SlackFault(slack) THEN pending ELSE {t \in pending : t > through}

Finalize(through, slack) ==
  \/ through = finalized /\ slack = "none" /\ UNCHANGED <<lead, leadFault, pending>>
  \/ through > finalized /\ Feedback(slack, through)

\* Exit or Destroy of the bases of topologies the server has moved on from.
Left == 1..(RevisionAt(Now) - 1)

\* The history after these exits, and that of an actor which a predicted frame
\* may have taken as target.
AfterExits(bases, target) ==
  IF target \/ history.revision \in bases THEN Revoked(history) ELSE history

\* poll_network: begin_frame, the control lane, groups, then reconcile.  A group
\* with a member whose scope has exited is refused.  A group, a finalization and
\* a clock reply each prove a tick committed; progress is the newest proof.
Poll(tick, through, progress, slack, bases, target) ==
  /\ Running
  /\ target => /\ ~history.revoked /\ history.revision \notin bases
               /\ \E t \in DOMAIN history.frames : history.frames[t].input # NoInput
  /\ exited' = exited \cup bases
  /\ tick > group => RevisionAt(tick) \notin exited'
  /\ {tick, through} \subseteq 0..progress
  /\ group' = tick /\ finalized' = through /\ committed' = progress
  /\ Finalize(through, slack)
  /\ \E h \in {AfterExits(bases, target)}, p \in {Publication(tick)} : Reconcile(h, p, through)
  /\ UNCHANGED <<server, intent>>

-----------------------------------------------------------------------------
(* generate_commands.                                                       *)

Remaining == IF history.revoked \/ predicted > PredictionTicks THEN 0
             ELSE PredictionTicks - predicted

\* One tick of the loop: a substitute before the head of a forecast gap, a
\* command otherwise.  New frames take the sample of the last checkpoint.
Author(work, tick, authors) ==
  LET next == IF authors THEN work.sequence + 1 ELSE work.sequence
  IN IF work.failure # "none" THEN work
     ELSE IF ~CheckpointKept(work.history)
       THEN [work EXCEPT !.sequence = next, !.failure = "MissingDependencies"]
     ELSE IF work.predicted >= PredictionTicks
       THEN [work EXCEPT !.sequence = next, !.failure = "PredictionBudget"]
     ELSE [work EXCEPT
             !.history = Predicted(@, IF authors THEN next ELSE Substitute,
                                   CheckpointDependencies(@)),
             !.predicted = @ + 1,
             !.sequence = next,
             !.issued = IF authors THEN tick :> next @@ @ ELSE @,
             !.pending = IF authors THEN @ \cup {tick} ELSE @]

Authored(target, forecast) ==
  LET current == PredictedTick(history)
      ticks == [i \in 1..(target - current) |-> current + i]
  IN FoldLeft(LAMBDA work, tick : Author(work, tick, ~forecast \/ tick = target),
              [history |-> history, predicted |-> predicted, sequence |-> sequence,
               issued |-> issued, pending |-> pending, failure |-> "none"],
              ticks)

\* forecast_gap.
ForecastGap(estimated) == sequence = 0 \/ PredictedTick(history) < estimated

GiveUp(reason) ==
  /\ recovery' = reason
  /\ UNCHANGED <<history, predicted, sequence, issued, pending>>

Fits(target) ==
  LET gap == target - PredictedTick(history)
  IN gap <= Remaining /\ Cardinality(pending) + gap <= PendingLimit

\* After the head's target was assigned.
Fill(target, estimated) ==
  \/ /\ target <= PredictedTick(history)
     /\ UNCHANGED <<history, predicted, sequence, issued, pending, recovery>>
  \/ /\ target > PredictedTick(history) /\ ~Fits(target)
     /\ GiveUp("PredictionDiscontinuity")
  \/ /\ target > PredictedTick(history) /\ Fits(target)
     /\ \E work \in {Authored(target, ForecastGap(estimated))} :
          /\ history' = work.history /\ predicted' = work.predicted
          /\ sequence' = work.sequence /\ issued' = work.issued
          /\ pending' = work.pending /\ recovery' = work.failure

\* Without a first command the session waits for a checkpoint close enough.
TooFar(target) == Unstarted(history) /\ target - PredictedTick(history) > Remaining

\* The committed clock reserves the lead inside its budget.
Estimable(estimated) == estimated - committed \in 0..(MaxAhead - lead)

\* assign_target fails, or gives the head a target.  The alternative, a target
\* that is not new, changes nothing.
Discontinuous(target) == lastTarget # 0 /\ target - lastTarget > TargetJump

RefuseTarget(target) ==
  /\ UNCHANGED lastTarget
  /\ \/ leadFault /\ GiveUp("LeadExceeded") /\ UNCHANGED leadFault
     \/ ~leadFault /\ Discontinuous(target) /\ GiveUp("TargetDiscontinuity") /\ leadFault' = TRUE

AssignTarget(target) ==
  /\ ~leadFault /\ target > lastTarget /\ ~Discontinuous(target)
  /\ lastTarget' = target /\ UNCHANGED leadFault

Generate(estimated) ==
  LET target == estimated + lead
  IN /\ Running
     /\ Estimable(estimated)
     /\ ~TooFar(target)
     /\ \/ RefuseTarget(target)
        \/ AssignTarget(target) /\ Fill(target, estimated)
     /\ UNCHANGED <<server, group, finalized, committed, lead, exited>>

-----------------------------------------------------------------------------
Next ==
  \/ \E arrived \in BOOLEAN, sample \in 1..MaxSample, revision \in 1..MaxRevision :
       Commit(arrived, sample, revision)
  \/ \E tick \in group..Now, through \in finalized..Now, progress \in committed..Now,
        slack \in {"none", "late", "early"},
        bases \in SUBSET (Left \ exited), target \in BOOLEAN :
       Poll(tick, through, progress, slack, bases, target)
  \/ \E estimated \in 0..(Now + MaxAhead) : Generate(estimated)

Spec == Init /\ [][Next]_vars

-----------------------------------------------------------------------------
(* Properties.                                                              *)

Reasons == {"none", "DisclosureRevoked", "IdentityChanged", "CheckpointAhead",
            "MissingHistory", "ReplayBudget", "MissingDependencies", "PredictionBudget",
            "PredictionDiscontinuity", "LeadExceeded", "TargetDiscontinuity"}

\* The prediction is a replay: while the session runs, the frames are the ticks
\* of an interval, the frame of the last checkpoint is the server's state of
\* that tick, and each later frame is one step from the frame before it, by
\* the command authored for its tick or by a substitute if there is none
\* (predict_input, reconcile, replace_topology).
ReplayExact ==
  Running =>
    LET frames == history.frames
        last   == PredictedTick(history)
    IN /\ \A t \in DOMAIN frames : t..last \subseteq DOMAIN frames
       /\ CheckpointKept(history) =>
            frames[history.checkpoint] = CheckpointFrame(Publication(history.checkpoint))
       /\ \A t \in DOMAIN frames \ {history.checkpoint} :
            /\ t > history.checkpoint
            /\ frames[t].input = InputAt(t, TRUE)
            /\ t - 1 \in DOMAIN frames =>
                 frames[t].state = Step(frames[t - 1].state, frames[t].input, frames[t].deps)

\* Hard revocation stops affected prediction: once the exit of a base has been
\* received, no live history of its topology remains (revoke_scope,
\* published_group).
RevocationStops == Running /\ history.revision \in exited => history.revoked

\* A session resynchronizes only for a reason.  The dependencies of the last
\* checkpoint go missing only when the prediction is a whole history ahead of
\* it, which stops it before a transition a replay could need is dropped; a
\* correction is too long only when state lags behind the committed tick; a
\* checkpoint is ahead only by more than AdoptTicks; the identity check and the
\* loop's own budget check never fail, since the topology path and preflight
\* come first (reconcile, predict_input, prediction_dependencies).
RecoveryJustified ==
  /\ recovery \in Reasons \ {"IdentityChanged", "PredictionBudget", "MissingHistory"}
  /\ recovery = "MissingDependencies" =>
       PredictedTick(history) - history.checkpoint > HistoryTicks
  /\ recovery = "ReplayBudget" =>
       group < committed /\ PredictedTick(history) - group > ReplayTicks
  /\ recovery = "CheckpointAhead" => group - PredictedTick(history) > AdoptTicks
  /\ recovery = "DisclosureRevoked" => history.revoked

\* Commands and pinned samples stay immutable: no step changes the command of a
\* target, and while the topology stays neither the input nor the sample of a
\* predicted tick changes (reconcile's comment); a revoked history is not
\* extended.
Pinned ==
  [][/\ \A t \in DOMAIN issued : t \in DOMAIN issued' /\ issued'[t] = issued[t]
     /\ \A t \in DOMAIN history.frames \cap DOMAIN history'.frames :
          LET old == history.frames[t]
              new == history'.frames[t]
          IN {old.input, new.input} \cap {NoInput} = {} =>
               /\ new.input = old.input
               /\ history'.revision = history.revision => new.deps = old.deps
     /\ history.revoked /\ history'.revoked => history'.frames = history.frames
    ]_vars

\* No correction is withheld: the newest group the client holds, once its tick
\* is final, is the checkpoint the prediction stands on, whichever of the two
\* arrived first and whatever topology it has (session reconcile).
NothingWithheld ==
  Running /\ group <= finalized /\ RevisionAt(group) \notin exited =>
    history.checkpoint = group /\ history.revision = RevisionAt(group)

=============================================================================
