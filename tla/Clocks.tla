------------------------------- MODULE Clocks -------------------------------
(***************************************************************************)
(* How a client keeps time with its server (engine/net/src/                *)
(* synchronization.rs, synchronization/committed.rs and the client's       *)
(* network plugin).  The client probes the server's clock; a reply gives   *)
(* the server's time and its committed tick.  ClockEstimator turns the     *)
(* best recent exchange into an offset and slews its estimate of the       *)
(* server's time towards it.  CommittedClock extrapolates the server's     *)
(* simulation from the last reported tick, between what is known to be     *)
(* committed and the budget for speculation.                               *)
(*                                                                         *)
(* Both clocks are monotonic and run at one rate: the server's is ahead of *)
(* the client's by Skew, which no variable of the client holds.  Probes    *)
(* and replies travel on reliable ordered channels with any delay.  A      *)
(* reply is written when its probe is read, so the server's processing     *)
(* time is zero.  A rejected reply changes nothing but a latched reason to *)
(* resynchronize; a new welcome starts over.                               *)
(*                                                                         *)
(* Left out: estimate_server_elapsed and estimate_server_tick, which move  *)
(* an estimate to the match's epoch for display; what the estimates are    *)
(* used for (PredictedSession, InputPath, RemotePoses, CombatViews).       *)
(***************************************************************************)
EXTENDS Integers, Sequences, FiniteSets

CONSTANTS
  Skew,          \* the server's clock minus the client's
  Second, Hz,    \* TickRate: Hz ticks in a second of Second units
  SampleWindow,  \* ClockConfig.sample_window
  MaxRoundTrip,  \* ClockConfig.maximum_round_trip
  OffsetJump,    \* ClockConfig.offset_jump
  Suspension,    \* ClockConfig.suspension
  Slew, Whole,   \* ClockConfig.slew_parts_per_million, of a million
  Margin,        \* the jitter margin of the first lead (20 ms)
  MaxLead,       \* the largest lead (12)
  MaxAhead,      \* CommittedClock.maximum_ahead
  ProbeEvery,    \* the probe interval (250 ms)
  MaxPause,      \* bound: the longest time between two steps
  MaxLocal,      \* bound: the client's clock
  MaxProbes      \* bound: probes and replies in flight

\* ClockConfig's limits; the budget reserves every lead.
ASSUME ClocksAssumption ==
  /\ {Skew, Margin, ProbeEvery, MaxPause, MaxLocal} \subseteq Nat /\ ProbeEvery > 0
  /\ {Second, Hz, SampleWindow, MaxRoundTrip, OffsetJump, Suspension,
      Whole, MaxLead, MaxAhead, MaxProbes} \subseteq Nat \ {0}
  /\ Slew \in 0..Whole
  /\ MaxLead <= MaxAhead

VARIABLES
  local,     \* the client's clock
  tick,      \* the server's committed tick
  probes,    \* to the server: the time each probe was sent
  replies,   \* to the client: [sent, at, tick]
  probed,    \* Session.last_probe
  samples,   \* ClockEstimator.samples: [sent, received, trip, offset]
  offset,    \* ClockEstimator.offset: some number exactly when there is a sample
  last,      \* ClockEstimator.last_estimate: [local, server]
  resync,    \* ClockEstimator.resync
  clock,     \* CommittedClock: [tick, time, phase, committed]
  lead,      \* LeadController.lead
  debt       \* history: the furthest a reported simulation was behind its time

clockVars == <<local, tick, probes, replies, probed, samples, offset, last, resync,
               clock, lead, debt>>

None == "none"

\* No estimate yet: no clock reads -1.
NoEstimate == [local |-> -1, server |-> 0]

ServerNow == local + Skew

Larger(a, b)  == IF a < b THEN b ELSE a
Smaller(a, b) == IF a < b THEN a ELSE b
Distance(a, b) == IF a < b THEN b - a ELSE a - b

\* The quotient of two integers, rounded towards zero.
Half(n) == IF n < 0 THEN -((-n) \div 2) ELSE n \div 2

\* TickRate::deadline rounds up.
Deadline(t) == (t * Second + Hz - 1) \div Hz

-----------------------------------------------------------------------------
(* ClockEstimator.                                                          *)

\* The offset assumes that the way back took no time.
MutantSample(r, now) ==
  [sent |-> r.sent, received |-> now, trip |-> now - r.sent, offset |-> r.at - now]

\* ClockSample::from_exchange.
Sample(r, now) ==
  [sent |-> r.sent, received |-> now, trip |-> now - r.sent,
   offset |-> Half((r.at - r.sent) + (r.at - now))]

\* The window after s joined it.
Windowed(s) ==
  Append(IF Len(samples) = SampleWindow THEN Tail(samples) ELSE samples, s)

\* The shortest round trip, the newest of equals.
IsBest(b, window) == \A k \in DOMAIN window :
  \/ b.trip < window[k].trip
  \/ b.trip = window[k].trip /\ b.received >= window[k].received

NonMonotonic(s) ==
  /\ samples # <<>>
  /\ LET old == samples[Len(samples)]
     IN s.received < old.received \/ s.sent <= old.sent

\* LeadController::bootstrap: the ticks of half a round trip and the margin.
LeadFor(trip) == Larger((((trip \div 2) + Margin) * Hz + Second - 1) \div Second, 1)

\* The largest step of the estimate towards its target.
Adjustment(elapsed) == (elapsed * Slew) \div Whole

\* The estimate jumps to its target.
MutantSlewed(free, target, elapsed) == target

Slewed(free, target, elapsed) ==
  free + Larger(-Adjustment(elapsed), Smaller(target - free, Adjustment(elapsed)))

-----------------------------------------------------------------------------
(* CommittedClock.                                                          *)

NewClock(t, time) == [tick |-> t, time |-> time, phase |-> 0, committed |-> t]

Committed(c, t) == [c EXCEPT !.committed = Larger(@, t)]

\* extrapolated_elapsed.
Extrapolated(c, now) == Deadline(c.tick) + c.phase + Larger(now - c.time, 0)

\* The two estimates agree within a tick.
Agrees(c, t, time) ==
  /\ t > c.tick /\ time > c.time
  /\ Extrapolated(c, time) > Deadline(t - 1)
  /\ Extrapolated(c, time) < Deadline(t + 1)

\* The old estimate is kept whatever the reply says.
MutantPhaseAt(c, t, time) == Extrapolated(c, time) - Deadline(t)

PhaseAt(c, t, time) ==
  IF Agrees(c, t, time) THEN Extrapolated(c, time) - Deadline(t)
  ELSE IF t = c.tick /\ time = c.time THEN c.phase
  ELSE 0

\* observe.
Anchored(c, t, time) ==
  Committed([c EXCEPT !.tick = t, !.time = time, !.phase = PhaseAt(c, t, time)], t)

Retreats(c, t, time) == time < c.time \/ t < c.tick

\* estimate_elapsed.
Ceiling(c, headroom) == Deadline(c.committed + MaxAhead - headroom)

Elapsed(c, now, headroom) ==
  Smaller(Larger(Extrapolated(c, now), Deadline(c.committed)), Ceiling(c, headroom))

-----------------------------------------------------------------------------
(* The client and its server.                                               *)

ClocksInit ==
  /\ local = 0 /\ tick = 0
  /\ probes = <<>> /\ replies = <<>> /\ probed = 0
  /\ samples = <<>> /\ offset = 0 /\ last = NoEstimate /\ resync = None
  /\ clock = NewClock(0, Skew)
  /\ lead = Smaller(3, MaxLead)
  /\ debt = Skew

Pass(d) ==
  /\ local + d <= MaxLocal
  /\ local' = local + d
  /\ UNCHANGED <<tick, probes, replies, probed, samples, offset, last, resync, clock, lead, debt>>

\* The host commits a tick once it is due, or later.
CommitTick ==
  /\ Deadline(tick + 1) <= ServerNow
  /\ tick' = tick + 1
  /\ UNCHANGED <<local, probes, replies, probed, samples, offset, last, resync, clock, lead, debt>>

SendProbe ==
  /\ local - probed >= ProbeEvery
  /\ Len(probes) + Len(replies) < MaxProbes
  /\ probed' = local
  /\ probes' = Append(probes, local)
  /\ UNCHANGED <<local, tick, replies, samples, offset, last, resync, clock, lead, debt>>

\* The authority answers a ClockProbe.
AnswerProbe ==
  /\ probes # <<>>
  /\ probes' = Tail(probes)
  /\ replies' = Append(replies, [sent |-> Head(probes), at |-> ServerNow, tick |-> tick])
  /\ debt' = Larger(debt, ServerNow - Deadline(tick))
  /\ UNCHANGED <<local, tick, probed, samples, offset, last, resync, clock, lead>>

\* observe_clock_reply: the simulation clock is kept only if the exchange is.
Observe(r) ==
  LET s == Sample(r, local)
      first == samples = <<>>
  IN /\ ~Retreats(clock, r.tick, r.at)
     /\ first => LeadFor(s.trip) <= MaxLead
     /\ resync = None
     /\ s.trip <= MaxRoundTrip /\ ~NonMonotonic(s)
     /\ \E b \in {Windowed(s)[k] : k \in DOMAIN Windowed(s)} :
          /\ IsBest(b, Windowed(s))
          /\ IF samples # <<>> /\ Distance(b.offset, offset) > OffsetJump
             THEN /\ resync' = "OffsetJump"
                  /\ UNCHANGED <<samples, offset, clock, lead>>
             ELSE /\ offset' = b.offset
                  /\ samples' = Windowed(s)
                  /\ clock' = Anchored(clock, r.tick, r.at)
                  /\ lead' = IF first THEN LeadFor(s.trip) ELSE lead
                  /\ UNCHANGED resync

\* The other errors of a reply change nothing.
Ignored(r) ==
  LET s == Sample(r, local)
  IN /\ \/ Retreats(clock, r.tick, r.at)
        \/ samples = <<>> /\ LeadFor(s.trip) > MaxLead
        \/ resync # None
        \/ s.trip > MaxRoundTrip
        \/ NonMonotonic(s)
     /\ UNCHANGED <<samples, offset, resync, clock, lead>>

HearReply ==
  /\ replies # <<>>
  /\ Observe(Head(replies)) \/ Ignored(Head(replies))
  /\ replies' = Tail(replies)
  /\ UNCHANGED <<local, tick, probes, probed, last, debt>>

\* A publication or a finalized receipt of a committed tick arrives.
HearCommitted(t) ==
  /\ clock' = Committed(clock, t)
  /\ UNCHANGED <<local, tick, probes, replies, probed, samples, offset, last, resync, lead, debt>>

\* estimate_server_time, by the frame's presentation clock and by the command
\* generator.
Estimate ==
  /\ resync = None /\ samples # <<>>
  /\ LET target  == local + offset
         elapsed == local - last.local
         now     == IF last = NoEstimate THEN target
                    ELSE Slewed(last.server + elapsed, target, elapsed)
     IN IF last # NoEstimate /\ elapsed > Suspension
        THEN resync' = "Suspension" /\ UNCHANGED last
        ELSE now >= 0 /\ last' = [local |-> local, server |-> now] /\ UNCHANGED resync
  /\ UNCHANGED <<local, tick, probes, replies, probed, samples, offset, clock, lead, debt>>

\* A welcome starts a new session; what was in flight belongs to the old one.
Welcomed ==
  /\ resync # None
  /\ probes' = <<>> /\ replies' = <<>> /\ probed' = 0
  /\ samples' = <<>> /\ offset' = 0 /\ last' = NoEstimate /\ resync' = None
  /\ clock' = NewClock(tick, ServerNow)
  /\ lead' = Smaller(3, MaxLead)
  /\ debt' = Larger(debt, ServerNow - Deadline(tick))
  /\ UNCHANGED <<local, tick>>

ClocksNext ==
  \/ \E d \in 1..MaxPause : Pass(d)
  \/ CommitTick
  \/ SendProbe
  \/ AnswerProbe
  \/ HearReply
  \/ \E t \in 0..tick : HearCommitted(t)
  \/ Estimate
  \/ Welcomed

ClocksSpec == ClocksInit /\ [][ClocksNext]_clockVars

-----------------------------------------------------------------------------
(* Properties.                                                              *)

\* The estimate of the server's time is wrong by at most half of the longest
\* round trip the estimator accepts (rounded up), however delayed the replies
\* it was slewed by were.
EstimateSound ==
  last # NoEstimate => 2 * Distance(last.server, last.local + Skew) <= MaxRoundTrip + 1

\* At the server's own time the estimated simulation is never ahead of that
\* time, and it is behind it by no more than the server's simulation was when
\* it was reported, unless the budget for speculation holds it back: keeping
\* the phase over many replies accumulates no error.  At the time of the last
\* report it is less than a tick away from the reported tick.
SimulationFollows ==
  LET shown == Elapsed(clock, ServerNow, lead)
  IN /\ shown <= ServerNow
     /\ shown < Ceiling(clock, lead) => ServerNow - shown <= debt
     /\ clock.phase # 0 => /\ Deadline(clock.tick - 1) < Deadline(clock.tick) + clock.phase
                           /\ Deadline(clock.tick) + clock.phase < Deadline(clock.tick + 1)

\* Replies are never refused as out of order: on one ordered channel a later
\* reply reports later times and no earlier tick, whatever was refused before.
RepliesInOrder ==
  replies # <<>> =>
    /\ ~Retreats(clock, Head(replies).tick, Head(replies).at)
    /\ ~NonMonotonic(Sample(Head(replies), local))

\* What a client believes about its server's time is right up to these bounds.
ClocksSound == EstimateSound /\ SimulationFollows /\ RepliesInOrder

\* The estimated time never goes back within a session and never runs faster
\* than the slew allows, though the offset it follows may jump either way.
EstimateAdvances ==
  last # NoEstimate /\ last' # NoEstimate =>
    LET elapsed == last'.local - last.local
    IN /\ last'.server >= last.server
       /\ Distance(last'.server, last.server + elapsed) <= Adjustment(elapsed)

\* `estimate` never runs backward and never faster than its slew, step by step.
EstimateForward == [][EstimateAdvances]_clockVars
=============================================================================
