---------------------------- MODULE ClocksProofs ----------------------------
(***************************************************************************)
(* Proofs about Clocks, for every rate, skew, delay and configuration: how *)
(* far the client's estimates can be from the server's time and from its   *)
(* simulation, and that the estimate only moves forward.                   *)
(***************************************************************************)
EXTENDS Clocks, TLAPS

Reply == [sent : Nat, at : Nat, tick : Nat]
Exchange == [sent : Nat, received : Nat, trip : Int, offset : Int]

ClocksTypes ==
  /\ local \in Nat /\ tick \in Nat
  /\ probes \in Seq(Nat) /\ replies \in Seq(Reply)
  /\ probed \in Nat /\ probed <= local
  /\ samples \in Seq(Exchange) /\ offset \in Int
  /\ last \in [local : Int, server : Int]
  /\ clock \in [tick : Nat, time : Nat, phase : Int, committed : Nat]
  /\ lead \in 0..MaxLead /\ debt \in Int

\* What was probed, answered and heard is in one order.
InOrder ==
  /\ \A i, j \in 1..Len(probes) : i < j => probes[i] < probes[j]
  /\ \A i \in 1..Len(probes) : probes[i] <= probed
  /\ \A j \in 1..Len(replies) :
       /\ replies[j].sent <= probed
       /\ clock.time <= replies[j].at /\ clock.tick <= replies[j].tick
       /\ \A i \in 1..Len(probes) : replies[j].sent < probes[i]
  /\ \A i, j \in 1..Len(replies) : i < j =>
       /\ replies[i].sent < replies[j].sent
       /\ replies[i].at <= replies[j].at /\ replies[i].tick <= replies[j].tick
  /\ \A k \in 1..Len(samples) :
       /\ samples[k].received <= local /\ samples[k].sent <= probed
       /\ \A i \in 1..Len(probes) : samples[k].sent < probes[i]
       /\ \A j \in 1..Len(replies) : samples[k].sent < replies[j].sent

\* Off by at most half of a round trip, rounded up.
Close(n) == 2 * Distance(n, Skew) <= MaxRoundTrip + 1

EstimatesClose ==
  /\ \A k \in 1..Len(samples) : Close(samples[k].offset)
  /\ samples # <<>> => Close(offset)
  /\ last # NoEstimate => /\ 0 <= last.local /\ last.local <= local
                          /\ Close(last.server - last.local)

\* A report of the simulation tells of a tick that was due, and is no further
\* behind than debt says.
Reported(t, phase, at) ==
  /\ t <= tick /\ at <= ServerNow
  /\ Deadline(t) + phase <= at /\ at - (Deadline(t) + phase) <= debt

SimulationClose ==
  /\ Deadline(tick) <= ServerNow
  /\ \A j \in 1..Len(replies) : /\ Reported(replies[j].tick, 0, replies[j].at)
                                /\ replies[j].sent + Skew <= replies[j].at
  /\ Reported(clock.tick, clock.phase, clock.time)
  /\ clock.committed <= tick
  /\ clock.phase # 0 => /\ Deadline(clock.tick - 1) < Deadline(clock.tick) + clock.phase
                        /\ Deadline(clock.tick) + clock.phase < Deadline(clock.tick + 1)

\* The inductive invariant.
ClocksInv == ClocksTypes /\ InOrder /\ EstimatesClose /\ SimulationClose

-----------------------------------------------------------------------------
(* Arithmetic.                                                              *)

LEMMA Times ==
  ASSUME NEW b \in Nat, NEW x \in Int, NEW y \in Int, x <= y
  PROVE  b * x <= b * y
<1>1. y - x \in Nat /\ b * y = b * x + b * (y - x)
  OBVIOUS
<1>2. b * (y - x) \in Nat
  BY <1>1
<1> QED
  BY <1>1, <1>2

LEMMA Quotient ==
  ASSUME NEW a \in Nat, NEW b \in Nat \ {0}
  PROVE  a \div b \in Nat /\ b * (a \div b) <= a /\ a < b * (a \div b) + b
OBVIOUS

LEMMA QuotientGrows ==
  ASSUME NEW a \in Nat, NEW c \in Nat, NEW b \in Nat \ {0}, a <= c
  PROVE  a \div b <= c \div b
<1> DEFINE p == a \div b
           q == c \div b
<1>1. /\ p \in Nat /\ q \in Nat
      /\ b * p <= a /\ c < b * q + b
  BY Zenon, Quotient
<1> HIDE DEF p, q
<1>2. ASSUME ~(p <= q) PROVE FALSE
  <2>1. q + 1 <= p /\ q + 1 \in Int /\ p \in Int
    BY <1>1, <1>2
  <2>2. b * (q + 1) <= b * p
    BY Zenon, <2>1, Times
  <2>3. b * (q + 1) = b * q + b
    BY <1>1
  <2>4. b * p \in Nat /\ b * q \in Nat
    BY <1>1
  <2> QED
    BY <1>1, <2>2, <2>3, <2>4
<1> QED
  BY Zenon, <1>2 DEF p, q

\* TickRate::deadline is a time, that no later tick precedes.
LEMMA DeadlineFacts ==
  /\ \A t \in Nat : Deadline(t) \in Nat
  /\ \A s, t \in Nat : s <= t => Deadline(s) <= Deadline(t)
  /\ Deadline(0) = 0
<1>1. Second \in Nat /\ Hz \in Nat \ {0}
  BY Zenon, ClocksAssumption
<1>2. \A t \in Nat : t * Second + Hz - 1 \in Nat
  BY <1>1
<1>3. \A t \in Nat : Deadline(t) \in Nat
  BY Zenon, <1>1, <1>2, Quotient DEF Deadline
<1>4. ASSUME NEW s \in Nat, NEW t \in Nat, s <= t PROVE Deadline(s) <= Deadline(t)
  <2>1. Second * s <= Second * t
    BY <1>1, <1>4, Times
  <2>2. s * Second + Hz - 1 <= t * Second + Hz - 1
    BY <1>1, <2>1
  <2> QED
    BY Zenon, <1>1, <1>2, <2>2, QuotientGrows DEF Deadline
<1>5. Deadline(0) = 0
  <2>1. Deadline(0) = (Hz - 1) \div Hz
    BY <1>1 DEF Deadline
  <2> QED
    BY <1>1, <2>1
<1> QED
  BY Zenon, <1>3, <1>4, <1>5

\* The slew is slower than time.
LEMMA AdjustmentFacts ==
  ASSUME NEW e \in Nat
  PROVE  Adjustment(e) \in Nat /\ Adjustment(e) <= e
<1>1. Slew \in Nat /\ Whole \in Nat \ {0} /\ Slew <= Whole
  BY ClocksAssumption
<1>2. e * Slew \in Nat /\ e * Whole \in Nat
  BY <1>1
<1>3. e * Slew <= e * Whole
  BY <1>1, Times
<1>4. (e * Slew) \div Whole <= (e * Whole) \div Whole
  BY Zenon, <1>1, <1>2, <1>3, QuotientGrows
<1>5. (e * Whole) \div Whole = e
  BY <1>1
<1> QED
  BY Zenon, <1>1, <1>2, <1>4, <1>5, Quotient DEF Adjustment

LEMMA HalfFacts ==
  ASSUME NEW n \in Int
  PROVE  Half(n) \in Int /\ 2 * Half(n) <= n + 1 /\ n <= 2 * Half(n) + 1
BY DEF Half

-----------------------------------------------------------------------------
(* Sequences.                                                               *)

LEMMA AppendFacts ==
  ASSUME NEW S, NEW q \in Seq(S), NEW e \in S
  PROVE  /\ Append(q, e) \in Seq(S) /\ Len(Append(q, e)) = Len(q) + 1
         /\ \A i \in 1..Len(q) : Append(q, e)[i] = q[i]
         /\ Append(q, e)[Len(q) + 1] = e
         /\ Len(q) \in Nat
OBVIOUS

LEMMA TailFacts ==
  ASSUME NEW S, NEW q \in Seq(S), q # <<>>
  PROVE  /\ Tail(q) \in Seq(S) /\ Len(Tail(q)) = Len(q) - 1
         /\ \A i \in 1..Len(Tail(q)) : Tail(q)[i] = q[i + 1] /\ i + 1 \in 1..Len(q)
         /\ Len(q) \in Nat /\ 1 \in 1..Len(q) /\ Head(q) = q[1] /\ Head(q) \in S
OBVIOUS

-----------------------------------------------------------------------------
(* The operators of the clocks.                                             *)

\* A sample's offset is off by at most half of its round trip, because the
\* server read its clock at some moment between sending and receiving.
LEMMA SampleFacts ==
  ASSUME NEW r \in Reply, NEW now \in Nat, r.sent + Skew <= r.at, r.at <= now + Skew
  PROVE  /\ Sample(r, now) \in Exchange
         /\ Sample(r, now).sent = r.sent /\ Sample(r, now).received = now
         /\ Sample(r, now).trip <= MaxRoundTrip => Close(Sample(r, now).offset)
<1> DEFINE n == (r.at - r.sent) + (r.at - now)
<1>1. r.sent \in Nat /\ r.at \in Nat /\ Skew \in Nat /\ MaxRoundTrip \in Nat
  BY Zenon, ClocksAssumption DEF Reply
<1>n. n \in Int
  BY <1>1
<1> HIDE DEF n
<1>2. Half(n) \in Int /\ 2 * Half(n) <= n + 1 /\ n <= 2 * Half(n) + 1
  BY Zenon, <1>n, HalfFacts
<1>3. Sample(r, now) = [sent |-> r.sent, received |-> now, trip |-> now - r.sent,
                        offset |-> Half(n)]
  BY Zenon DEF Sample, n
<1>4. Sample(r, now) \in Exchange
  BY <1>1, <1>2, <1>3 DEF Exchange
<1>5. ASSUME now - r.sent <= MaxRoundTrip PROVE Close(Half(n))
  <2>1. n <= 2 * Skew + (now - r.sent) /\ 2 * Skew - (now - r.sent) <= n
    BY <1>1 DEF n
  <2> QED
    BY <1>1, <1>n, <1>2, <1>5, <2>1 DEF Close, Distance
<1> QED
  BY <1>3, <1>4, <1>5

\* The window holds the new sample and some of the old ones.
LEMMA WindowedFacts ==
  ASSUME samples \in Seq(Exchange), NEW s \in Exchange
  PROVE  /\ Windowed(s) \in Seq(Exchange)
         /\ \A k \in 1..Len(Windowed(s)) :
              \/ Windowed(s)[k] = s
              \/ \E m \in 1..Len(samples) : Windowed(s)[k] = samples[m]
<1> DEFINE old == IF Len(samples) = SampleWindow THEN Tail(samples) ELSE samples
<1>1. old \in Seq(Exchange) /\ \A i \in 1..Len(old) : \E m \in 1..Len(samples) : old[i] = samples[m]
  <2>1. CASE Len(samples) = SampleWindow
    <3>1. samples # <<>>
      BY Zenon, <2>1, ClocksAssumption
    <3> QED
      BY Zenon, <2>1, <3>1, TailFacts
  <2>2. CASE Len(samples) # SampleWindow
    BY Zenon, <2>2
  <2> QED
    BY Zenon, <2>1, <2>2
<1>2. Windowed(s) = Append(old, s)
  BY Zenon DEF Windowed
<1> HIDE DEF old
<1>3. /\ Append(old, s) \in Seq(Exchange) /\ Len(Append(old, s)) = Len(old) + 1
      /\ \A i \in 1..Len(old) : Append(old, s)[i] = old[i]
      /\ Append(old, s)[Len(old) + 1] = s /\ Len(old) \in Nat
  BY Zenon, <1>1, AppendFacts
<1>4. ASSUME NEW k \in 1..Len(Append(old, s))
      PROVE  Append(old, s)[k] = s \/ \E m \in 1..Len(samples) : Append(old, s)[k] = samples[m]
  <2>1. k = Len(old) + 1 \/ k \in 1..Len(old)
    BY <1>3
  <2> QED
    BY Zenon, <1>1, <1>3, <2>1
<1> QED
  BY Zenon, <1>2, <1>3, <1>4

\* The slewed estimate lies between running on and the target, and within the
\* adjustment of running on.
LEMMA SlewedFacts ==
  ASSUME NEW free \in Int, NEW target \in Int, NEW e \in Nat
  PROVE  /\ Slewed(free, target, e) \in Int
         /\ Distance(Slewed(free, target, e), free) <= Adjustment(e)
         /\ \/ free <= Slewed(free, target, e) /\ Slewed(free, target, e) <= target
            \/ target <= Slewed(free, target, e) /\ Slewed(free, target, e) <= free
<1>1. Adjustment(e) \in Nat
  BY Zenon, AdjustmentFacts
<1> QED
  BY <1>1 DEF Slewed, Larger, Smaller, Distance

LEMMA MovedClock ==
  ASSUME NEW c \in [tick : Nat, time : Nat, phase : Int, committed : Nat],
         NEW t \in Nat, NEW at \in Nat, NEW p \in Int
  PROVE  Committed([c EXCEPT !.tick = t, !.time = at, !.phase = p], t) =
           [tick |-> t, time |-> at, phase |-> p, committed |-> Larger(c.committed, t)]
<1> DEFINE e == [c EXCEPT !.tick = t, !.time = at, !.phase = p]
           f == [e EXCEPT !.committed = Larger(@, t)]
<1>1. /\ e \in [tick : Nat, time : Nat, phase : Int, committed : Nat]
      /\ e.tick = t /\ e.time = at /\ e.phase = p /\ e.committed = c.committed
  BY Zenon
<1> HIDE DEF e
<1>2. Larger(c.committed, t) \in Nat
  BY Zenon DEF Larger
<1>3. /\ f \in [tick : Nat, time : Nat, phase : Int, committed : Nat]
      /\ f.tick = t /\ f.time = at /\ f.phase = p /\ f.committed = Larger(c.committed, t)
  BY Zenon, <1>1, <1>2
<1>4. Committed(e, t) = f
  BY Zenon DEF Committed
<1> HIDE DEF f
<1>5. f = [tick |-> t, time |-> at, phase |-> p, committed |-> Larger(c.committed, t)]
  BY Zenon, <1>3
<1> QED
  BY Zenon, <1>4, <1>5 DEF e

\* observe keeps the simulation within what was reported: it either keeps its
\* own extrapolation, which was as good, or takes the report.
LEMMA AnchoredFacts ==
  ASSUME ClocksTypes, SimulationClose, NEW t \in Nat, NEW at \in Nat,
         Reported(t, 0, at), ~Retreats(clock, t, at)
  PROVE  /\ Anchored(clock, t, at) \in [tick : Nat, time : Nat, phase : Int, committed : Nat]
         /\ Anchored(clock, t, at).tick = t /\ Anchored(clock, t, at).time = at
         /\ Reported(t, Anchored(clock, t, at).phase, at)
         /\ Anchored(clock, t, at).committed <= tick
         /\ Anchored(clock, t, at).phase # 0 =>
              /\ Deadline(t - 1) < Deadline(t) + Anchored(clock, t, at).phase
              /\ Deadline(t) + Anchored(clock, t, at).phase < Deadline(t + 1)
<1> DEFINE phase == PhaseAt(clock, t, at)
           elapsed == Extrapolated(clock, at)
<1>1. /\ clock.tick \in Nat /\ clock.time \in Nat /\ clock.phase \in Int /\ clock.committed \in Nat
      /\ tick \in Nat /\ debt \in Int /\ clock.time <= at /\ clock.tick <= t
  BY DEF ClocksTypes, Retreats
<1>2. Deadline(t) \in Nat /\ Deadline(clock.tick) \in Nat
  BY Zenon, <1>1, DeadlineFacts
<1>4. /\ Deadline(clock.tick) + clock.phase <= clock.time
      /\ clock.time - (Deadline(clock.tick) + clock.phase) <= debt
      /\ clock.committed <= tick /\ t <= tick /\ at <= ServerNow
      /\ Deadline(t) <= at /\ at - Deadline(t) <= debt
  BY <1>2 DEF SimulationClose, Reported
<1>5. elapsed = Deadline(clock.tick) + clock.phase + (at - clock.time) /\ elapsed \in Int
  BY <1>1, <1>2 DEF Extrapolated, Larger
<1>6. elapsed <= at /\ at - elapsed <= debt
  BY <1>1, <1>2, <1>4, <1>5
<1>7. /\ phase \in Int /\ Reported(t, phase, at)
      /\ phase # 0 => /\ Deadline(t - 1) < Deadline(t) + phase
                      /\ Deadline(t) + phase < Deadline(t + 1)
  <2>1. CASE Agrees(clock, t, at)
    <3>1. phase = elapsed - Deadline(t) /\ Deadline(t - 1) < elapsed /\ elapsed < Deadline(t + 1)
      BY Zenon, <2>1 DEF PhaseAt, Agrees
    <3> HIDE DEF phase, elapsed
    <3>2. phase \in Int /\ Deadline(t) + phase = elapsed
      BY <1>2, <1>5, <3>1
    <3> QED
      BY Zenon, <1>4, <1>6, <3>1, <3>2 DEF Reported
  <2>2. CASE ~Agrees(clock, t, at) /\ t = clock.tick /\ at = clock.time
    <3>1. phase = clock.phase
      BY Zenon, <2>2 DEF PhaseAt
    <3> QED
      BY Zenon, <1>1, <2>2, <3>1 DEF SimulationClose
  <2>3. CASE ~Agrees(clock, t, at) /\ ~(t = clock.tick /\ at = clock.time)
    <3>1. phase = 0
      BY Zenon, <2>3 DEF PhaseAt
    <3> QED
      BY <3>1
  <2> QED
    BY Zenon, <2>1, <2>2, <2>3
<1>8. Larger(clock.committed, t) \in Nat /\ Larger(clock.committed, t) <= tick
  BY Zenon, <1>1, <1>4 DEF Larger
<1>9. Anchored(clock, t, at) =
        [tick |-> t, time |-> at, phase |-> phase, committed |-> Larger(clock.committed, t)]
  BY Zenon, <1>7, MovedClock DEF Anchored, ClocksTypes
<1> HIDE DEF phase
<1> QED
  BY <1>7, <1>8, <1>9

-----------------------------------------------------------------------------
(* The steps.                                                               *)

\* What the types say of each part of the state.
LEMMA TypeFacts ==
  ASSUME ClocksTypes
  PROVE  /\ local \in Nat /\ tick \in Nat /\ probed \in Nat /\ probed <= local
         /\ probes \in Seq(Nat) /\ replies \in Seq(Reply) /\ samples \in Seq(Exchange)
         /\ debt \in Int /\ Skew \in Nat /\ ServerNow \in Nat /\ ServerNow = local + Skew
         /\ \A i \in 1..Len(probes) : probes[i] \in Nat
         /\ \A j \in 1..Len(replies) : /\ replies[j].sent \in Nat /\ replies[j].at \in Nat
                                       /\ replies[j].tick \in Nat
         /\ \A k \in 1..Len(samples) : /\ samples[k].sent \in Nat /\ samples[k].received \in Nat
                                       /\ samples[k].offset \in Int
         /\ clock.tick \in Nat /\ clock.time \in Nat /\ clock.phase \in Int
         /\ clock.committed \in Nat
<1>1. /\ local \in Nat /\ tick \in Nat /\ probed \in Nat /\ probed <= local
      /\ probes \in Seq(Nat) /\ replies \in Seq(Reply) /\ samples \in Seq(Exchange)
      /\ debt \in Int /\ clock \in [tick : Nat, time : Nat, phase : Int, committed : Nat]
  BY Zenon DEF ClocksTypes
<1>2. Skew \in Nat /\ ServerNow \in Nat /\ ServerNow = local + Skew
  <2>1. Skew \in Nat
    BY Zenon, ClocksAssumption
  <2> QED
    BY <1>1, <2>1 DEF ServerNow
<1>3. \A i \in 1..Len(probes) : probes[i] \in Nat
  BY SMTT(30), <1>1
<1>4. \A j \in 1..Len(replies) : replies[j] \in Reply
  BY <1>1
<1>5. \A k \in 1..Len(samples) : samples[k] \in Exchange
  BY <1>1
<1> QED
  BY Zenon, <1>1, <1>2, <1>3, <1>4, <1>5 DEF Reply, Exchange

LEMMA ClocksStart == ClocksInit => ClocksInv
<1> SUFFICES ASSUME ClocksInit PROVE ClocksInv
  BY Zenon
<1>1. /\ local = 0 /\ tick = 0 /\ probes = <<>> /\ replies = <<>> /\ probed = 0
      /\ samples = <<>> /\ offset = 0 /\ last = NoEstimate /\ debt = Skew
      /\ clock = [tick |-> 0, time |-> Skew, phase |-> 0, committed |-> 0]
      /\ lead = Smaller(3, MaxLead)
  BY Zenon DEF ClocksInit, NewClock
<1>2. Skew \in Nat /\ MaxLead \in Nat
  BY Zenon, ClocksAssumption
<1>3. ClocksTypes
  BY <1>1, <1>2 DEF ClocksTypes, NoEstimate, Smaller
<1>4. InOrder
  BY <1>1 DEF InOrder
<1>5. EstimatesClose
  BY <1>1 DEF EstimatesClose
<1>6. SimulationClose
  <2>1. /\ ServerNow = Skew /\ Deadline(0) = 0 /\ Len(replies) = 0
        /\ clock.tick = 0 /\ clock.time = Skew /\ clock.phase = 0 /\ clock.committed = 0
    BY <1>1, <1>2, DeadlineFacts DEF ServerNow
  <2> QED
    BY <1>1, <1>2, <2>1 DEF SimulationClose, Reported
<1> QED
  BY Zenon, <1>3, <1>4, <1>5, <1>6 DEF ClocksInv

\* Time passes for both clocks.
LEMMA PassInv ==
  ASSUME ClocksInv, NEW d \in 1..MaxPause, Pass(d)
  PROVE  ClocksInv'
<1>1. /\ local' = local + d /\ d \in Nat /\ local \in Nat /\ Skew \in Nat
      /\ UNCHANGED <<tick, probes, replies, probed, samples, offset, last, clock, lead, debt>>
  BY TypeFacts DEF Pass, ClocksInv
<1>2. ServerNow \in Nat /\ ServerNow' = ServerNow + d
  BY <1>1 DEF ServerNow
<1>3. ClocksTypes'
  BY <1>1 DEF ClocksInv, ClocksTypes
<1>4. InOrder'
  <2>1. \A k \in 1..Len(samples) : samples[k].received \in Nat
    BY Zenon, TypeFacts DEF ClocksInv
  <2> QED
    BY SMTT(30), <1>1, <2>1 DEF ClocksInv, InOrder
<1>5. EstimatesClose'
  <2>1. ASSUME last # NoEstimate PROVE last.local <= local'
    <3>1. last.local <= local /\ last.local \in Int
      BY Zenon, <2>1 DEF ClocksInv, ClocksTypes, EstimatesClose
    <3> QED
      BY <1>1, <3>1
  <2> QED
    BY Zenon, <1>1, <2>1 DEF ClocksInv, EstimatesClose
<1>6. SimulationClose'
  <2>1. /\ \A j \in 1..Len(replies) : replies[j].at \in Nat
        /\ clock.time \in Nat /\ tick \in Nat /\ Deadline(tick) \in Nat
    BY Zenon, TypeFacts, DeadlineFacts DEF ClocksInv
  <2> QED
    BY <1>1, <1>2, <2>1 DEF ClocksInv, SimulationClose, Reported
<1> QED
  BY Zenon, <1>3, <1>4, <1>5, <1>6 DEF ClocksInv

\* The host commits a tick that is due.
LEMMA CommitTickInv ==
  ASSUME ClocksInv, CommitTick
  PROVE  ClocksInv'
<1>1. /\ tick' = tick + 1 /\ tick \in Nat /\ Deadline(tick + 1) <= ServerNow
      /\ UNCHANGED <<local, probes, replies, probed, samples, offset, last, clock, lead, debt>>
      /\ ServerNow' = ServerNow
  BY Zenon DEF CommitTick, ClocksInv, ClocksTypes, ServerNow
<1>2. ClocksTypes'
  BY <1>1 DEF ClocksInv, ClocksTypes
<1>3. InOrder'
  BY Zenon, <1>1 DEF ClocksInv, InOrder
<1>4. EstimatesClose'
  BY Zenon, <1>1 DEF ClocksInv, EstimatesClose
<1>5. SimulationClose'
  <2>1. /\ \A j \in 1..Len(replies) : replies[j].tick \in Nat
        /\ clock.tick \in Nat /\ clock.committed \in Nat
    BY Zenon, TypeFacts DEF ClocksInv
  <2> QED
    BY <1>1, <2>1 DEF ClocksInv, SimulationClose, Reported
<1> QED
  BY Zenon, <1>2, <1>3, <1>4, <1>5 DEF ClocksInv

\* A probe is sent later than every probe before it.
LEMMA SendProbeInv ==
  ASSUME ClocksInv, SendProbe
  PROVE  ClocksInv'
<1>1. /\ probed' = local /\ probes' = Append(probes, local) /\ local - probed >= ProbeEvery
      /\ UNCHANGED <<local, tick, replies, samples, offset, last, clock, lead, debt>>
      /\ ServerNow' = ServerNow
  BY Zenon DEF SendProbe, ServerNow
<1>2. probed \in Nat /\ local \in Nat /\ probed < local /\ probes \in Seq(Nat)
  <2>1. ProbeEvery \in Nat /\ ProbeEvery > 0
    BY Zenon, ClocksAssumption
  <2>2. probed \in Nat /\ local \in Nat /\ probes \in Seq(Nat)
    BY Zenon, TypeFacts DEF ClocksInv
  <2> QED
    BY <1>1, <2>1, <2>2
<1>3. /\ probes' \in Seq(Nat) /\ Len(probes') = Len(probes) + 1 /\ Len(probes) \in Nat
      /\ \A i \in 1..Len(probes) : probes'[i] = probes[i]
      /\ probes'[Len(probes) + 1] = local
  BY <1>1, <1>2, AppendFacts
<1>4. ClocksTypes'
  BY <1>1, <1>2, <1>3 DEF ClocksInv, ClocksTypes
<1>5. InOrder'
  <2>1. /\ \A i \in 1..Len(probes) : probes[i] \in Nat
        /\ \A j \in 1..Len(replies) : replies[j].sent \in Nat
        /\ \A k \in 1..Len(samples) : samples[k].sent \in Nat
    BY Zenon, TypeFacts DEF ClocksInv
  <2>2. \A i \in 1..Len(probes') : i \in 1..Len(probes) \/ i = Len(probes) + 1
    BY <1>3
  <2>n. /\ \A i, j \in 1..Len(probes) : i < j => probes[i] < probes[j]
        /\ \A i \in 1..Len(probes) : probes[i] < local
        /\ \A j \in 1..Len(replies) :
             replies[j].sent < local /\ \A i \in 1..Len(probes) : replies[j].sent < probes[i]
        /\ \A k \in 1..Len(samples) :
             samples[k].sent < local /\ \A i \in 1..Len(probes) : samples[k].sent < probes[i]
    <3>1. /\ \A i \in 1..Len(probes) : probes[i] <= probed
          /\ \A j \in 1..Len(replies) : replies[j].sent <= probed
          /\ \A k \in 1..Len(samples) : samples[k].sent <= probed
      BY Zenon DEF ClocksInv, InOrder
    <3>2. \A n \in Nat : n <= probed => n < local
      BY <1>2
    <3> QED
      BY Zenon, <2>1, <3>1, <3>2 DEF ClocksInv, InOrder
  <2>3. \A i, j \in 1..Len(probes') : i < j => probes'[i] < probes'[j]
    <3> SUFFICES ASSUME NEW i \in 1..Len(probes'), NEW j \in 1..Len(probes'), i < j
                 PROVE  probes'[i] < probes'[j]
      BY Zenon
    <3>1. i \in 1..Len(probes)
      BY <1>3
    <3> QED
      BY Zenon, <1>3, <2>2, <2>n, <3>1
  <2>4. \A i \in 1..Len(probes') : probes'[i] <= local
    BY SMTT(30), <1>2, <1>3, <2>1, <2>2, <2>n
  <2>5. \A j \in 1..Len(replies) :
          /\ replies[j].sent <= local
          /\ \A i \in 1..Len(probes') : replies[j].sent < probes'[i]
    <3> TAKE j \in 1..Len(replies)
    <3>1. /\ replies[j].sent \in Nat /\ replies[j].sent < local
          /\ \A i \in 1..Len(probes) : replies[j].sent < probes'[i]
      BY Zenon, <1>3, <2>1, <2>n
    <3>2. replies[j].sent < probes'[Len(probes) + 1]
      BY Zenon, <1>3, <3>1
    <3> QED
      BY <1>2, <2>2, <3>1, <3>2
  <2>6. \A k \in 1..Len(samples) :
          /\ samples[k].sent <= local
          /\ \A i \in 1..Len(probes') : samples[k].sent < probes'[i]
    <3> TAKE k \in 1..Len(samples)
    <3>1. /\ samples[k].sent \in Nat /\ samples[k].sent < local
          /\ \A i \in 1..Len(probes) : samples[k].sent < probes'[i]
      BY Zenon, <1>3, <2>1, <2>n
    <3>2. samples[k].sent < probes'[Len(probes) + 1]
      BY Zenon, <1>3, <3>1
    <3> QED
      BY <1>2, <2>2, <3>1, <3>2
  <2> QED
    BY Zenon, <1>1, <2>3, <2>4, <2>5, <2>6 DEF ClocksInv, InOrder
<1>6. EstimatesClose'
  BY Zenon, <1>1 DEF ClocksInv, EstimatesClose
<1>7. SimulationClose'
  BY Zenon, <1>1 DEF ClocksInv, SimulationClose, Reported
<1> QED
  BY Zenon, <1>4, <1>5, <1>6, <1>7 DEF ClocksInv

\* A reply reports the moment it is written.
LEMMA AnswerProbeInv ==
  ASSUME ClocksInv, AnswerProbe
  PROVE  ClocksInv'
<1> DEFINE r == [sent |-> Head(probes), at |-> ServerNow, tick |-> tick]
<1>1. /\ probes # <<>> /\ probes' = Tail(probes) /\ replies' = Append(replies, r)
      /\ debt' = Larger(debt, ServerNow - Deadline(tick))
      /\ UNCHANGED <<local, tick, probed, samples, offset, last, clock, lead>>
      /\ ServerNow' = ServerNow
  BY Zenon DEF AnswerProbe, ServerNow
<1>2. /\ probes' \in Seq(Nat) /\ Len(probes') = Len(probes) - 1
      /\ \A i \in 1..Len(probes') : probes'[i] = probes[i + 1] /\ i + 1 \in 1..Len(probes)
      /\ Len(probes) \in Nat /\ 1 \in 1..Len(probes) /\ Head(probes) = probes[1]
      /\ Head(probes) \in Nat
  <2>1. probes \in Seq(Nat)
    BY Zenon, TypeFacts DEF ClocksInv
  <2> QED
    BY Zenon, <1>1, <2>1, TailFacts
<1>3. /\ local \in Nat /\ Skew \in Nat /\ ServerNow \in Nat /\ tick \in Nat /\ debt \in Int
      /\ Deadline(tick) \in Nat /\ Deadline(tick) <= ServerNow
      /\ probed \in Nat /\ probed <= local
  BY Zenon, TypeFacts, DeadlineFacts DEF ClocksInv, SimulationClose
<1>4. r \in Reply
  BY Zenon, <1>2, <1>3 DEF Reply
<1>5. /\ replies' \in Seq(Reply) /\ Len(replies') = Len(replies) + 1 /\ Len(replies) \in Nat
      /\ \A j \in 1..Len(replies) : replies'[j] = replies[j]
      /\ replies'[Len(replies) + 1] = r
  BY <1>1, <1>4, AppendFacts DEF ClocksInv, ClocksTypes
<1>6. \A j \in 1..Len(replies') : j \in 1..Len(replies) \/ j = Len(replies) + 1
  BY <1>5
<1>7. debt' \in Int /\ debt <= debt' /\ ServerNow - Deadline(tick) <= debt'
  BY <1>1, <1>3 DEF Larger
<1>8. ClocksTypes'
  BY Zenon, <1>1, <1>2, <1>5, <1>7 DEF ClocksInv, ClocksTypes
<1>9. r.sent = probes[1] /\ r.at = ServerNow /\ r.tick = tick
  BY Zenon, <1>2
<1>10. /\ \A i \in 1..Len(probes) : probes[i] \in Nat
       /\ \A j \in 1..Len(replies) : replies[j].at \in Nat /\ replies[j].tick \in Nat
       /\ \A k \in 1..Len(samples) : samples[k].sent \in Nat
       /\ clock.time \in Nat /\ clock.tick \in Nat /\ clock.phase \in Int
  BY Zenon, TypeFacts DEF ClocksInv
<1> HIDE DEF r
<1>11. /\ \A j \in 1..Len(replies) : replies[j].tick <= tick /\ replies[j].at <= ServerNow
       /\ clock.tick <= tick /\ clock.time <= ServerNow
  BY Zenon DEF ClocksInv, SimulationClose, Reported
<1>12. InOrder'
  <2>1. \A i, j \in 1..Len(probes') : i < j => probes'[i] < probes'[j]
    <3> SUFFICES ASSUME NEW i \in 1..Len(probes'), NEW j \in 1..Len(probes'), i < j
                 PROVE  probes'[i] < probes'[j]
      BY Zenon
    <3>1. i + 1 \in 1..Len(probes) /\ j + 1 \in 1..Len(probes) /\ i + 1 < j + 1
      BY <1>2
    <3>2. probes[i + 1] < probes[j + 1]
      BY Zenon, <3>1 DEF ClocksInv, InOrder
    <3> QED
      BY Zenon, <1>2, <3>2
  <2>2. \A i \in 1..Len(probes') : probes'[i] <= probed /\ r.sent < probes'[i]
    BY <1>2, <1>9 DEF ClocksInv, InOrder
  <2>3. ASSUME NEW j \in 1..Len(replies')
        PROVE  /\ replies'[j].sent <= probed
               /\ clock.time <= replies'[j].at /\ clock.tick <= replies'[j].tick
               /\ \A i \in 1..Len(probes') : replies'[j].sent < probes'[i]
    <3>1. CASE j \in 1..Len(replies)
      BY Zenon, <1>2, <1>5, <3>1 DEF ClocksInv, InOrder
    <3>2. CASE j = Len(replies) + 1
      BY Zenon, <1>2, <1>5, <1>9, <1>11, <2>2, <3>2 DEF ClocksInv, InOrder
    <3> QED
      BY Zenon, <1>6, <3>1, <3>2
  <2>4. ASSUME NEW i \in 1..Len(replies'), NEW j \in 1..Len(replies'), i < j
        PROVE  /\ replies'[i].sent < replies'[j].sent
               /\ replies'[i].at <= replies'[j].at /\ replies'[i].tick <= replies'[j].tick
    <3>1. i \in 1..Len(replies)
      BY <1>5, <2>4
    <3>2. CASE j \in 1..Len(replies)
      BY Zenon, <1>5, <2>4, <3>1, <3>2 DEF ClocksInv, InOrder
    <3>3. CASE j = Len(replies) + 1
      BY Zenon, <1>2, <1>5, <1>9, <1>11, <3>1, <3>3 DEF ClocksInv, InOrder
    <3> QED
      BY Zenon, <1>6, <3>2, <3>3
  <2>5. ASSUME NEW k \in 1..Len(samples)
        PROVE  /\ \A i \in 1..Len(probes') : samples[k].sent < probes'[i]
               /\ \A j \in 1..Len(replies') : samples[k].sent < replies'[j].sent
    BY Zenon, <1>2, <1>5, <1>6, <1>9 DEF ClocksInv, InOrder
  <2> QED
    BY SMTT(30), <1>1, <2>1, <2>2, <2>3, <2>4, <2>5 DEF ClocksInv, InOrder
<1>13. EstimatesClose'
  BY Zenon, <1>1 DEF ClocksInv, EstimatesClose
<1>14. SimulationClose'
  <2>1. ASSUME NEW j \in 1..Len(replies')
        PROVE  Reported(replies[j].tick, 0, replies[j].at)'
               /\ replies'[j].sent + Skew <= replies'[j].at
    <3>1. CASE j \in 1..Len(replies)
      <4>1. /\ Reported(replies[j].tick, 0, replies[j].at)
            /\ replies[j].sent + Skew <= replies[j].at
        BY Zenon, <3>1 DEF ClocksInv, SimulationClose
      <4>2. replies[j].tick \in Nat /\ replies[j].at \in Nat /\ Deadline(replies[j].tick) \in Nat
        BY Zenon, <1>10, <3>1, DeadlineFacts
      <4>3. replies'[j] = replies[j] /\ tick' = tick /\ ServerNow' = ServerNow
        BY Zenon, <1>1, <1>5, <3>1
      <4>4. replies[j].at - (Deadline(replies[j].tick) + 0) <= debt'
        <5>1. replies[j].at - (Deadline(replies[j].tick) + 0) <= debt /\ debt \in Int
          BY Zenon, <4>1, TypeFacts DEF ClocksInv, Reported
        <5> QED
          BY <1>7, <4>2, <5>1
      <4> QED
        BY Zenon, <4>1, <4>3, <4>4 DEF Reported
    <3>2. CASE j = Len(replies) + 1
      <4>1. probes[1] <= local /\ probes[1] \in Nat
        BY <1>2, <1>3, <1>10 DEF ClocksInv, InOrder
      <4>2. r.sent + Skew <= r.at
        BY <1>3, <1>9, <4>1 DEF ServerNow
      <4> QED
        BY SMTT(30), <1>1, <1>3, <1>5, <1>7, <1>9, <3>2, <4>2 DEF Reported
    <3> QED
      BY Zenon, <1>6, <3>1, <3>2
  <2>2. Reported(clock.tick, clock.phase, clock.time)'
    <3>1. Deadline(clock.tick) \in Nat
      BY Zenon, <1>10, DeadlineFacts
    <3> QED
      BY SMTT(30), <1>1, <1>3, <1>7, <1>10, <3>1 DEF ClocksInv, SimulationClose, Reported
  <2> QED
    BY Zenon, <1>1, <2>1, <2>2 DEF ClocksInv, SimulationClose
<1> QED
  BY Zenon, <1>8, <1>12, <1>13, <1>14 DEF ClocksInv

\* A reply that is taken off the channel leaves the later ones in order.
LEMMA HearReplyFacts ==
  ASSUME ClocksInv, replies # <<>>, replies' = Tail(replies),
         UNCHANGED <<local, tick, probes, probed, last, debt>>
  PROVE  /\ Head(replies) = replies[1] /\ 1 \in 1..Len(replies) /\ Head(replies) \in Reply
         /\ replies' \in Seq(Reply)
         /\ \A j \in 1..Len(replies') : /\ j + 1 \in 1..Len(replies)
                                        /\ replies'[j] = replies[j + 1]
         /\ \A j \in 1..Len(replies') : /\ replies[1].sent < replies'[j].sent
                                        /\ replies[1].at <= replies'[j].at
                                        /\ replies[1].tick <= replies'[j].tick
         /\ \A i, j \in 1..Len(replies') : i < j =>
              /\ replies'[i].sent < replies'[j].sent
              /\ replies'[i].at <= replies'[j].at /\ replies'[i].tick <= replies'[j].tick
         /\ \A j \in 1..Len(replies') :
              /\ replies'[j].sent <= probed
              /\ \A i \in 1..Len(probes) : replies'[j].sent < probes[i]
              /\ Reported(replies[j].tick, 0, replies[j].at)'
              /\ replies'[j].sent + Skew <= replies'[j].at
<1>1. /\ Head(replies) = replies[1] /\ 1 \in 1..Len(replies) /\ Head(replies) \in Reply
      /\ replies' \in Seq(Reply) /\ Len(replies') = Len(replies) - 1 /\ Len(replies) \in Nat
      /\ \A j \in 1..Len(replies') : /\ j + 1 \in 1..Len(replies)
                                     /\ replies'[j] = replies[j + 1]
  <2>1. replies \in Seq(Reply)
    BY Zenon, TypeFacts DEF ClocksInv
  <2> QED
    BY Zenon, <2>1, TailFacts
<1>2. ASSUME NEW j \in 1..Len(replies')
      PROVE  /\ replies[1].sent < replies'[j].sent
             /\ replies[1].at <= replies'[j].at /\ replies[1].tick <= replies'[j].tick
  <2>1. 1 < j + 1
    OBVIOUS
  <2> QED
    BY Zenon, <1>1, <2>1 DEF ClocksInv, InOrder
<1>3. ASSUME NEW i \in 1..Len(replies'), NEW j \in 1..Len(replies'), i < j
      PROVE  /\ replies'[i].sent < replies'[j].sent
             /\ replies'[i].at <= replies'[j].at /\ replies'[i].tick <= replies'[j].tick
  <2>1. i + 1 < j + 1
    BY <1>3
  <2> QED
    BY Zenon, <1>1, <2>1 DEF ClocksInv, InOrder
<1>4. ASSUME NEW j \in 1..Len(replies')
      PROVE  /\ replies'[j].sent <= probed
             /\ \A i \in 1..Len(probes) : replies'[j].sent < probes[i]
             /\ Reported(replies[j].tick, 0, replies[j].at)'
             /\ replies'[j].sent + Skew <= replies'[j].at
  <2>1. ServerNow' = ServerNow
    BY Zenon DEF ServerNow
  <2>2. /\ replies[j + 1].sent <= probed
        /\ \A i \in 1..Len(probes) : replies[j + 1].sent < probes[i]
        /\ Reported(replies[j + 1].tick, 0, replies[j + 1].at)
        /\ replies[j + 1].sent + Skew <= replies[j + 1].at
    BY Zenon, <1>1 DEF ClocksInv, InOrder, SimulationClose
  <2> QED
    BY Zenon, <1>1, <2>1, <2>2 DEF Reported
<1> QED
  BY Zenon, <1>1, <1>2, <1>3, <1>4

\* A reply that is refused changes no estimate.
LEMMA RefuseReplyInv ==
  ASSUME ClocksInv, replies # <<>>, replies' = Tail(replies),
         UNCHANGED <<local, tick, probes, probed, last, debt, samples, offset, clock, lead>>
  PROVE  ClocksInv'
<1>1. replies' \in Seq(Reply) /\ ServerNow' = ServerNow
  BY Zenon, HearReplyFacts DEF ServerNow
<1>2. ClocksTypes'
  BY Zenon, <1>1 DEF ClocksInv, ClocksTypes
<1>3. InOrder'
  <2>1. \A j \in 1..Len(replies') : clock.time <= replies'[j].at /\ clock.tick <= replies'[j].tick
    BY Zenon, HearReplyFacts DEF ClocksInv, InOrder
  <2>2. \A k \in 1..Len(samples), j \in 1..Len(replies') : samples[k].sent < replies'[j].sent
    BY Zenon, HearReplyFacts DEF ClocksInv, InOrder
  <2> QED
    BY Zenon, <2>1, <2>2, HearReplyFacts DEF ClocksInv, InOrder
<1>4. EstimatesClose'
  BY Zenon DEF ClocksInv, EstimatesClose
<1>5. SimulationClose'
  BY Zenon, <1>1, HearReplyFacts DEF ClocksInv, SimulationClose, Reported
<1> QED
  BY Zenon, <1>2, <1>3, <1>4, <1>5 DEF ClocksInv

\* A reply that is taken joins the window and anchors the simulation.
LEMMA TakeReplyInv ==
  ASSUME ClocksInv, replies # <<>>, replies' = Tail(replies),
         UNCHANGED <<local, tick, probes, probed, last, debt>>,
         NEW r, r = Head(replies),
         ~Retreats(clock, r.tick, r.at),
         Sample(r, local).trip <= MaxRoundTrip,
         NEW b \in {Windowed(Sample(r, local))[k] : k \in DOMAIN Windowed(Sample(r, local))},
         offset' = b.offset, samples' = Windowed(Sample(r, local)),
         clock' = Anchored(clock, r.tick, r.at),
         lead' \in 0..MaxLead
  PROVE  ClocksInv'
<1> DEFINE s == Sample(r, local)
<1>1. /\ r = replies[1] /\ 1 \in 1..Len(replies) /\ r \in Reply /\ local \in Nat
      /\ samples \in Seq(Exchange) /\ ServerNow' = ServerNow /\ Skew \in Nat
      /\ ServerNow = local + Skew /\ replies' \in Seq(Reply)
  BY Zenon, HearReplyFacts, TypeFacts DEF ClocksInv, ServerNow
<1>2. r.tick \in Nat /\ r.at \in Nat /\ r.sent \in Nat
  BY Zenon, <1>1 DEF Reply
<1>3. Reported(r.tick, 0, r.at) /\ r.sent + Skew <= r.at /\ r.at <= local + Skew
  BY Zenon, <1>1 DEF ClocksInv, SimulationClose, Reported
<1>4. s \in Exchange /\ s.sent = r.sent /\ s.received = local /\ Close(s.offset)
  BY Zenon, <1>1, <1>3, SampleFacts
<1> HIDE DEF s
<1>5. /\ samples' \in Seq(Exchange)
      /\ \A k \in 1..Len(samples') :
           samples'[k] = s \/ \E m \in 1..Len(samples) : samples'[k] = samples[m]
  BY Zenon, <1>1, <1>4, WindowedFacts DEF s
<1>6. PICK n \in 1..Len(samples') : b = samples'[n]
  <2>1. DOMAIN samples' = 1..Len(samples')
    BY SMTT(30), <1>5
  <2> QED
    BY Zenon, <2>1
<1>7. /\ clock' \in [tick : Nat, time : Nat, phase : Int, committed : Nat]
      /\ clock'.tick = r.tick /\ clock'.time = r.at
      /\ Reported(r.tick, clock'.phase, r.at)
      /\ clock'.committed <= tick
      /\ clock'.phase # 0 =>
           /\ Deadline(r.tick - 1) < Deadline(r.tick) + clock'.phase
           /\ Deadline(r.tick) + clock'.phase < Deadline(r.tick + 1)
  BY SMTT(30), <1>2, <1>3, AnchoredFacts DEF ClocksInv
<1>8. b.offset \in Int
  <2>1. b \in Exchange
    BY <1>5, <1>6
  <2> QED
    BY Zenon, <2>1 DEF Exchange
<1>9. ClocksTypes'
  BY Zenon, <1>1, <1>5, <1>7, <1>8 DEF ClocksInv, ClocksTypes
<1>10. InOrder'
  <2>1. /\ \A j \in 1..Len(replies') : r.sent < replies'[j].sent
        /\ \A j \in 1..Len(replies') : r.at <= replies'[j].at /\ r.tick <= replies'[j].tick
        /\ \A i \in 1..Len(probes) : r.sent < probes[i]
        /\ r.sent <= probed
    BY Zenon, <1>1, HearReplyFacts DEF ClocksInv, InOrder
  <2>2. ASSUME NEW m \in 1..Len(samples)
        PROVE  /\ samples[m].received <= local /\ samples[m].sent <= probed
               /\ \A i \in 1..Len(probes) : samples[m].sent < probes[i]
               /\ \A j \in 1..Len(replies') : samples[m].sent < replies'[j].sent
    BY Zenon, HearReplyFacts DEF ClocksInv, InOrder
  <2>3. ASSUME NEW k \in 1..Len(samples')
        PROVE  /\ samples'[k].received <= local /\ samples'[k].sent <= probed
               /\ \A i \in 1..Len(probes) : samples'[k].sent < probes[i]
               /\ \A j \in 1..Len(replies') : samples'[k].sent < replies'[j].sent
    <3>1. CASE samples'[k] = s
      <4>1. local <= local
        BY <1>1
      <4> QED
        BY Zenon, <1>1, <1>4, <2>1, <3>1, <4>1
    <3>2. CASE \E m \in 1..Len(samples) : samples'[k] = samples[m]
      BY Zenon, <2>2, <3>2
    <3> QED
      BY Zenon, <1>5, <3>1, <3>2
  <2>4. \A j \in 1..Len(replies') : clock'.time <= replies'[j].at /\ clock'.tick <= replies'[j].tick
    BY Zenon, <1>7, <2>1
  <2> QED
    BY <2>3, <2>4, HearReplyFacts DEF ClocksInv, InOrder
<1>11. EstimatesClose'
  <2>1. \A k \in 1..Len(samples') : Close(samples'[k].offset)
    BY Zenon, <1>4, <1>5 DEF ClocksInv, EstimatesClose
  <2> QED
    BY Zenon, <1>6, <2>1 DEF ClocksInv, EstimatesClose
<1>12. SimulationClose'
  <2>1. Reported(clock.tick, clock.phase, clock.time)'
    BY Zenon, <1>1, <1>7 DEF Reported
  <2> QED
    BY Zenon, <1>1, <1>7, <2>1, HearReplyFacts DEF ClocksInv, SimulationClose
<1> QED
  BY Zenon, <1>9, <1>10, <1>11, <1>12 DEF ClocksInv

LEMMA HearReplyInv ==
  ASSUME ClocksInv, HearReply
  PROVE  ClocksInv'
<1> DEFINE r == Head(replies)
           s == Sample(r, local)
<1>1. /\ replies # <<>> /\ replies' = Tail(replies)
      /\ UNCHANGED <<local, tick, probes, probed, last, debt>>
      /\ Observe(r) \/ Ignored(r)
  BY Zenon DEF HearReply
<1>2. CASE Ignored(r)
  BY Zenon, <1>1, <1>2, RefuseReplyInv DEF Ignored
<1>3. CASE Observe(r)
  <2>1. CASE UNCHANGED <<samples, offset, clock, lead>>
    BY Zenon, <1>1, <2>1, RefuseReplyInv
  <2>2. CASE ~UNCHANGED <<samples, offset, clock, lead>>
    <3>1. /\ ~Retreats(clock, r.tick, r.at) /\ s.trip <= MaxRoundTrip
          /\ samples = <<>> => LeadFor(s.trip) <= MaxLead
          /\ samples' = Windowed(s) /\ clock' = Anchored(clock, r.tick, r.at)
          /\ lead' = IF samples = <<>> THEN LeadFor(s.trip) ELSE lead
      BY Zenon, <1>3, <2>2 DEF Observe
    <3>2. PICK b \in {Windowed(s)[k] : k \in DOMAIN Windowed(s)} : offset' = b.offset
      BY Zenon, <1>3, <2>2 DEF Observe
    <3>3. lead' \in 0..MaxLead
      <4>1. lead \in 0..MaxLead /\ MaxLead \in Nat
        BY Zenon, ClocksAssumption DEF ClocksInv, ClocksTypes
      <4>2. LeadFor(s.trip) \in Nat
        <5>1. s.trip \in Int
          <6>1. r \in Reply /\ local \in Nat
            BY Zenon, <1>1, HearReplyFacts, TypeFacts DEF ClocksInv
          <6> QED
            BY <6>1 DEF Sample, Reply
        <5>2. Margin \in Nat /\ Hz \in Nat /\ Second \in Nat \ {0}
          BY Zenon, ClocksAssumption
        <5> HIDE DEF s
        <5>3. (((s.trip \div 2) + Margin) * Hz + Second - 1) \div Second \in Int
          BY <5>1, <5>2
        <5> QED
          BY <5>3 DEF LeadFor, Larger
      <4> QED
        BY <3>1, <4>1, <4>2
    <3> QED
      BY Zenon, <1>1, <3>1, <3>2, <3>3, TakeReplyInv
  <2> QED
    BY Zenon, <2>1, <2>2
<1> QED
  BY Zenon, <1>1, <1>2, <1>3

\* A committed tick that is heard of was committed.
LEMMA HearCommittedInv ==
  ASSUME ClocksInv, NEW t \in 0..tick, HearCommitted(t)
  PROVE  ClocksInv'
<1>1. /\ UNCHANGED <<local, tick, probes, replies, probed, samples, offset, last, lead, debt>>
      /\ clock' = [clock EXCEPT !.committed = Larger(@, t)] /\ ServerNow' = ServerNow
  BY Zenon DEF HearCommitted, Committed, ServerNow
<1>2. /\ clock \in [tick : Nat, time : Nat, phase : Int, committed : Nat]
      /\ t \in Nat /\ t <= tick /\ clock.committed <= tick
  BY TypeFacts DEF ClocksInv, ClocksTypes, SimulationClose
<1>3. Larger(clock.committed, t) \in Nat /\ Larger(clock.committed, t) <= tick
  BY Zenon, <1>2 DEF Larger
<1>4. /\ clock' \in [tick : Nat, time : Nat, phase : Int, committed : Nat]
      /\ clock'.tick = clock.tick /\ clock'.time = clock.time /\ clock'.phase = clock.phase
      /\ clock'.committed <= tick
  BY Zenon, <1>1, <1>2, <1>3
<1>5. ClocksTypes'
  BY Zenon, <1>1, <1>4 DEF ClocksInv, ClocksTypes
<1>6. InOrder'
  BY <1>1, <1>4 DEF ClocksInv, InOrder
<1>7. EstimatesClose'
  BY Zenon, <1>1 DEF ClocksInv, EstimatesClose
<1>8. SimulationClose'
  BY Zenon, <1>1, <1>4 DEF ClocksInv, SimulationClose, Reported
<1> QED
  BY Zenon, <1>5, <1>6, <1>7, <1>8 DEF ClocksInv

\* A new estimate is the target, or what running on was slewed to.
LEMMA NewEstimate ==
  ASSUME ClocksInv, Estimate, last' # last
  PROVE  /\ last' \in [local : Int, server : Int] /\ last'.local = local
         /\ Close(last'.server - local)
         /\ last # NoEstimate =>
              /\ local - last.local \in Nat
              /\ last'.server = Slewed(last.server + (local - last.local), local + offset,
                                       local - last.local)
<1>1. /\ local \in Nat /\ Skew \in Nat /\ MaxRoundTrip \in Nat /\ offset \in Int
      /\ last.local \in Int /\ last.server \in Int /\ Close(offset)
  <2>1. Skew \in Nat /\ MaxRoundTrip \in Nat
    BY Zenon, ClocksAssumption
  <2>2. Close(offset)
    BY Zenon DEF Estimate, ClocksInv, EstimatesClose
  <2> QED
    BY Zenon, <2>1, <2>2 DEF ClocksInv, ClocksTypes
<1>2. CASE last = NoEstimate
  <2>1. last' = [local |-> local, server |-> local + offset]
    BY Zenon, <1>2 DEF Estimate
  <2>2. local + offset \in Int /\ (local + offset) - local = offset
    BY <1>1
  <2> QED
    BY <1>1, <1>2, <2>1, <2>2
<1>3. CASE last # NoEstimate
  <2> DEFINE e == local - last.local
             free == last.server + e
             now == Slewed(free, local + offset, e)
  <2>1. e \in Nat /\ Close(last.server - last.local)
    BY <1>1, <1>3 DEF ClocksInv, EstimatesClose
  <2>2. last' = [local |-> local, server |-> now]
    BY Zenon, <1>3 DEF Estimate
  <2>3. free \in Int /\ free - local = last.server - last.local /\ local + offset \in Int
    BY <1>1
  <2> HIDE DEF e, free
  <2>4. /\ now \in Int
        /\ (free <= now /\ now <= local + offset) \/ (local + offset <= now /\ now <= free)
    BY Zenon, <2>1, <2>3, SlewedFacts
  <2> HIDE DEF now
  <2>5. Close(now - local)
    <3> DEFINE x == free - local
               y == now - local
    <3>1. /\ x \in Int /\ y \in Int /\ Close(x)
          /\ (x <= y /\ y <= offset) \/ (offset <= y /\ y <= x)
      BY <1>1, <2>1, <2>3, <2>4
    <3> HIDE DEF x, y
    <3>2. Close(y)
      BY <1>1, <3>1 DEF Close, Distance
    <3> QED
      BY Zenon, <3>2 DEF y
  <2> QED
    BY <1>1, <2>1, <2>2, <2>4, <2>5 DEF now, free, e
<1> QED
  BY Zenon, <1>2, <1>3

LEMMA EstimateInv ==
  ASSUME ClocksInv, Estimate
  PROVE  ClocksInv'
<1>1. /\ UNCHANGED <<local, tick, probes, replies, probed, samples, offset, clock, lead, debt>>
      /\ ServerNow' = ServerNow
  BY Zenon DEF Estimate, ServerNow
<1>2. local \in Nat /\ last \in [local : Int, server : Int]
  BY Zenon DEF ClocksInv, ClocksTypes
<1>3. /\ last' \in [local : Int, server : Int]
      /\ last' # NoEstimate => /\ 0 <= last'.local /\ last'.local <= local
                               /\ Close(last'.server - last'.local)
  <2>1. CASE last' = last
    BY Zenon, <1>2, <2>1 DEF ClocksInv, EstimatesClose
  <2>2. CASE last' # last
    <3>1. /\ last' \in [local : Int, server : Int] /\ last'.local = local
          /\ Close(last'.server - local)
      BY Zenon, <2>2, NewEstimate
    <3> QED
      BY <1>2, <3>1
  <2> QED
    BY Zenon, <2>1, <2>2
<1>4. ClocksTypes'
  BY Zenon, <1>1, <1>3 DEF ClocksInv, ClocksTypes
<1>5. InOrder'
  BY Zenon, <1>1 DEF ClocksInv, InOrder
<1>6. EstimatesClose'
  BY Zenon, <1>1, <1>3 DEF ClocksInv, EstimatesClose
<1>7. SimulationClose'
  BY Zenon, <1>1 DEF ClocksInv, SimulationClose, Reported
<1> QED
  BY Zenon, <1>4, <1>5, <1>6, <1>7 DEF ClocksInv

\* A welcome reports the moment it is written.
LEMMA WelcomedInv ==
  ASSUME ClocksInv, Welcomed
  PROVE  ClocksInv'
<1>1. /\ probes' = <<>> /\ replies' = <<>> /\ probed' = 0
      /\ samples' = <<>> /\ offset' = 0 /\ last' = NoEstimate
      /\ clock' = [tick |-> tick, time |-> ServerNow, phase |-> 0, committed |-> tick]
      /\ lead' = Smaller(3, MaxLead)
      /\ debt' = Larger(debt, ServerNow - Deadline(tick))
      /\ local' = local /\ tick' = tick /\ ServerNow' = ServerNow
  BY Zenon DEF Welcomed, NewClock, ServerNow
<1>2. /\ local \in Nat /\ tick \in Nat /\ ServerNow \in Nat /\ debt \in Int
      /\ Deadline(tick) \in Nat /\ Deadline(tick) <= ServerNow
  BY Zenon, TypeFacts, DeadlineFacts DEF ClocksInv, SimulationClose
<1>3. debt' \in Int /\ ServerNow - Deadline(tick) <= debt'
  BY <1>1, <1>2 DEF Larger
<1>4. lead' \in 0..MaxLead
  <2>1. MaxLead \in Nat
    BY Zenon, ClocksAssumption
  <2> QED
    BY <1>1, <2>1 DEF Smaller
<1>5. ClocksTypes'
  BY <1>1, <1>2, <1>3, <1>4 DEF ClocksTypes, NoEstimate
<1>6. InOrder'
  BY <1>1 DEF InOrder
<1>7. EstimatesClose'
  BY <1>1 DEF EstimatesClose
<1>8. SimulationClose'
  <2>1. /\ Len(replies') = 0 /\ clock'.tick = tick /\ clock'.time = ServerNow
        /\ clock'.phase = 0 /\ clock'.committed = tick
    BY Zenon, <1>1
  <2> QED
    BY <1>1, <1>2, <1>3, <2>1 DEF SimulationClose, Reported
<1> QED
  BY Zenon, <1>5, <1>6, <1>7, <1>8 DEF ClocksInv

LEMMA ClocksStep == ClocksInv /\ [ClocksNext]_clockVars => ClocksInv'
<1> SUFFICES ASSUME ClocksInv, [ClocksNext]_clockVars PROVE ClocksInv'
  BY Zenon
<1>1. ASSUME NEW d \in 1..MaxPause, Pass(d) PROVE ClocksInv'
  BY Zenon, <1>1, PassInv
<1>2. CASE CommitTick
  BY Zenon, <1>2, CommitTickInv
<1>3. CASE SendProbe
  BY Zenon, <1>3, SendProbeInv
<1>4. CASE AnswerProbe
  BY Zenon, <1>4, AnswerProbeInv
<1>5. CASE HearReply
  BY Zenon, <1>5, HearReplyInv
<1>6. ASSUME NEW t \in 0..tick, HearCommitted(t) PROVE ClocksInv'
  BY Zenon, <1>6, HearCommittedInv
<1>7. CASE Estimate
  BY Zenon, <1>7, EstimateInv
<1>8. CASE Welcomed
  BY Zenon, <1>8, WelcomedInv
<1>9. CASE UNCHANGED clockVars
  BY Zenon, <1>9 DEF clockVars, ClocksInv, ClocksTypes, InOrder, EstimatesClose, SimulationClose,
              Reported, ServerNow
<1> QED
  BY Zenon, <1>1, <1>2, <1>3, <1>4, <1>5, <1>6, <1>7, <1>8, <1>9 DEF ClocksNext

-----------------------------------------------------------------------------
(* The theorems.                                                            *)

\* For every skew, delay, rate and configuration the estimated server time is
\* within half of the longest accepted round trip, the extrapolated simulation
\* is never ahead of the server's time nor further behind it than the reports
\* were, and no reply on the ordered channel is refused as out of order.
THEOREM ClocksAreSound == ClocksSpec => []ClocksSound
<1>1. ClocksInv => EstimateSound
  <2> SUFFICES ASSUME ClocksInv, last # NoEstimate
               PROVE  2 * Distance(last.server, last.local + Skew) <= MaxRoundTrip + 1
    BY Zenon DEF EstimateSound
  <2>1. last.local \in Int /\ last.server \in Int /\ Skew \in Nat
    BY Zenon, TypeFacts DEF ClocksInv, ClocksTypes
  <2>2. Distance(last.server - last.local, Skew) = Distance(last.server, last.local + Skew)
    BY <2>1 DEF Distance
  <2> QED
    BY Zenon, <2>2 DEF ClocksInv, EstimatesClose, Close
<1>2. ClocksInv => SimulationFollows
  <2> SUFFICES ASSUME ClocksInv PROVE SimulationFollows
    BY Zenon
  <2> DEFINE e == Extrapolated(clock, ServerNow)
             c == Ceiling(clock, lead)
             d == Deadline(clock.committed)
             shown == Elapsed(clock, ServerNow, lead)
  <2>1. /\ clock.tick \in Nat /\ clock.time \in Nat /\ clock.phase \in Int
        /\ clock.committed \in Nat /\ tick \in Nat /\ ServerNow \in Nat /\ debt \in Int
    BY Zenon, TypeFacts DEF ClocksInv
  <2>2. /\ clock.time <= ServerNow /\ Deadline(clock.tick) + clock.phase <= clock.time
        /\ clock.time - (Deadline(clock.tick) + clock.phase) <= debt
        /\ clock.committed <= tick /\ Deadline(tick) <= ServerNow
    BY Zenon DEF ClocksInv, SimulationClose, Reported
  <2>3. Deadline(clock.tick) \in Nat /\ d \in Nat /\ Deadline(tick) \in Nat
    BY Zenon, <2>1, DeadlineFacts
  <2>4. e = Deadline(clock.tick) + clock.phase + (ServerNow - clock.time)
    BY <2>1, <2>2, <2>3 DEF Extrapolated, Larger
  <2>5. e \in Int /\ e <= ServerNow /\ ServerNow - e <= debt
    BY <2>1, <2>2, <2>3, <2>4
  <2>6. d <= ServerNow
    <3>1. d <= Deadline(tick)
      BY Zenon, <2>1, <2>2, DeadlineFacts
    <3> QED
      BY <2>1, <2>2, <2>3, <3>1
  <2>7. c \in Nat
    <3>1. lead \in 0..MaxLead /\ MaxLead \in Nat /\ MaxAhead \in Nat /\ MaxLead <= MaxAhead
      BY Zenon, ClocksAssumption DEF ClocksInv, ClocksTypes
    <3>2. clock.committed + MaxAhead - lead \in Nat
      BY <2>1, <3>1
    <3> QED
      BY Zenon, <3>2, DeadlineFacts DEF Ceiling
  <2>8. shown = Smaller(Larger(e, d), c)
    BY Zenon DEF Elapsed
  <2> HIDE DEF e, c, d, shown
  <2>9. shown <= ServerNow /\ (shown < c => ServerNow - shown <= debt)
    BY <2>1, <2>3, <2>5, <2>6, <2>7, <2>8 DEF Smaller, Larger
  <2> QED
    BY Zenon, <2>9 DEF SimulationFollows, ClocksInv, SimulationClose, c, shown
<1>3. ClocksInv => RepliesInOrder
  <2> SUFFICES ASSUME ClocksInv, replies # <<>>
               PROVE  /\ ~Retreats(clock, Head(replies).tick, Head(replies).at)
                      /\ ~NonMonotonic(Sample(Head(replies), local))
    BY Zenon DEF RepliesInOrder
  <2>1. Head(replies) = replies[1] /\ 1 \in 1..Len(replies)
    BY Zenon, TypeFacts, TailFacts DEF ClocksInv
  <2>2. ~Retreats(clock, replies[1].tick, replies[1].at)
    <3>1. clock.time <= replies[1].at /\ clock.tick <= replies[1].tick
      BY Zenon, <2>1 DEF ClocksInv, InOrder
    <3>2. /\ clock.time \in Nat /\ clock.tick \in Nat
          /\ replies[1].at \in Nat /\ replies[1].tick \in Nat
      BY Zenon, <2>1, TypeFacts DEF ClocksInv
    <3> QED
      BY <3>1, <3>2 DEF Retreats
  <2>3. ASSUME samples # <<>>
        PROVE  /\ samples[Len(samples)].received <= local
               /\ samples[Len(samples)].sent < replies[1].sent
               /\ samples[Len(samples)].received \in Nat /\ samples[Len(samples)].sent \in Nat
    <3>1. Len(samples) \in 1..Len(samples)
      BY <2>3, TypeFacts DEF ClocksInv
    <3> QED
      BY Zenon, <2>1, <3>1, TypeFacts DEF ClocksInv, InOrder
  <2>4. Sample(replies[1], local).received = local
        /\ Sample(replies[1], local).sent = replies[1].sent
    BY Zenon DEF Sample
  <2>5. local \in Nat /\ replies[1].sent \in Nat
    BY Zenon, <2>1, TypeFacts DEF ClocksInv
  <2>6. ~NonMonotonic(Sample(replies[1], local))
    BY <2>3, <2>4, <2>5 DEF NonMonotonic
  <2> QED
    BY Zenon, <2>1, <2>2, <2>6
<1>4. ClocksInv => ClocksSound
  BY Zenon, <1>1, <1>2, <1>3 DEF ClocksSound
<1> QED
  BY <1>4, ClocksStart, ClocksStep, PTL DEF ClocksSpec

\* The estimated server time never goes back within a session, and is never
\* slewed by more than the configured share of the time that passed.
THEOREM EstimateMovesForward == ClocksSpec => EstimateForward
<1>1. ASSUME ClocksInv, [ClocksNext]_clockVars PROVE EstimateAdvances
  <2> SUFFICES ASSUME last # NoEstimate, last' # NoEstimate PROVE EstimateAdvances
    BY Zenon DEF EstimateAdvances
  <2>1. last.local \in Int /\ last.server \in Int
    BY Zenon, <1>1 DEF ClocksInv, ClocksTypes
  <2>2. CASE last' = last
    <3>1. Adjustment(0) \in Nat
      BY Zenon, AdjustmentFacts
    <3>2. last'.local - last.local = 0 /\ last.server + 0 = last.server
      BY <2>1, <2>2
    <3> QED
      BY <2>1, <2>2, <3>1, <3>2 DEF EstimateAdvances, Distance
  <2>3. CASE last' # last
    <3>1. CASE Estimate
      <4> DEFINE e == local - last.local
                 free == last.server + e
                 target == local + offset
      <4>1. last'.local = local /\ e \in Nat /\ last'.server = Slewed(free, target, e)
        BY Zenon, <1>1, <2>3, <3>1, NewEstimate
      <4>2. free \in Int /\ target \in Int
        BY SMTT(30), <1>1, <2>1, <4>1 DEF ClocksInv, ClocksTypes
      <4>3. /\ Slewed(free, target, e) \in Int
            /\ Distance(Slewed(free, target, e), free) <= Adjustment(e)
        BY Zenon, <4>1, <4>2, SlewedFacts
      <4>4. Adjustment(e) \in Nat /\ Adjustment(e) <= e
        BY Zenon, <4>1, AdjustmentFacts
      <4>5. last'.server >= last.server
        <5>1. last'.server \in Int /\ Distance(last'.server, free) <= e
          BY <4>1, <4>2, <4>3, <4>4 DEF Distance
        <5> QED
          BY <2>1, <4>1, <5>1 DEF Distance
      <4> QED
        BY Zenon, <4>1, <4>3, <4>5 DEF EstimateAdvances
    <3>2. CASE Welcomed
      BY Zenon, <3>2 DEF Welcomed
    <3> QED
      BY Zenon, <1>1, <2>3, <3>1, <3>2
      DEF ClocksNext, clockVars, Pass, CommitTick, SendProbe, AnswerProbe, HearReply, HearCommitted
  <2> QED
    BY Zenon, <2>2, <2>3
<1>2. ClocksInv /\ [ClocksNext]_clockVars => [EstimateAdvances]_clockVars
  BY Zenon, <1>1
<1> QED
  BY <1>2, ClocksStart, ClocksStep, PTL DEF ClocksSpec, EstimateForward

=============================================================================
