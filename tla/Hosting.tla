------------------------------- MODULE Hosting -------------------------------
(***************************************************************************)
(* The hosted instance: the tick clock (engine/net/src/clock.rs), the      *)
(* driver that polls it (engine/server/src/plugins/server), the health     *)
(* report the HTTP thread reads (engine/server/src/health.rs, http_api.rs) *)
(* and the admission of connections behind both.                           *)
(*                                                                         *)
(* Time is wall time in whole ticks.  A poll takes time: PollBegins runs   *)
(* the first half (observe, transport events, receive), PollEnds the       *)
(* second (the due ticks, observe, publish, send), and the clock may run   *)
(* between them while the HTTP thread answers.  Bevy samples elapsed in    *)
(* the same frame, taken to be the same tick as the poll's start.          *)
(*                                                                         *)
(* The bootstrap service (renet_cross) is modelled from its use: it issues *)
(* at most max_clients sessions and activates one it issued and did not    *)
(* release.  Left out: CORS and TLS, the egress statistics, the payloads.  *)
(*                                                                         *)
(* The proofs at the end are for every limit and interval.                 *)
(***************************************************************************)
EXTENDS Naturals, FiniteSets, FiniteSetTheorems, TLAPS

CONSTANTS
  Sessions,          \* client ids the bootstrap service may issue
  MaxClients,        \* SharedNet.max_clients
  CatchupLimit,      \* TickClock.catchup_limit
  SnapshotInterval,  \* TickClock.snapshot_interval
  MaxWall            \* bound: the last wall tick explored

ASSUME HostingAssumption ==
  {MaxClients, CatchupLimit, SnapshotInterval, MaxWall} \subseteq Nat \ {0}

VARIABLES
  wall,       \* the wall tick
  tickClock,  \* TickClock
  health,     \* State of InstanceHealth
  poll,       \* the poll under way
  session,    \* [Sessions -> what became of the session]
  published,  \* newest tick published
  ended       \* ServerFailure / AppExit: "no", "exit" or "done"

hostingVars == <<wall, tickClock, health, poll, session, published, ended>>

NoObservation == [seen |-> FALSE, elapsed |-> 0, startedAt |-> 0, committed |-> 0]
Resting       == [active |-> FALSE, elapsed |-> 0, startedAt |-> 0]

\* HTTP startup succeeded; TickClock::new and InstanceHealth::bind.
HostingInit ==
  /\ wall = 0
  /\ tickClock = [committed |-> 0, flushed |-> 0, pending |-> FALSE]
  /\ health = [observation |-> NoObservation, stopped |-> FALSE]
  /\ poll = Resting
  /\ session = [s \in Sessions |-> "none"]
  /\ published = 0
  /\ ended = "no"

-----------------------------------------------------------------------------
(* The clock and the report.                                               *)

Debt(due, committed) == IF due > committed THEN due - committed ELSE 0

\* TickHealth.overloaded at elapsed.
ClockOverloaded(elapsed) == Debt(elapsed, tickClock.committed) > CatchupLimit


\* report_at extrapolates the observation to the time of the report.
ReportedDebt ==
  Debt(health.observation.elapsed + (wall - health.observation.startedAt),
       health.observation.committed)

ReportStatus ==
  CASE health.stopped                -> "Stopped"
    [] ~health.observation.seen      -> "Starting"
    [] ReportedDebt > CatchupLimit   -> "Overloaded"
    [] OTHER                         -> "Ready"

Observed(elapsed, startedAt, committed) ==
  [health EXCEPT !.observation = [seen |-> TRUE, elapsed |-> elapsed,
                                  startedAt |-> startedAt, committed |-> committed]]

IsSnapshotTick(t) == t % SnapshotInterval = 0

\* The ticks one advance executes.
DueTicks(elapsed) ==
  {t \in (tickClock.committed + 1)..elapsed : t <= tickClock.committed + CatchupLimit}

\* A flush that is not due still takes the pending publication.
MutantAdvanced(elapsed) ==
  [committed |-> tickClock.committed + Cardinality(DueTicks(elapsed)),
   flushed |-> elapsed, pending |-> FALSE]

\* advance_ticked: the clock after it.  A publication waits for a flush, and
\* a flush for the wall tick to move.
Advanced(elapsed) ==
  [committed |-> tickClock.committed + Cardinality(DueTicks(elapsed)),
   flushed   |-> elapsed,
   pending   |-> /\ elapsed = tickClock.flushed
                 /\ tickClock.pending \/ \E t \in DueTicks(elapsed) : IsSnapshotTick(t)]

SendDue(elapsed) == elapsed > tickClock.flushed

SnapshotDue(elapsed) ==
  /\ SendDue(elapsed)
  /\ tickClock.pending \/ \E t \in DueTicks(elapsed) : IsSnapshotTick(t)

-----------------------------------------------------------------------------
(* Sessions.  issued: a grant was answered over HTTP.  arrived: renet       *)
(* queued ClientConnected.  admitted: the authority has it.  leaving: renet *)
(* queued ClientDisconnected.                                               *)

Reserved == {s \in Sessions : session[s] \in {"issued", "arrived", "admitted", "leaving"}}

\* /api/session/new behind admission_readiness.
RequestSession(s) ==
  /\ ended # "done"
  /\ ReportStatus = "Ready"
  /\ session[s] = "none"
  /\ Cardinality(Reserved) < MaxClients
  /\ session' = [session EXCEPT ![s] = "issued"]
  /\ UNCHANGED <<wall, tickClock, health, poll, published, ended>>

\* The handshake completes, or a connected client goes away.
TransportEvent(s) ==
  /\ ended = "no"
  /\ ~poll.active
  /\ \/ session[s] = "issued"   /\ session' = [session EXCEPT ![s] = "arrived"]
     \/ session[s] = "admitted" /\ session' = [session EXCEPT ![s] = "leaving"]
  /\ UNCHANGED <<wall, tickClock, health, poll, published, ended>>

\* The events one poll handles.  refusals are the clients the authority's own
\* admit_authenticated turns down.
AfterEvents(healthy, refusals) ==
  [s \in Sessions |->
     CASE session[s] = "arrived" -> IF healthy /\ s \notin refusals THEN "admitted" ELSE "refused"
       [] session[s] = "leaving" -> "left"
       [] OTHER                  -> session[s]]

-----------------------------------------------------------------------------
(* The driver.                                                             *)

\* poll up to the ticks.
PollBegins(refusals) ==
  /\ ended = "no"
  /\ ~poll.active
  /\ poll' = [active |-> TRUE, elapsed |-> wall, startedAt |-> wall]
  /\ health' = Observed(wall, wall, tickClock.committed)
  /\ session' = AfterEvents(~ClockOverloaded(wall), refusals)
  /\ UNCHANGED <<wall, tickClock, published, ended>>

\* The rest of poll.  send_packets needs the transport lock: when it is
\* poisoned, poll_server records the failure and asks the app to exit.
PollEnds ==
  /\ poll.active
  /\ tickClock' = Advanced(poll.elapsed)
  /\ health' = Observed(poll.elapsed, poll.startedAt, tickClock'.committed)
  /\ published' = IF SnapshotDue(poll.elapsed) THEN tickClock'.committed ELSE published
  /\ poll' = Resting
  /\ ended' \in IF SendDue(poll.elapsed) THEN {"no", "exit"} ELSE {"no"}
  /\ UNCHANGED <<wall, session>>

\* The transport lock is already poisoned when the poll begins.
PollFails ==
  /\ ended = "no"
  /\ ~poll.active
  /\ health' = Observed(wall, wall, tickClock.committed)
  /\ ended' = "exit"
  /\ UNCHANGED <<wall, tickClock, poll, session, published>>

\* The app is asked to exit by a signal.
AskExit ==
  /\ ended = "no"
  /\ ~poll.active
  /\ ended' = "exit"
  /\ UNCHANGED <<wall, tickClock, health, poll, session, published>>

\* shutdown_server in Last, and the driver's Drop.
Shutdown ==
  /\ ended = "exit"
  /\ ended' = "done"
  /\ health' = [health EXCEPT !.stopped = TRUE]
  /\ session' = [s \in Sessions |-> IF session[s] \in {"arrived", "admitted", "leaving"}
                                    THEN "left" ELSE session[s]]
  /\ UNCHANGED <<wall, tickClock, poll, published>>

\* Bound: MaxWall.
TimePasses ==
  /\ wall < MaxWall
  /\ wall' = wall + 1
  /\ UNCHANGED <<tickClock, health, poll, session, published, ended>>

HostingNext ==
  \/ \E s \in Sessions : RequestSession(s) \/ TransportEvent(s)
  \/ \E refusals \in SUBSET {s \in Sessions : session[s] = "arrived"} : PollBegins(refusals)
  \/ PollEnds
  \/ PollFails
  \/ AskExit
  \/ Shutdown
  \/ TimePasses

HostingSpec == HostingInit /\ [][HostingNext]_hostingVars

-----------------------------------------------------------------------------

\* An instance that reports Ready can serve: it still runs, and it owes no
\* more ticks than one poll executes, however long the poll under way has
\* stalled (health.rs: "A cached healthy report must not keep admission open
\* forever", driver.rs: shutdown, poll_server after a failure).
ReadyIsTrue ==
  ReportStatus = "Ready" => /\ ended # "done"
                            /\ Debt(wall, tickClock.committed) <= CatchupLimit

\* No publication is lost to catch-up: a tick of the snapshot cadence that was
\* executed has been published, itself or by a later state, unless its
\* publication is still pending for the next flush (clock.rs, advance_ticked:
\* "Several overdue publications coalesce to the latest complete committed").
PublicationKept ==
  \A t \in 1..tickClock.committed : IsSnapshotTick(t) => tickClock.pending \/ published >= t

\* What the host reports and publishes is true of its clock.
HostTrue == ReadyIsTrue /\ PublicationKept

-----------------------------------------------------------------------------
(* Proof that HostTrue holds for every limit, interval and number of        *)
(* sessions.  The inductive invariant adds how far behind the report and    *)
(* the clock may be: an observation was taken in the tick it extrapolates   *)
(* from, and what it saw committed is committed still.                      *)

HostTypes ==
  /\ wall \in Nat /\ published \in Nat
  /\ tickClock \in [committed : Nat, flushed : Nat, pending : BOOLEAN]
  /\ health \in [observation : [seen : BOOLEAN, elapsed : Nat, startedAt : Nat, committed : Nat],
                 stopped : BOOLEAN]
  /\ poll \in [active : BOOLEAN, elapsed : Nat, startedAt : Nat]
  /\ ended \in {"no", "exit", "done"}

HostInv ==
  /\ HostTypes
  /\ ended = "done" => health.stopped = TRUE
  /\ health.observation.startedAt = health.observation.elapsed
  /\ health.observation.elapsed <= wall
  /\ health.observation.committed <= tickClock.committed
  /\ tickClock.flushed <= wall
  /\ poll.active = TRUE => /\ poll.startedAt = poll.elapsed /\ poll.elapsed <= wall
                           /\ tickClock.flushed <= poll.elapsed
  /\ PublicationKept

\* The due ticks of an advance are the ones after the committed tick, so that
\* their number takes the clock to the last of them.
LEMMA DueTicksFollow ==
  ASSUME HostTypes, NEW elapsed \in Nat
  PROVE  /\ Cardinality(DueTicks(elapsed)) \in Nat
         /\ \A t \in (tickClock.committed + 1)..(tickClock.committed + Cardinality(DueTicks(elapsed))) :
              t \in DueTicks(elapsed)
<1> DEFINE c == tickClock.committed
           end == IF elapsed <= c + CatchupLimit THEN elapsed ELSE c + CatchupLimit
<1>1. c \in Nat /\ CatchupLimit \in Nat
  BY Zenon, HostingAssumption DEF HostTypes
<1>2. DueTicks(elapsed) = (c + 1)..end
  BY <1>1 DEF DueTicks
<1> HIDE DEF c
<1>3. c + 1 \in Int /\ end \in Int
  BY <1>1
<1> HIDE DEF end
<1>4. Cardinality(DueTicks(elapsed)) = IF c + 1 > end THEN 0 ELSE end - (c + 1) + 1
  BY Zenon, <1>2, <1>3, FS_Interval
<1> QED BY SMTT(30), <1>1, <1>2, <1>3, <1>4 DEF c

\* advance_ticked and the publication after it.
LEMMA PollEndsInv ==
  ASSUME HostInv, PollEnds
  PROVE  HostInv'
<1> DEFINE e == poll.elapsed
           n == Cardinality(DueTicks(e))
           c == tickClock.committed
<1>1. /\ HostTypes /\ poll.active = TRUE /\ e \in Nat /\ e <= wall /\ tickClock.flushed <= e
      /\ poll.startedAt = e /\ c \in Nat /\ tickClock.flushed \in Nat
      /\ tickClock.pending \in BOOLEAN /\ published \in Nat /\ wall \in Nat
  BY Zenon DEF HostInv, HostTypes, PollEnds
<1>2. n \in Nat /\ \A t \in (c + 1)..(c + n) : t \in DueTicks(e)
  BY Zenon, <1>1, DueTicksFollow
<1>3. /\ tickClock' = Advanced(e) /\ poll' = Resting
      /\ health' = Observed(e, e, tickClock'.committed)
      /\ published' = IF SnapshotDue(e) THEN tickClock'.committed ELSE published
      /\ ended' \in {"no", "exit"} /\ wall' = wall
  BY Zenon, <1>1 DEF PollEnds
<1> HIDE DEF e, n, c
<1> DEFINE owed == tickClock.pending \/ \E t \in DueTicks(e) : IsSnapshotTick(t)
<1>4. /\ tickClock' = [committed |-> c + n, flushed |-> e, pending |-> e = tickClock.flushed /\ owed]
      /\ SnapshotDue(e) <=> e > tickClock.flushed /\ owed
  BY Zenon, <1>3 DEF Advanced, SnapshotDue, SendDue, c, n
<1>5. /\ tickClock'.committed = c + n /\ tickClock'.flushed = e /\ c + n \in Nat
      /\ tickClock'.pending = (e = tickClock.flushed /\ owed)
  BY <1>1, <1>2, <1>4
<1>6. published' \in Nat
  BY Zenon, <1>1, <1>3, <1>5
<1>7. /\ health'.observation.elapsed = e /\ health'.observation.startedAt = e
      /\ health'.observation.committed = c + n
      /\ health' \in [observation : [seen : BOOLEAN, elapsed : Nat, startedAt : Nat, committed : Nat],
                      stopped : BOOLEAN]
  BY Zenon, <1>1, <1>3, <1>5 DEF Observed, HostTypes
<1>8. HostTypes'
  <2>1. tickClock' \in [committed : Nat, flushed : Nat, pending : BOOLEAN]
    BY Zenon, <1>1, <1>4, <1>5
  <2> QED BY Zenon, <1>1, <1>3, <1>6, <1>7, <2>1 DEF HostTypes, Resting
<1>9. PublicationKept'
  <2> SUFFICES ASSUME NEW t \in 1..(c + n), IsSnapshotTick(t)
               PROVE  tickClock'.pending \/ published' >= t
    BY Zenon, <1>5 DEF PublicationKept, IsSnapshotTick
  <2>1. t \in Nat /\ t <= c + n
    BY <1>5
  <2>2. owed \/ published >= t
    <3>1. CASE t <= c
      <4>1. t \in 1..tickClock.committed
        BY <1>1, <3>1 DEF c
      <4> QED BY Zenon, <4>1 DEF HostInv, PublicationKept
    <3>2. CASE ~(t <= c)
      <4>1. t \in (c + 1)..(c + n)
        BY <1>1, <2>1, <3>2
      <4> QED BY Zenon, <1>2, <4>1
    <3> QED BY Zenon, <3>1, <3>2
  <2> HIDE DEF owed
  <2>3. CASE owed /\ e > tickClock.flushed
    BY Zenon, <1>3, <1>4, <1>5, <2>1, <2>3
  <2>4. CASE owed /\ ~(e > tickClock.flushed)
    <3>1. e = tickClock.flushed
      BY <1>1, <2>4
    <3> QED BY Zenon, <1>5, <2>4, <3>1
  <2>5. CASE ~owed
    BY Zenon, <1>3, <1>4, <2>2, <2>5
  <2> QED BY Zenon, <2>3, <2>4, <2>5
<1>10. /\ health'.observation.elapsed <= wall' /\ tickClock'.flushed <= wall'
       /\ health'.observation.committed <= tickClock'.committed
  BY <1>1, <1>3, <1>5, <1>7
<1>11. ended' # "done" /\ poll'.active = FALSE
  BY Zenon, <1>3 DEF Resting
<1> QED BY Zenon, <1>7, <1>8, <1>9, <1>10, <1>11 DEF HostInv

\* An observation of the poll that begins in this tick.
LEMMA ObservedInv ==
  ASSUME HostInv, health' = Observed(wall, wall, tickClock.committed),
         UNCHANGED <<wall, tickClock, published>>, ended' \in {"no", "exit"},
         poll' = poll \/ poll' = [active |-> TRUE, elapsed |-> wall, startedAt |-> wall]
  PROVE  HostInv'
<1>1. /\ HostTypes /\ wall \in Nat /\ tickClock.committed \in Nat /\ tickClock.flushed \in Nat
      /\ wall' = wall /\ tickClock' = tickClock /\ published' = published
  BY Zenon DEF HostInv, HostTypes
<1>2. /\ health'.observation.elapsed = wall /\ health'.observation.startedAt = wall
      /\ health'.observation.committed = tickClock.committed
      /\ health' \in [observation : [seen : BOOLEAN, elapsed : Nat, startedAt : Nat, committed : Nat],
                      stopped : BOOLEAN]
  BY Zenon, <1>1 DEF Observed, HostTypes
<1>3. /\ poll' \in [active : BOOLEAN, elapsed : Nat, startedAt : Nat]
      /\ poll'.active = TRUE => /\ poll'.startedAt = poll'.elapsed /\ poll'.elapsed <= wall
                                /\ tickClock.flushed <= poll'.elapsed
  <2>1. CASE poll' = poll
    BY Zenon, <2>1 DEF HostInv, HostTypes
  <2>2. CASE poll' = [active |-> TRUE, elapsed |-> wall, startedAt |-> wall]
    BY <1>1, <2>2 DEF HostInv
  <2> QED BY Zenon, <2>1, <2>2
<1>4. HostTypes'
  BY Zenon, <1>1, <1>2, <1>3 DEF HostTypes
<1>5. PublicationKept'
  BY Zenon, <1>1 DEF HostInv, PublicationKept, IsSnapshotTick
<1> QED BY <1>1, <1>2, <1>3, <1>4, <1>5 DEF HostInv

\* Every step of the host keeps the invariant.
LEMMA HostStep ==
  ASSUME HostInv, [HostingNext]_hostingVars
  PROVE  HostInv'
<1>1. ASSUME NEW s \in Sessions, RequestSession(s) \/ TransportEvent(s) PROVE HostInv'
  <2>1. UNCHANGED <<wall, tickClock, health, poll, published, ended>>
    BY Zenon, <1>1 DEF RequestSession, TransportEvent
  <2> QED BY Zenon, <2>1 DEF HostInv, HostTypes, PublicationKept, IsSnapshotTick
<1>2. ASSUME NEW refusals, PollBegins(refusals) PROVE HostInv'
  BY Zenon, <1>2, ObservedInv DEF PollBegins
<1>3. CASE PollEnds
  BY Zenon, <1>3, PollEndsInv
<1>4. CASE PollFails
  BY Zenon, <1>4, ObservedInv DEF PollFails
<1>5. CASE AskExit
  BY Zenon, <1>5 DEF AskExit, HostInv, HostTypes, PublicationKept, IsSnapshotTick
<1>6. CASE Shutdown
  BY Zenon, <1>6 DEF Shutdown, HostInv, HostTypes, PublicationKept, IsSnapshotTick
<1>7. CASE TimePasses
  <2>1. wall \in Nat /\ wall' = wall + 1 /\ UNCHANGED <<tickClock, health, poll, published, ended>>
    BY Zenon, <1>7 DEF TimePasses, HostInv, HostTypes
  <2> QED BY <2>1 DEF HostInv, HostTypes, PublicationKept, IsSnapshotTick
<1>8. CASE UNCHANGED hostingVars
  BY Zenon, <1>8 DEF hostingVars, HostInv, HostTypes, PublicationKept, IsSnapshotTick
<1> QED BY Zenon, <1>1, <1>2, <1>3, <1>4, <1>5, <1>6, <1>7, <1>8 DEF HostingNext

\* HostTrue of every host: an instance that reports Ready runs and owes no more
\* ticks than one poll executes, and catch-up loses no publication.
THEOREM HostStaysTrue ==
  HostingSpec => []HostTrue
<1>1. HostingInit => HostInv
  BY DEF HostingInit, HostInv, HostTypes, PublicationKept, NoObservation, Resting
<1>2. HostInv => HostTrue
  <2> SUFFICES ASSUME HostInv, ReportStatus = "Ready"
               PROVE  ended # "done" /\ Debt(wall, tickClock.committed) <= CatchupLimit
    BY Zenon DEF HostTrue, ReadyIsTrue, HostInv
  <2> DEFINE o == health.observation
  <2>1. /\ wall \in Nat /\ o.elapsed \in Nat /\ o.startedAt \in Nat /\ o.committed \in Nat
        /\ tickClock.committed \in Nat /\ CatchupLimit \in Nat
    BY Zenon, HostingAssumption DEF HostInv, HostTypes
  <2>2. health.stopped \in BOOLEAN
    BY Zenon DEF HostInv, HostTypes
  <2>3. ~health.stopped /\ ~(ReportedDebt > CatchupLimit)
    BY Zenon DEF ReportStatus
  <2>4. o.elapsed + (wall - o.startedAt) = wall /\ o.committed <= tickClock.committed
    BY <2>1 DEF HostInv
  <2>5. ~(Debt(wall, o.committed) > CatchupLimit)
    BY Zenon, <2>3, <2>4 DEF ReportedDebt
  <2>6. Debt(wall, tickClock.committed) <= CatchupLimit
    BY <2>1, <2>4, <2>5 DEF Debt
  <2>7. ended # "done"
    BY Zenon, <2>3 DEF HostInv
  <2> QED BY Zenon, <2>6, <2>7
<1> QED BY <1>1, <1>2, HostStep, PTL DEF HostingSpec

=============================================================================
