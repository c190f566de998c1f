------------------------------- MODULE Scheduler -------------------------------
(***************************************************************************)
(* What a connection is sent in each publication                           *)
(* (engine/net/src/scheduling.rs): due units are put in order of age and   *)
(* priority and chosen within a byte budget that refills with time; a unit *)
(* that the transport accepts is charged and starts a new period.          *)
(*                                                                         *)
(* A publication is one step, one tick after the last: schedule and then,  *)
(* unless the plan is stale by then, transmit.  The units that are asked   *)
(* for, the transport's allowance and what it accepts are any (the server  *)
(* asks for a unit while its state is unacknowledged).  Ages are counted   *)
(* up to AgeBound.  Bytes are whole units of budget, so the fraction that  *)
(* the code keeps of a refill is none.  Left out: refusals of requests     *)
(* that are malformed or not authorized, which change nothing.             *)
(***************************************************************************)
EXTENDS Integers, FiniteSets, SequencesExt, TLC

CONSTANTS
  Units,         \* identities, numbers: ties go to the smaller
  Bytes,         \* unit -> wire_bytes
  Period,        \* unit -> cadence.period_ticks
  MaximumAge,    \* unit -> cadence.maximum_age_ticks
  Priority,      \* unit -> cadence.priority
  Critical,      \* the units with cadence.critical
  Refill,        \* bytes a tick
  Burst,         \* SchedulerLimits.burst_bytes
  ReserveTenths, \* SchedulerLimits.critical_reserve
  AgeBound       \* bound of the ages

ASSUME SchedulerAssumption ==
  /\ Units \subseteq Int /\ {Refill, Burst} \subseteq Nat \ {0} /\ ReserveTenths \in 0..10
  /\ \A u \in Units : /\ Bytes[u] \in Nat \ {0} /\ Period[u] \in Nat \ {0}
                      /\ MaximumAge[u] \in Nat /\ MaximumAge[u] >= Period[u]

VARIABLES
  tokens,      \* the byte budget
  ages,        \* unit -> ticks since it was last sent, or first asked for
  ever,        \* the units with last_transmitted
  wanted,      \* the units asked for in the last publication
  chosen,      \* and those sent
  free,        \* whether the transport refused nothing
  parity       \* of the tick, so that every publication is a step

schedulerVars == <<tokens, ages, ever, wanted, chosen, free, parity>>

Less(x, y) == IF x < y THEN x ELSE y

Due(u, age, sent) == u \in sent => age[u] >= Period[u]

\* due.sort_by: overdue first and the longest overdue of them, then by age and
\* priority, then by identity.
Overdue(u, age) == age[u] - MaximumAge[u]


Before(u, v, age) ==
  LET late(w) == Overdue(w, age) >= 0
      over(w) == IF late(w) THEN Overdue(w, age) ELSE 0
      score(w) == age[w] + Priority[w]
  IN \/ late(u) /\ ~late(v)
     \/ late(u) = late(v) /\ over(u) > over(v)
     \/ late(u) = late(v) /\ over(u) = over(v) /\ score(u) > score(v)
     \/ late(u) = late(v) /\ over(u) = over(v) /\ score(u) = score(v) /\ u < v

\* Mutant: the reserve is chosen from beside the budget.
MutantSelected(order, budget) ==
  LET reserve == (budget * ReserveTenths) \div 10
      take(s, u, ok) == IF ok /\ Bytes[u] <= budget - s.used
                        THEN [used |-> s.used + Bytes[u], units |-> Append(s.units, u)] ELSE s
      first == FoldLeft(LAMBDA s, u : take(s, u, u \in Critical /\ s.used < reserve),
                        [used |-> 0, units |-> << >>], order)
  IN FoldLeft(LAMBDA s, u : take(s, u, u \notin ToSet(s.units)),
              [used |-> 0, units |-> first.units], order).units

\* Critical units first, until the reserve is used; then whatever fits.
Selected(order, budget) ==
  LET reserve == (budget * ReserveTenths) \div 10
      take(s, u, ok) == IF ok /\ Bytes[u] <= budget - s.used
                        THEN [used |-> s.used + Bytes[u], units |-> Append(s.units, u)] ELSE s
      first == FoldLeft(LAMBDA s, u : take(s, u, u \in Critical /\ s.used < reserve),
                        [used |-> 0, units |-> << >>], order)
  IN FoldLeft(LAMBDA s, u : take(s, u, u \notin ToSet(s.units)), first, order).units

TotalBytes(units) == FoldLeft(LAMBDA n, u : n + Bytes[u], 0, units)

\* schedule, for the units asked for: history is kept of these alone.
Planned(asked, allowance) ==
  LET filled == Less(tokens + Refill, Burst)
      age == [u \in Units |-> IF u \in asked /\ u \in wanted THEN Less(ages[u] + 1, AgeBound) ELSE 0]
      sent == ever \cap asked \cap wanted
      due == {u \in asked : Due(u, age, sent) /\ Bytes[u] <= Burst}
      order == SortSeq(SetToSeq(due), LAMBDA u, v : Before(u, v, age))
  IN [tokens |-> filled, ages |-> age, ever |-> sent,
      units |-> Selected(order, Less(allowance, filled))]

\* One publication: the transport takes the units of accepted.
Publish(asked, allowance, accepted) ==
  \E plan \in {Planned(asked, allowance)} :
    LET done == SelectSeq(plan.units, LAMBDA u : u \in accepted)
    IN /\ tokens' = plan.tokens - TotalBytes(done)
       /\ ages' = [u \in Units |-> IF u \in ToSet(done) THEN 0 ELSE plan.ages[u]]
       /\ ever' = plan.ever \cup ToSet(done)
       /\ wanted' = asked
       /\ chosen' = ToSet(done)
       /\ free' = (allowance = Burst /\ done = plan.units)
       /\ parity' = 1 - parity

SchedulerInit ==
  /\ tokens = Burst /\ ages = [u \in Units |-> 0] /\ ever = {} /\ wanted = {} /\ chosen = {}
  /\ free = TRUE /\ parity = 0

SchedulerNext ==
  \E asked \in SUBSET Units, allowance \in {1, Burst} :
    \E accepted \in SUBSET asked : Publish(asked, allowance, accepted)

\* The server publishes every tick.
SchedulerSpec == SchedulerInit /\ [][SchedulerNext]_schedulerVars /\ WF_schedulerVars(SchedulerNext)

-----------------------------------------------------------------------------
\* The byte budget is never overdrawn (transmit would underflow it), whatever
\* the reserve takes first and the transport refuses.
NeverOverdrawn == tokens \in 0..Burst

=============================================================================
