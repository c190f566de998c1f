---------------------------- MODULE ActionOutcomes ----------------------------
(***************************************************************************)
(* The life of an action's result: reserved when its command is admitted,  *)
(* decided when the command is refused or runs, delivered to its owner,    *)
(* looked up after a reconnection, and forgotten                           *)
(* (games/dreamwake/server/src/authority.rs, authority/outcomes.rs,        *)
(* authority/publish.rs and client/src/plugins/network/outcomes.rs).       *)
(*                                                                         *)
(* Abstractions.                                                           *)
(*  - The inbox is what CommandInbox shows of it: a command keeps its      *)
(*    first verdict, a copy gets that verdict, Duplicate or Retired.       *)
(*    Command c targets the c-th tick of its connection, and whether       *)
(*    another command has that tick is left open.                          *)
(*  - One owner, whose peer is active.  The others only use room in the    *)
(*    normal ledger.                                                       *)
(*  - The client's 30 seconds of memory start no later than the target of  *)
(*    the command, and the ledger's 30 seconds at it, so that both are     *)
(*    Retention ticks from the target.                                     *)
(***************************************************************************)
EXTENDS Integers, Sequences, FiniteSets, SequencesExt

CONSTANTS
  MaxEpoch,         \* bound: connections of the owner
  MaxCommand,       \* bound: commands per connection
  MaxTick,          \* bound: ticks of the authority
  MaxBundles,       \* bound: deliveries of bundles
  MaxResults,       \* bound: results ever issued
  MaxOthers,        \* bound: records of other owners
  MaxLane,          \* bound: control messages on their way when a lookup is sent
  Slots,            \* action slots of every command
  BundleCommands,   \* commands of a bundle
  FutureTicks,      \* CommandLimits.future_ticks
  NormalRecords,    \* capacity of the normal ledger
  OverloadRecords,  \* capacity of the overload ledger
  WindowLimit,      \* outcome_batches limit
  BatchRecords,     \* records of a batch
  LookupLimit,      \* lookups a peer may have waiting
  Retention,        \* OutcomeLimits.retention_ticks
  ExpireEvery       \* TICK_HZ: expire runs on multiples of this tick

OutcomesAssumption ==
  /\ \A n \in {MaxEpoch, MaxCommand, MaxTick, BundleCommands, FutureTicks, NormalRecords,
               OverloadRecords, WindowLimit, BatchRecords, LookupLimit, Retention, ExpireEvery} :
       n \in Nat \ {0}
  /\ {MaxBundles, MaxResults, MaxLane} \subseteq Nat
  /\ MaxOthers \in 0..NormalRecords
  /\ Slots \subseteq 0..7 /\ Slots # {}

Commands == 1..MaxCommand
Keys == [connection : 1..MaxEpoch, command : Commands, slot : Slots]
Statuses == {"Accepted", "Rejected", "Expired", "Capacity", "OwnershipDenied"}

ConnectionOf(k) == k.connection
OrderOf(k) == (k.connection * (MaxCommand + 1) + k.command) * 8 + k.slot
LatestTick == MaxTick + MaxCommand + FutureTicks

INSTANCE OutcomeLedger WITH
  Connection <- ConnectionOf, Order <- OrderOf, LastTick <- LatestTick

VARIABLES
  normal, overload,   \* the two ledgers
  others,             \* records of other owners in the normal ledger
  nextResult,         \* OutcomeSequencer
  tick,               \* the committed tick
  epoch, connected,   \* the owner's newest connection, and whether it is up
  starts,             \* connection epoch -> the tick it was welcomed at
  verdict,            \* command -> its verdict in the inbox, or "none"
  overloaded,         \* Peer.overload_commands
  bundles,            \* deliveries of bundles so far
  window,             \* outcome_batches: batches issued and not acknowledged
  lookups,            \* Peer.outcome_lookups
  lane,               \* control messages on their way to the client
  received,           \* batches received by the client and not acknowledged
  asked,              \* lookups on their way to the server
  client,             \* key -> the client's entry
  conflict,           \* the client met two different results of one key
  executed            \* history: the actions that the game accepted

ledgers == <<normal, overload, nextResult>>
peer    == <<verdict, overloaded, bundles, window, lookups>>
session == <<epoch, connected, starts>>
wire    == <<lane, received, asked>>
vars    == <<ledgers, others, tick, session, peer, wire, client, conflict, executed>>

KeysOf(c) == {k \in Keys : k.connection = epoch /\ k.command = c}
Target(k) == starts[k.connection] + k.command
Room == NormalRecords - others
Ran(c) == starts[epoch] + c <= tick

\* The client's entries live for a limited time.
Known(k) == client[k].state # "untracked" /\ tick - Target(k) < Retention

\* Outcomes::lookup
Answering(k) == IF k \in Terminal(normal) THEN normal ELSE overload
Find(k) == Lookup(Answering(k), k)

NoVerdicts == [c \in Commands |-> "none"]

Init ==
  /\ normal = EmptyLedger /\ overload = EmptyLedger
  /\ others = 0 /\ nextResult = 1 /\ tick = 0
  /\ epoch = 1 /\ connected = TRUE /\ starts = [e \in 1..MaxEpoch |-> 0]
  /\ verdict = NoVerdicts /\ overloaded = {} /\ bundles = 0
  /\ window = 0 /\ lookups = {}
  /\ lane = <<>> /\ received = 0 /\ asked = {}
  /\ client = [k \in Keys |-> [told |-> NoResult, state |-> "untracked"]]
  /\ conflict = FALSE /\ executed = {}

-----------------------------------------------------------------------------
(* The end of a connection.                                                *)

\* Mutant: the end of a connection decides every action of it again.
MutantSettledAgain(L, next, at, status) ==
  CloseDelivery(Finish(L, {k \in Present(L) : k.connection = epoch}, next, at, status), epoch)

\* One ledger of Outcomes::revoke and Outcomes::close: what is pending is
\* decided now, and nothing is delivered any more.
Settled(L, next, at, status) ==
  CloseDelivery(Finish(L, PendingIn(L, epoch), next, at, status), epoch)

SettleNext(n, o, next) ==
  next + Cardinality(PendingIn(n, epoch)) + Cardinality(PendingIn(o, epoch))

\* Both ledgers of revoke and close.
Settle(n, o, next, at, status) ==
  /\ SettleNext(n, o, next) <= MaxResults + 1
  /\ normal' = Settled(n, next, at, status)
  /\ overload' = Settled(o, next + Cardinality(PendingIn(n, epoch)), at, status)
  /\ nextResult' = SettleNext(n, o, next)

\* Peer::new starts with an empty inbox and empty windows; what was on the wire
\* belongs to another epoch.
FreshPeer ==
  /\ verdict' = NoVerdicts /\ overloaded' = {} /\ window' = 0 /\ lookups' = {}
  /\ lane' = <<>> /\ received' = 0 /\ asked' = {}

Disconnect ==
  /\ connected
  /\ connected' = FALSE
  /\ Settle(normal, overload, nextResult, tick, "Expired")
  /\ FreshPeer
  /\ UNCHANGED <<others, tick, epoch, starts, bundles, client, conflict, executed>>

Connect ==
  /\ ~connected /\ epoch < MaxEpoch
  /\ connected' = TRUE
  /\ epoch' = epoch + 1
  /\ starts' = [starts EXCEPT ![epoch + 1] = tick]
  /\ UNCHANGED <<ledgers, others, tick, peer, wire, client, conflict, executed>>

-----------------------------------------------------------------------------
(* Admission.                                                              *)

\* can_consume_bundle: a bundle is read only when a whole one fits.
BundleWork == BundleCommands * Cardinality(Slots)

\* Mutant: a bundle is read when one command of it fits.
MutantCanConsumeBundle ==
  \/ Available(normal, Room) >= Cardinality(Slots)
  \/ Available(overload, OverloadRecords) >= Cardinality(Slots)

CanConsumeBundle ==
  \/ Available(normal, Room) >= BundleWork
  \/ Available(overload, OverloadRecords) >= BundleWork

\* CommandInbox::admit.  `fate` settles what the inbox abstracts: the target is
\* taken by another command, or the sequence has been retired.
Admission(s, c, fate) ==
  CASE fate = "retired"              -> "RetiredSequence"
    [] s.verdict[c] = "Accepted"     -> "Duplicate"
    [] s.verdict[c] # "none"         -> s.verdict[c]
    [] Ran(c)                        -> "Late"
    [] starts[epoch] + c > tick + FutureTicks -> "Future"
    [] fate = "occupied"             -> "TargetOccupied"
    [] OTHER                         -> "Accepted"

\* Mutant: the reservations of a copy of an accepted command are kept.
MutantRecorded(L, new, next, admission, at) ==
  CASE admission \in {"Accepted", "Duplicate"} -> L
    [] admission = "Late"           -> Finish(L, new, next, at, "Expired")
    [] admission = "TargetOccupied" -> Finish(L, new, next, at, "Rejected")
    [] OTHER                        -> CancelReservations(L, new)

\* What a record of the bundle does to the ledger it reserved `new` keys in.
Recorded(L, new, next, admission, at) ==
  CASE admission = "Accepted"       -> L
    [] admission = "Late"           -> Finish(L, new, next, at, "Expired")
    [] admission = "TargetOccupied" -> Finish(L, new, next, at, "Rejected")
    [] OTHER                        -> CancelReservations(L, new)

\* One record of receive_bundle: reserve in the normal ledger, or else in the
\* overload ledger, admit, and settle the reservation.
AdmitRecord(s, c, fate) ==
  LET keys == KeysOf(c)
      over == ~CanReserve(s.normal, keys, Room)
      L    == IF over THEN s.overload ELSE s.normal
      new  == NewKeys(L, keys)
      adm  == Admission(s, c, fate)
      M    == Recorded(Reserve(L, keys), new, s.next, adm, starts[epoch] + c)
  IN IF s.failed \/ (over /\ ~CanReserve(s.overload, keys, OverloadRecords))
     THEN [s EXCEPT !.failed = TRUE]
     ELSE [s EXCEPT
            !.normal = IF over THEN @ ELSE M,
            !.overload = IF over THEN M ELSE @,
            !.next = IF adm \in {"Late", "TargetOccupied"} THEN @ + Cardinality(new) ELSE @,
            !.verdict[c] = IF @ = "none" /\ adm \in {"Accepted", "Late", "TargetOccupied"}
                           THEN adm ELSE @,
            !.overloaded = IF over /\ adm = "Accepted" THEN @ \cup {c} ELSE @]

\* The loop of receive_bundle over a bundle of consecutive commands.
Bundles == {<<first, last>> \in Commands \X Commands : last - first \in 0..(BundleCommands - 1)}
Admitted(first, last, fate) ==
  FoldLeft(LAMBDA s, c : AdmitRecord(s, c, fate[c]),
           [normal |-> normal, overload |-> overload, next |-> nextResult,
            verdict |-> verdict, overloaded |-> overloaded, failed |-> FALSE],
           [i \in 1..(last - first + 1) |-> first + i - 1])

\* receive_bundle, with the disconnection that an error of it leads to.
Receive ==
  /\ connected /\ bundles < MaxBundles /\ CanConsumeBundle
  /\ \E b \in Bundles :
     /\ \A k \in KeysOf(b[2]) : client[k].state # "untracked"
     /\ \E fate \in [b[1]..b[2] -> {"none", "occupied", "retired"}] :
        LET after == Admitted(b[1], b[2], fate)
        IN /\ after.next <= MaxResults + 1
           /\ IF after.failed
              THEN /\ connected' = FALSE
                   /\ Settle(after.normal, after.overload, after.next, tick, "Expired")
                   /\ FreshPeer
              ELSE /\ normal' = after.normal /\ overload' = after.overload
                   /\ nextResult' = after.next
                   /\ verdict' = after.verdict /\ overloaded' = after.overloaded
                   /\ UNCHANGED <<connected, window, lookups, wire>>
  /\ bundles' = bundles + 1
  /\ UNCHANGED <<others, tick, epoch, starts, client, conflict, executed>>

-----------------------------------------------------------------------------
(* A tick of the authority.                                                *)

\* The command that runs at the next tick.
Due == {c \in Commands : connected /\ starts[epoch] + c = tick + 1 /\ verdict[c] = "Accepted"}
DueKeys == {k \in Keys : k.connection = epoch /\ k.command \in Due}

\* expire runs once every so many ticks.
Expired(L) == IF (tick + 1) % ExpireEvery = 0 THEN Expire(L, tick + 1) ELSE L

\* step_committed: the results of the command that runs are finished, those that
\* the game judged first.
Step ==
  /\ tick < MaxTick
  /\ nextResult + Cardinality(DueKeys) <= MaxResults + 1
  /\ tick' = tick + 1
  /\ nextResult' = nextResult + Cardinality(DueKeys)
  /\ IF Due \subseteq overloaded
     THEN /\ normal' = Expired(normal)
          /\ overload' = Finish(Expired(overload), DueKeys, nextResult, tick + 1, "Capacity")
          /\ UNCHANGED executed
     ELSE \E accepted \in SUBSET DueKeys :
            /\ normal' = Finish(Finish(Expired(normal), accepted, nextResult, tick + 1, "Accepted"),
                                DueKeys \ accepted, nextResult + Cardinality(accepted),
                                tick + 1, "Rejected")
            /\ overload' = Expired(overload)
            /\ executed' = executed \cup accepted
  /\ overloaded' = overloaded \ Due
  /\ UNCHANGED <<others, session, verdict, bundles, window, lookups, wire, client, conflict>>

\* step_committed when the game rejects the whole batch: every pending action is
\* rejected, and the peer is disconnected.
StepRejected ==
  /\ tick < MaxTick /\ connected
  /\ tick' = tick + 1
  /\ LET n == Expired(normal) IN
       Settle(Finish(n, PendingIn(n, epoch), nextResult, tick + 1, "Rejected"), Expired(overload),
              nextResult + Cardinality(PendingIn(n, epoch)), tick + 1, "Expired")
  /\ connected' = FALSE
  /\ FreshPeer
  /\ UNCHANGED <<others, epoch, starts, bundles, client, conflict, executed>>

\* apply_handoffs at the start of a tick: the old connection is revoked and a
\* new one takes its place, with nothing to run yet.
StepHandoff ==
  /\ tick < MaxTick /\ connected /\ epoch < MaxEpoch
  /\ tick' = tick + 1
  /\ SettleNext(normal, overload, nextResult) <= MaxResults + 1
  /\ normal' = Expired(Settled(normal, nextResult, tick + 1, "OwnershipDenied"))
  /\ overload' = Expired(Settled(overload, nextResult + Cardinality(PendingIn(normal, epoch)),
                                 tick + 1, "OwnershipDenied"))
  /\ nextResult' = SettleNext(normal, overload, nextResult)
  /\ epoch' = epoch + 1
  /\ starts' = [starts EXCEPT ![epoch + 1] = tick]
  /\ FreshPeer
  /\ UNCHANGED <<others, connected, bundles, client, conflict, executed>>

-----------------------------------------------------------------------------
(* Delivery.                                                               *)

Report(k, r) == [key |-> k, result |-> r]

\* The unreported results of this connection, in both ledgers.
Unreported(s) ==
  {Report(k, s.normal.records[k].result) : k \in {j \in s.normal.delivery : j.connection = epoch}}
    \cup
  {Report(k, s.overload.records[k].result) : k \in {j \in s.overload.delivery : j.connection = epoch}}

\* The first BatchRecords of them in the order of their results.
Candidates(s) ==
  {r \in Unreported(s) :
     Cardinality({q \in Unreported(s) : q.result.sequence < r.result.sequence}) < BatchRecords}

\* Outcomes::reported marks the ledger that a lookup would answer from.
Reported(s, keys) ==
  [s EXCEPT !.normal = MarkReported(@, keys \cap Terminal(s.normal)),
            !.overload = MarkReported(@, keys \ Terminal(s.normal))]

\* outcome_batch followed by reported.
Batch(s, records) ==
  [Reported(s, {r.key : r \in records}) EXCEPT
     !.window = @ + 1,
     !.lane = Append(@, [kind |-> "outcomes", records |-> records])]

\* The first lookups that are waiting, in key order.
FirstLookups(s) == {k \in s.lookups : Rank(s.lookups, k) <= BatchRecords}

\* The answer to a set of lookups, of which some results are found.
Answered(s, keys, found) ==
  LET missing == {Report(k, NoResult) : k \in keys \ found}
      told    == IF missing = {} THEN s
                 ELSE [s EXCEPT !.lane = Append(@, [kind |-> "unavailable", records |-> missing])]
      sent    == IF found = {} THEN told ELSE Batch(told, {Report(k, Find(k)) : k \in found})
  IN [sent EXCEPT !.lookups = @ \ keys]

\* Mutant: only results of the present connection are looked for.
MutantAnswerLookups(s) ==
  Answered(s, FirstLookups(s),
           {k \in FirstLookups(s) : k.connection = epoch /\ Find(k) # NoResult})

AnswerLookups(s) ==
  Answered(s, FirstLookups(s), {k \in FirstLookups(s) : Find(k) # NoResult})

\* One turn of the loop of action_outcomes: lookups first, then results.
PublishTurn(s) ==
  IF s.window = WindowLimit THEN s
  ELSE IF s.lookups # {} THEN AnswerLookups(s)
  ELSE IF Candidates(s) # {} THEN Batch(s, Candidates(s))
  ELSE s

\* action_outcomes, called for every peer of every publication.
Publish ==
  /\ UNCHANGED <<others, nextResult, tick, session, verdict, overloaded, bundles,
                 received, asked, client, conflict, executed>>
  /\ connected
  /\ window < WindowLimit
  /\ lookups \cup {k \in normal.delivery \cup overload.delivery : k.connection = epoch} # {}
  /\ LET before == [normal |-> normal, overload |-> overload, window |-> window,
                    lookups |-> lookups, lane |-> lane]
         turns[n \in 0..(WindowLimit + LookupLimit)] ==
           IF n = 0 THEN before ELSE PublishTurn(turns[n - 1])
     IN \E after \in {turns[WindowLimit + LookupLimit]} :
        /\ normal' = after.normal /\ overload' = after.overload
        /\ window' = after.window /\ lookups' = after.lookups /\ lane' = after.lane

-----------------------------------------------------------------------------
(* The client.                                                             *)

\* track, for the next command of the connection.
Track(c) ==
  /\ connected
  /\ \A k \in KeysOf(c) : client[k].state = "untracked"
  /\ c > 1 => \A k \in KeysOf(c - 1) : client[k].state # "untracked"
  /\ client' = [k \in Keys |->
                  IF k \in KeysOf(c) THEN [client[k] EXCEPT !.state = "tracked"] ELSE client[k]]
  /\ UNCHANGED <<ledgers, others, tick, session, peer, wire, conflict, executed>>

\* What receive_batch refuses.
Contradicts(records) ==
  \/ \E r \in records : Known(r.key) /\ client[r.key].told \notin {NoResult, r.result}
  \/ \E r, q \in records : r.key = q.key /\ r # q

ResultFor(k, records) ==
  (CHOOSE r \in records : r.key = k).result

\* The client handles the next control message.
ClientReceive ==
  /\ lane # <<>>
  /\ LET message == Head(lane)
         known   == {k \in {r.key : r \in message.records} : Known(k)}
     IN IF message.kind = "unavailable"
        THEN /\ client' = [k \in Keys |-> IF k \in known
                             THEN [client[k] EXCEPT !.state = "unavailable"] ELSE client[k]]
             /\ UNCHANGED <<received, conflict>>
        ELSE IF Contradicts(message.records)
        THEN /\ conflict' = TRUE
             /\ UNCHANGED <<received, client>>
        ELSE /\ client' = [k \in Keys |-> IF k \in known
                             THEN [client[k] EXCEPT !.told = ResultFor(k, message.records)]
                             ELSE client[k]]
             /\ received' = received + 1
             /\ UNCHANGED conflict
  /\ lane' = Tail(lane)
  /\ UNCHANGED <<ledgers, others, tick, session, peer, asked, executed>>

\* Mutant: an acknowledgement frees nothing of the window.
MutantAcknowledge ==
  /\ connected /\ received > 0
  /\ received' = 0
  /\ UNCHANGED <<ledgers, others, tick, session, verdict, overloaded, bundles, window, lookups,
                 lane, asked, client, conflict, executed>>

\* The acknowledgement of some received batches reaches the server.
Acknowledge ==
  /\ connected
  /\ \E n \in 1..received : window' = window - n /\ received' = received - n
  /\ UNCHANGED <<ledgers, others, tick, session, verdict, overloaded, bundles, lookups,
                 lane, asked, client, conflict, executed>>

\* lookup asks about commands of another connection, and about those of this
\* one that have run.
Askable(k) ==
  /\ Known(k) /\ client[k].told = NoResult /\ client[k].state # "unavailable"
  /\ k.connection # epoch \/ Ran(k.command)

Ask(k) ==
  /\ connected /\ Len(lane) < MaxLane /\ k \notin asked /\ Askable(k)
  /\ asked' = asked \cup {k}
  /\ UNCHANGED <<ledgers, others, tick, session, peer, lane, received, client, conflict, executed>>

\* The OutcomeLookup arm of receive_control; a lookup that comes too soon after
\* the last one, or finds no room, is dropped.
ReceiveLookup(k) ==
  /\ connected /\ k \in asked
  /\ asked' = asked \ {k}
  /\ \/ Cardinality(lookups) < LookupLimit /\ lookups' = lookups \cup {k}
     \/ UNCHANGED lookups
  /\ UNCHANGED <<ledgers, others, tick, session, verdict, overloaded, bundles, window,
                 lane, received, client, conflict, executed>>

\* Other owners take and release records of the normal ledger.
Others ==
  /\ others' \in 0..MaxOthers
  /\ Cardinality(Present(normal)) + others' <= NormalRecords
  /\ others' # others
  /\ UNCHANGED <<ledgers, tick, session, peer, wire, client, conflict, executed>>

Next ==
  \/ Receive \/ Step \/ StepRejected \/ StepHandoff \/ Publish
  \/ \E c \in Commands : Track(c)
  \/ ClientReceive \/ Acknowledge
  \/ \E k \in Keys : Ask(k) \/ ReceiveLookup(k)
  \/ Disconnect \/ Connect \/ Others

Spec == Init /\ [][Next]_vars

\* Every loop of the authority publishes, and the control lanes deliver.
Fairness == WF_vars(Publish) /\ WF_vars(ClientReceive) /\ WF_vars(Acknowledge)
FairSpec == Spec /\ Fairness

-----------------------------------------------------------------------------
Entry == [told : Result \cup {NoResult}, state : {"untracked", "tracked", "unavailable"}]

\* The state keeps its shape and its bounds: the ledgers never hold more than
\* their capacity, no more batches are out than the receipt window allows, and
\* the client never has more batches to acknowledge than the server has out.
TypeOK ==
  /\ normal \in Ledger /\ overload \in Ledger
  /\ others \in 0..MaxOthers /\ nextResult \in 1..(MaxResults + 1) /\ tick \in 0..MaxTick
  /\ epoch \in 1..MaxEpoch /\ connected \in BOOLEAN /\ starts \in [1..MaxEpoch -> 0..MaxTick]
  /\ verdict \in [Commands -> {"none", "Accepted", "Late", "TargetOccupied"}]
  /\ overloaded \subseteq Commands /\ bundles \in 0..MaxBundles
  /\ window \in 0..WindowLimit /\ received \in 0..window
  /\ lookups \subseteq Keys /\ asked \subseteq Keys
  /\ client \in [Keys -> Entry] /\ conflict \in BOOLEAN
  /\ Cardinality(Present(normal)) <= Room
  /\ Cardinality(Present(overload)) <= OverloadRecords

\* The keys of the accepted commands that still have to run.
Waiting(cs) ==
  {k \in Keys : connected /\ k.connection = epoch /\ k.command \in cs
                /\ verdict[k.command] = "Accepted" /\ ~Ran(k.command)}

\* A pending reservation is exactly an accepted action that still has to run, in
\* the ledger that its execution will look in: whatever copies arrive and
\* whenever the connection ends, verdict_with_bindings and the rejections of
\* step_committed find their reservation, and no reservation is left behind.  The
\* delivery index of each ledger lists exactly the results that still have to be
\* handed over; none is lost to expire and none outlives its connection.
ReservationsExact ==
  /\ TypeOK
  /\ Indexed(normal) /\ Indexed(overload)
  /\ \A e \in 1..MaxEpoch :
       /\ PendingIn(normal, e) = {k \in Waiting(Commands \ overloaded) : k.connection = e}
       /\ PendingIn(overload, e) = {k \in Waiting(overloaded) : k.connection = e}

\* The gate before a bundle is read keeps its promise: no bundle that is read
\* fails for want of a place for its results.
BundlesFit ==
  connected /\ CanConsumeBundle =>
    \A b \in Bundles : ~Admitted(b[1], b[2], [c \in Commands |-> "none"]).failed

\* The ledgers hold what the accepted actions need, no less and no more.
LedgersExact == ReservationsExact /\ BundlesFit

\* The client is never told two different results for one action, by delivery or
\* by lookup, on this connection or on the next one.
OneResult == ~conflict

\* "Unavailable" is never said of an action that ran: while the client remembers
\* it, the client has or can still get its result, on this connection and on the
\* next one.
UnavailableNeverRan ==
  \A k \in executed :
    Known(k) /\ client[k].state = "unavailable" => client[k].told # NoResult

\* What the client is told of an action is true, by delivery and by lookup.
AnswersTrue == OneResult /\ UnavailableNeverRan

\* A result that a ledger holds reaches the client, unless the client forgets the
\* action or the connection ends first: whatever the receipt window holds and
\* however many lookups go before it.
ResultsDelivered ==
  \A k \in Keys :
    []<>(\/ k \notin Terminal(normal) \cup Terminal(overload)
         \/ client[k].told # NoResult \/ ~Known(k) \/ ~connected \/ epoch # k.connection)

=============================================================================
