------------------------------ MODULE Arrival ------------------------------
(***************************************************************************)
(* Feedback about when commands arrive.  The server counts each command    *)
(* once, when it is first accepted or first refused as late                *)
(* (games/dreamwake/server/src/authority.rs, receive_bundle), keeps the    *)
(* worst sample since its last finalization message and sends both with    *)
(* the next one (authority/publish.rs, finalized).  The client checks the  *)
(* feedback against the last one and against the commands it remembers     *)
(* having issued (client/src/plugins/network/session.rs).  A client that   *)
(* refuses a feedback refuses the whole message, with its receipts.        *)
(*                                                                         *)
(* Commands are retried in any order, any number of times; messages to the *)
(* client arrive in order.  The inbox (CommandInbox) answers a command it  *)
(* has accepted or refused before without a new record, which is counted   *)
(* here.  What the client's lead does with an accepted sample is in        *)
(* PredictedSession.                                                       *)
(***************************************************************************)
EXTENDS Integers, Sequences, FiniteSets

CONSTANTS
  FutureTicks,    \* CommandLimits.future_ticks
  IssuedWindow,   \* commands whose issuance the client remembers (256)
  Batches,        \* FINALIZED_CONTROL_WINDOW
  MaxTick,        \* bound: the last tick
  MaxSequence     \* bound: the last sequence number

\* CommandInbox::new refuses other limits.
ArrivalAssumption ==
  /\ FutureTicks \in 1..12
  /\ {IssuedWindow, Batches} \subseteq Nat \ {0}
  /\ {MaxTick, MaxSequence} \subseteq Nat

VARIABLES
  finalizedTick,  \* CommandInbox.finalized_through
  targets,        \* the target of every command issued, by sequence number
  counted,        \* commands with a record Accepted or Late
  arrival,        \* Peer.arrival: [sample, observed, late]
  feedback,       \* the feedback of the messages in flight
  sentThrough,    \* Peer.finalized_sent_through
  known,          \* Session.arrival_feedback: [observed, late]
  seen            \* issued commands with feedback_seen

arrivalVars == <<finalizedTick, targets, counted, arrival, feedback, sentThrough, known, seen>>

\* No sample: sequence numbers start at 1.
NoSample == [sequence |-> 0, target |-> 0, at |-> 0, slack |-> 0]

ArrivalInit ==
  /\ finalizedTick = 0 /\ sentThrough = 0
  /\ targets = <<>>
  /\ counted = {}
  /\ arrival = [sample |-> NoSample, observed |-> 0, late |-> 0]
  /\ feedback = <<>>
  /\ known = [observed |-> 0, late |-> 0]
  /\ seen = {}

\* record_command_issuance: targets grow with the sequence number.
Issue(target) ==
  /\ Len(targets) < MaxSequence
  /\ targets # <<>> => target > targets[Len(targets)]
  /\ targets' = Append(targets, target)
  /\ UNCHANGED <<finalizedTick, counted, arrival, feedback, sentThrough, known, seen>>

\* The issuances that the client forgot.
RetiredThrough == Len(targets) - IssuedWindow

IsLate(s)     == targets[s] <= finalizedTick
IsAccepted(s) == targets[s] > finalizedTick /\ targets[s] <= finalizedTick + FutureTicks

SampleOf(s) ==
  [sequence |-> s, target |-> targets[s], at |-> finalizedTick,
   slack |-> IF IsLate(s) THEN 0 ELSE targets[s] - finalizedTick]

Worse(new, old) ==
  \/ old = NoSample
  \/ new.slack < old.slack
  \/ new.slack = old.slack /\ new.sequence > old.sequence

\* Every delivery is counted.
MutantFirst(s) == TRUE

\* The admission retained from an earlier delivery was not effective.
First(s) == s \notin counted

\* receive_bundle, for one command that is accepted or late for the first time;
\* any other delivery changes nothing here.
Arrive(s) ==
  /\ First(s)
  /\ IsLate(s) \/ IsAccepted(s)
  /\ counted' = counted \cup {s}
  /\ arrival' = [sample |-> IF Worse(SampleOf(s), arrival.sample) THEN SampleOf(s)
                            ELSE arrival.sample,
                 observed |-> arrival.observed + 1,
                 late |-> IF IsLate(s) THEN arrival.late + 1 ELSE arrival.late]
  /\ UNCHANGED <<finalizedTick, targets, feedback, sentThrough, known, seen>>

FinalizeTick ==
  /\ finalizedTick < MaxTick
  /\ finalizedTick' = finalizedTick + 1
  /\ UNCHANGED <<targets, counted, arrival, feedback, sentThrough, known, seen>>

\* The sample is sent again until a worse one replaces it.
MutantCleared(a) == a

Cleared(a) == [a EXCEPT !.sample = NoSample]

\* publish.rs, finalized: at most Batches messages are unacknowledged.  One
\* message takes at most 32 ticks, more than there are here.
SendFinalized ==
  /\ sentThrough < finalizedTick
  /\ Len(feedback) < Batches
  /\ feedback' = Append(feedback, arrival)
  /\ sentThrough' = finalizedTick
  /\ arrival' = Cleared(arrival)
  /\ UNCHANGED <<finalizedTick, targets, counted, known, seen>>

\* ArrivalFeedback::validate.
ValidSample(f) ==
  /\ f.observed # 0
  /\ f.sample.target # 0
  /\ f.sample.slack <= 12
  /\ f.sample.slack = (IF f.sample.target > f.sample.at THEN f.sample.target - f.sample.at ELSE 0)
  /\ IF f.sample.slack = 0 THEN f.late # 0 ELSE f.observed > f.late

Valid(f) == f.late <= f.observed /\ (f.sample # NoSample => ValidSample(f))

\* The sample is of a command the client issued and not sampled before, as far
\* as it remembers.
Known(sample) ==
  /\ sample.sequence <= Len(targets)
  /\ sample.sequence > RetiredThrough =>
       sample.target = targets[sample.sequence] /\ sample.sequence \notin seen

\* observe_arrival_feedback.
Acceptable(f) ==
  /\ Valid(f)
  /\ f.observed >= known.observed /\ f.late >= known.late
  /\ f.sample # NoSample => f.observed # known.observed
  /\ f.late - known.late <= f.observed - known.observed
  /\ f.sample # NoSample => Known(f.sample)

HearFinalized ==
  /\ feedback # <<>>
  /\ feedback' = Tail(feedback)
  /\ LET f == Head(feedback)
     IN IF Acceptable(f)
        THEN /\ known' = [observed |-> f.observed, late |-> f.late]
             /\ seen' = IF f.sample # NoSample /\ f.sample.sequence > RetiredThrough
                        THEN seen \cup {f.sample.sequence} ELSE seen
        ELSE UNCHANGED <<known, seen>>
  /\ UNCHANGED <<finalizedTick, targets, counted, arrival, sentThrough>>

ArrivalNext ==
  \/ \E target \in 1..(MaxTick + FutureTicks) : Issue(target)
  \/ \E s \in DOMAIN targets : Arrive(s)
  \/ FinalizeTick
  \/ SendFinalized
  \/ HearFinalized

ArrivalSpec == ArrivalInit /\ [][ArrivalNext]_arrivalVars

-----------------------------------------------------------------------------

\* The client accepts every feedback the server sends it, in whatever order and
\* however often its commands arrived and however many issuances it has
\* forgotten: a finalization message is never lost to its feedback.
FeedbackAccepted == feedback # <<>> => Acceptable(Head(feedback))
=============================================================================
