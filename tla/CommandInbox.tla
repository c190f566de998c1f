---------------------------- MODULE CommandInbox ----------------------------
(***************************************************************************)
(* The server's per-connection command inbox (engine/net/src/commands.rs)  *)
(* with its input continuity (commands/continuity.rs) and the ownership    *)
(* fence that revokes it (ownership.rs).                                   *)
(*                                                                         *)
(* Datagrams carry commands several times over and in any order, so Admit  *)
(* may be taken with any command at any time.  The tick driver takes       *)
(* PrepareNext, which fixes the input of the next tick, and Commit, which  *)
(* finalizes it once the simulation has committed the tick.                *)
(*                                                                         *)
(* Abstractions.                                                           *)
(*  - A command's input and actions are one opaque body; its fingerprint   *)
(*    (a hash of the encoding) is the command itself.                      *)
(*  - An input is the body it holds down and whether it carries edges      *)
(*    (actions, deltas), which a held or neutral input never does.         *)
(*  - audit and audit_order hold the same sequence numbers: audit is here  *)
(*    one sequence of records in the order of audit_order.                 *)
(*  - Sequence numbers and ticks start at 1, so 0 stands for the None of   *)
(*    retired_sequence, highest_received, a prepared sequence and handoff. *)
(***************************************************************************)
EXTENDS Integers, Sequences, FiniteSets

CONSTANTS
  Bodies,               \* what a command may ask for
  Neutral,              \* the body of the neutral input
  InitializedAt,        \* the committed tick the inbox is created at
  FutureTicks,          \* CommandLimits.future_ticks
  HeldGrace,            \* CommandLimits.held_grace_ticks
  AuditRecords,         \* CommandLimits.audit_records
  SequenceAhead,        \* CommandLimits.sequence_ahead
  SubmissionsPerTick,   \* CommandLimits.submissions_per_tick
  MaxTick,              \* bound: the last tick that can be prepared
  MaxSequence           \* bound: the last sequence number a client issues

\* CommandInbox::new refuses limits outside these ranges.
ASSUME LimitsAssumption ==
  /\ FutureTicks \in 1..12
  /\ HeldGrace \in 0..3
  /\ AuditRecords \in Nat /\ AuditRecords >= FutureTicks
  /\ SequenceAhead \in Nat /\ SequenceAhead >= FutureTicks
  /\ SubmissionsPerTick \in Nat \ {0}

ASSUME BoundsAssumption ==
  /\ InitializedAt \in Nat
  /\ MaxTick \in Nat
  /\ MaxSequence \in Nat

ASSUME NeutralAssumption == Neutral \notin Bodies

VARIABLES
  finalized,      \* last committed tick
  pending,        \* accepted commands that have not run; at most one per target
  audit,          \* admission records, oldest first
  retired,        \* highest sequence number whose record was evicted
  highest,        \* highest accepted sequence number
  windowFloor,    \* base of the sequence window
  receipts,       \* the last AuditRecords finalized receipts
  prepared,       \* the selection for the tick in progress
  lastInput,      \* InputContinuity.last_input
  missingStreak,  \* InputContinuity.missing_streak
  submissions,    \* submissions since the last commit
  handoff,        \* effective tick of an ownership handoff, 0 if there is none
  accepted,       \* history: every command ever accepted
  refused,        \* history: sequence numbers answered Late or TargetOccupied
  applied         \* history: tick -> what the simulation was given

book    == <<pending, audit, retired, highest, accepted, refused>>
tickly  == <<finalized, windowFloor, receipts, lastInput, missingStreak, applied>>
vars    == <<book, tickly, prepared, submissions, handoff>>

Command   == [sequence : 1..MaxSequence, target : 1..MaxTick, body : Bodies]
Admission == {"Accepted", "Late", "Future", "TargetOccupied"}
AuditRecord == [command : Command, admission : Admission, pending : BOOLEAN]
Input     == [held : Bodies \cup {Neutral}, edges : BOOLEAN]

NeutralInput    == [held |-> Neutral, edges |-> FALSE]
HeldInput(i)    == [held |-> i.held, edges |-> FALSE]
CommandInput(c) == [held |-> c.body, edges |-> TRUE]

PreparedInput ==
  [tick : 0..MaxTick, sequence : 0..MaxSequence, input : Input, streak : Nat]
NothingPrepared ==
  [tick |-> 0, sequence |-> 0, input |-> NeutralInput, streak |-> 0]

Receipt == [tick : 1..MaxTick, sequence : 0..MaxSequence]

-----------------------------------------------------------------------------

\* Definitions named Mutant... are wrong on purpose: each is a plausible bug in
\* the definition that follows it, and some property must notice it.

\* OwnershipHandoff::owns_at, asked of the previous owner's stream.
OwnsAt(t) == handoff = 0 \/ t < handoff

PendingAt(t) == {c \in pending : c.target = t}

\* The tick up to which input is already chosen.
Cutoff == IF prepared # NothingPrepared THEN prepared.tick ELSE finalized

Audited(s) == \E i \in 1..Len(audit) : audit[i].command.sequence = s
IndexOf(s) == CHOOSE i \in 1..Len(audit) : audit[i].command.sequence = s

\* The first test of admit that separates a command from the ones already
\* decided.  Only a retained Future record may be decided again.
Undecided(c) ==
  IF Audited(c.sequence)
  THEN LET record == audit[IndexOf(c.sequence)]
       IN  record.command = c /\ record.admission = "Future"
  ELSE c.sequence > retired /\ c.sequence <= windowFloor + SequenceAhead

MutantDecide(c) ==
  IF c.target <= finalized THEN "Late"
  ELSE IF c.target > finalized + FutureTicks THEN "Future"
  ELSE IF PendingAt(c.target) # {} THEN "TargetOccupied"
  ELSE "Accepted"

Decide(c) ==
  IF c.target <= Cutoff THEN "Late"
  ELSE IF c.target > finalized + FutureTicks THEN "Future"
  ELSE IF PendingAt(c.target) # {} THEN "TargetOccupied"
  ELSE "Accepted"

\* reserve_audit: which record makes room, and whether one can.
MutantIdle(i) == TRUE

Idle(i) == ~audit[i].pending
MutantHasRoom == Len(audit) < AuditRecords

HasRoom == Len(audit) < AuditRecords \/ \E i \in 1..Len(audit) : Idle(i)

Oldest == CHOOSE i \in 1..Len(audit) :
            Idle(i) /\ \A j \in 1..(i - 1) : ~Idle(j)

Without(s, i) ==
  [j \in 1..(Len(s) - 1) |-> IF j < i THEN s[j] ELSE s[j + 1]]

Larger(m, n) == IF m >= n THEN m ELSE n

MutantEnter(record) ==
  IF Audited(record.command.sequence)
  THEN /\ audit' = [audit EXCEPT ![IndexOf(record.command.sequence)] = record]
       /\ UNCHANGED retired
  ELSE audit' = Append(audit, record) /\ UNCHANGED retired

MutantEnterLastEvicted(record) ==
  IF Audited(record.command.sequence)
  THEN /\ audit' = [audit EXCEPT ![IndexOf(record.command.sequence)] = record]
       /\ UNCHANGED retired
  ELSE IF Len(audit) < AuditRecords
  THEN audit' = Append(audit, record) /\ UNCHANGED retired
  ELSE /\ audit' = Append(Without(audit, Oldest), record)
       /\ retired' = audit[Oldest].command.sequence

\* The audit book with a record for a command; a full book first evicts its
\* oldest record that is not pending and moves the retired watermark.
Enter(record) ==
  IF Audited(record.command.sequence)
  THEN /\ audit' = [audit EXCEPT ![IndexOf(record.command.sequence)] = record]
       /\ UNCHANGED retired
  ELSE IF Len(audit) < AuditRecords
  THEN audit' = Append(audit, record) /\ UNCHANGED retired
  ELSE /\ audit' = Append(Without(audit, Oldest), record)
       /\ retired' = Larger(retired, audit[Oldest].command.sequence)

Record(c, verdict) ==
  /\ Enter([command |-> c, admission |-> verdict,
            pending |-> verdict = "Accepted"])
  /\ IF verdict = "Accepted"
     THEN /\ pending' = (pending \ PendingAt(c.target)) \cup {c}
          /\ highest' = Larger(highest, c.sequence)
          /\ accepted' = accepted \cup {c}
     ELSE UNCHANGED <<pending, highest, accepted>>
  /\ refused' = IF verdict \in {"Late", "TargetOccupied"}
                THEN refused \cup {c.sequence} ELSE refused

Recordable(c) ==
  /\ OwnsAt(c.target)
  /\ Undecided(c)
  /\ Audited(c.sequence) \/ HasRoom

-----------------------------------------------------------------------------

Init ==
  /\ finalized = InitializedAt
  /\ pending = {}
  /\ audit = <<>>
  /\ retired = 0
  /\ highest = 0
  /\ windowFloor = 0
  /\ receipts = <<>>
  /\ prepared = NothingPrepared
  /\ lastInput = NeutralInput
  /\ missingStreak = 0
  /\ submissions = 0
  /\ handoff = 0
  /\ accepted = {}
  /\ refused = {}
  /\ applied = [t \in (InitializedAt + 1)..InitializedAt |-> NothingPrepared]

\* admit of a command that passes every test and gets a record.
Admit(c) ==
  /\ submissions < SubmissionsPerTick
  /\ Recordable(c)
  /\ Record(c, Decide(c))
  /\ submissions' = submissions + 1
  /\ UNCHANGED <<tickly, prepared, handoff>>

\* admit of a command it answers without a record: an error (ownership,
\* identity, input, actions, equivocation, window, full audit) or the verdict
\* of an earlier record.  It still uses up a submission.
AdmitUnrecorded ==
  /\ submissions < SubmissionsPerTick
  /\ submissions' = submissions + 1
  /\ UNCHANGED <<book, tickly, prepared, handoff>>

\* InputContinuity::substitute and the two ways prepare_next fills a selection.
MutantSubstitute ==
  [tick |-> finalized + 1, sequence |-> 0, streak |-> missingStreak + 1,
   input |-> IF missingStreak <= HeldGrace
             THEN HeldInput(lastInput) ELSE NeutralInput]

Substitute ==
  [tick |-> finalized + 1, sequence |-> 0, streak |-> missingStreak + 1,
   input |-> IF missingStreak + 1 <= HeldGrace
             THEN HeldInput(lastInput) ELSE NeutralInput]

Selected(c) ==
  [tick |-> finalized + 1, sequence |-> c.sequence, streak |-> 0,
   input |-> CommandInput(c)]

PrepareNext ==
  /\ prepared = NothingPrepared
  /\ finalized < MaxTick
  /\ OwnsAt(finalized + 1)
  /\ \/ \E c \in PendingAt(finalized + 1) : prepared' = Selected(c)
     \/ PendingAt(finalized + 1) = {} /\ prepared' = Substitute
  /\ UNCHANGED <<book, tickly, submissions, handoff>>

\* Mutant: only the newest record is looked at.
MutantSettle(s) ==
  IF s = 0 THEN UNCHANGED <<pending, audit>>
  ELSE /\ audit[Len(audit)].command.sequence = s
       /\ pending' = pending \ PendingAt(prepared.tick)
       /\ audit' = [audit EXCEPT ![Len(audit)].pending = FALSE]

\* commit looks up the record of an executed command and panics when it is
\* gone ("pending audit retained"): Commit is then not enabled.
Settle(s) ==
  IF s = 0 THEN UNCHANGED <<pending, audit>>
  ELSE /\ Audited(s)
       /\ pending' = pending \ PendingAt(prepared.tick)
       /\ audit' = [audit EXCEPT ![IndexOf(s)].pending = FALSE]

\* The sequence window moves by one slot per tick, or up to the executed command.
Grant(s) == Larger(windowFloor + 1, s)

Push(r) ==
  Append(IF Len(receipts) = AuditRecords THEN Tail(receipts) ELSE receipts, r)

Commit ==
  /\ prepared # NothingPrepared
  /\ Settle(prepared.sequence)
  /\ windowFloor' = Grant(prepared.sequence)
  /\ lastInput' = IF prepared.sequence = 0 THEN lastInput ELSE prepared.input
  /\ missingStreak' = prepared.streak
  /\ finalized' = prepared.tick
  /\ submissions' = 0
  /\ receipts' = Push([tick |-> prepared.tick, sequence |-> prepared.sequence])
  /\ applied' = [t \in (InitializedAt + 1)..prepared.tick |->
                   IF t = prepared.tick THEN prepared ELSE applied[t]]
  /\ prepared' = NothingPrepared
  /\ UNCHANGED <<retired, highest, accepted, refused, handoff>>

\* OwnershipHandoff::new by the authority, between two ticks.  It refuses an
\* effective tick that is already committed.
Handoff(t) ==
  /\ handoff = 0
  /\ prepared = NothingPrepared
  /\ t > finalized
  /\ handoff' = t
  /\ UNCHANGED <<book, tickly, prepared, submissions>>

Next ==
  \/ \E c \in Command : Admit(c)
  \/ AdmitUnrecorded
  \/ PrepareNext
  \/ Commit
  \/ \E t \in 1..MaxTick : Handoff(t)

Spec == Init /\ [][Next]_vars

\* The server's tick driver keeps preparing and committing.
FairSpec == Spec /\ WF_vars(PrepareNext) /\ WF_vars(Commit)

-----------------------------------------------------------------------------

TypeOK ==
  /\ finalized \in InitializedAt..Larger(InitializedAt, MaxTick)
  /\ pending \subseteq Command
  /\ audit \in Seq(AuditRecord) /\ Len(audit) <= AuditRecords
  /\ retired \in 0..MaxSequence
  /\ highest \in 0..MaxSequence
  /\ windowFloor \in Nat
  /\ receipts \in Seq(Receipt) /\ Len(receipts) <= AuditRecords
  /\ prepared \in PreparedInput
  /\ lastInput \in Input
  /\ missingStreak \in Nat
  /\ submissions \in 0..SubmissionsPerTick
  /\ handoff \in 0..MaxTick
  /\ accepted \subseteq Command
  /\ refused \subseteq 1..MaxSequence
  /\ applied \in [(InitializedAt + 1)..finalized -> PreparedInput]

\* An accepted command runs at its target tick, with the body it was admitted
\* with, and nothing runs that was not accepted for that tick: `admit` and
\* `commit` together lose, move, alter and repeat nothing.
AcceptedIffExecuted ==
  \A t \in DOMAIN applied :
    /\ applied[t].tick = t
    /\ \A c \in accepted :
         c.target = t => /\ applied[t].sequence = c.sequence
                         /\ applied[t].input = CommandInput(c)
    /\ applied[t].sequence # 0 =>
         \E c \in accepted : c.target = t /\ c.sequence = applied[t].sequence

\* A sequence number gets one verdict for the life of the inbox, however often
\* it is sent and although the audit forgets it: it is accepted for one tick,
\* or refused, never both (the authority reports a refused action's outcome at
\* once).  `audit`, eviction and `retired_sequence` uphold it together.
OneVerdict ==
  \A c \in accepted :
    /\ c.sequence \notin refused
    /\ \A d \in accepted :
         c.sequence = d.sequence \/ c.target = d.target => c = d

\* Every pending command has a pending audit record, and the other way round:
\* eviction cannot take the record `commit` expects ("pending audit retained").
AuditBacksPending ==
  /\ \A c \in pending : \E i \in 1..Len(audit) :
       audit[i].command = c /\ audit[i].pending
  /\ \A i \in 1..Len(audit) : audit[i].pending =>
       audit[i].command \in pending /\ audit[i].admission = "Accepted"

\* A command for a free tick of the window never meets AuditFull, even with
\* the smallest audit that `new` allows (audit_records = future_ticks).
FreeTickHasAuditRoom ==
  (\E t \in (Cutoff + 1)..(finalized + FutureTicks) : PendingAt(t) = {})
    => HasRoom

\* A client that issues at most one sequence number per tick since the inbox
\* was created is never refused by the sequence window, whatever was lost: a
\* committed substitute grants a slot just as a committed command does.
PacedClientInsideWindow ==
  \A c \in Command :
    /\ c.sequence <= c.target - InitializedAt
    /\ c.target <= finalized + FutureTicks
    => c.sequence <= windowFloor + SequenceAhead

\* What a missing command is replaced with, read off the history: the input
\* of the last command of the preceding HeldGrace ticks without its edges, or
\* the neutral input if none of those ticks had one.  The receipt ring is the end
\* of that history without a gap, so that the publisher can send finalizations in
\* tick order until they leave the ring.
RanWithin(t) ==
  {u \in (t - HeldGrace)..(t - 1) : u \in DOMAIN applied /\ applied[u].sequence # 0}

ContinuityFollowsHistory ==
  /\ \A t \in DOMAIN applied : applied[t].sequence = 0 =>
       \/ /\ RanWithin(t) = {}
          /\ applied[t].input = NeutralInput
       \/ \E u \in RanWithin(t) :
            /\ \A v \in RanWithin(t) : v <= u
            /\ applied[t].input = HeldInput(applied[u].input)
  /\ Len(receipts) = IF finalized - InitializedAt < AuditRecords
                     THEN finalized - InitializedAt ELSE AuditRecords
  /\ \A i \in 1..Len(receipts) :
       LET t == finalized - Len(receipts) + i
       IN  receipts[i] = [tick |-> t, sequence |-> applied[t].sequence]

\* After a handoff the previous owner's stream runs nothing from the effective
\* tick on, neither a command admitted before it nor a held input.
RevokedNeverRuns ==
  handoff # 0 => /\ finalized < handoff
                 /\ prepared.tick < handoff

\* What admit, prepare_next, commit and handoff guarantee together: accepted
\* commands run once, each sequence number has one verdict, the audit has what
\* commit needs and room for what the window promises, and substitutes follow
\* from the history.
InboxSound ==
  /\ AcceptedIffExecuted /\ OneVerdict
  /\ AuditBacksPending /\ FreeTickHasAuditRoom /\ PacedClientInsideWindow
  /\ ContinuityFollowsHistory /\ RevokedNeverRuns

\* A sequence number that is decided can never be decided again: eviction
\* hands it from its record to the retired watermark.
Decided(s) ==
  IF Audited(s) THEN audit[IndexOf(s)].admission # "Future" ELSE s <= retired

DecidedForever ==
  [][\A s \in 1..MaxSequence : Decided(s) => Decided(s)']_vars

\* No accepted command waits for its tick for ever: the tick is committed, and so
\* (AcceptedIffExecuted) the command runs, unless a handoff revokes the stream
\* first.  The tick driver never stops, and `commit` finds the record it needs.
AcceptedRuns ==
  \A t \in 1..MaxTick : []<>(PendingAt(t) = {} \/ t <= finalized \/ handoff # 0)

=============================================================================
