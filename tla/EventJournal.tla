----------------------------- MODULE EventJournal -----------------------------
(***************************************************************************)
(* The journal of predicted presentation events                            *)
(* (engine/net/src/events/journal.rs), with a consumer that does what the  *)
(* emitted changes say.                                                    *)
(*                                                                         *)
(* Abstractions.                                                           *)
(*  - Every operation is a transaction on a staged copy: one that fails    *)
(*    changes nothing and emits nothing, so failures are guards.  Failures *)
(*    for want of bytes or of transitions are left out.                    *)
(*  - A key's origin, lifetime and delivery never change (a contradiction  *)
(*    is a Conflict).  Slots and ordinals only make keys distinct, so an   *)
(*    action is its command.                                               *)
(*  - Connection and stream are one number, scope.                         *)
(***************************************************************************)
EXTENDS Integers, FiniteSets, Sequences

CONSTANTS
  Keys,                   \* event keys
  Command(_),             \* the command that caused a key
  Origin(_), Expires(_),  \* origin_tick and expires_at
  Delivery(_),            \* "Reversible", "SimulationOwned" or "OneShot"
  Indexes,                \* entity indexes
  Payloads, None,
  Records, Fences,        \* Limits.records, Limits.action_fences
  History,                \* Limits.history_ticks
  MaxTick, MaxGeneration, MaxScope  \* bounds

Commands == {Command(k) : k \in Keys}

JournalAssumption ==
  /\ IsFiniteSet(Keys) /\ Commands \subseteq Nat \ {0}
  /\ None \notin Payloads /\ None \notin Keys
  /\ \A k \in Keys : Origin(k) \in Nat /\ Expires(k) \in Nat /\ Expires(k) > Origin(k)
  /\ {Records, Fences, History, MaxTick, MaxGeneration, MaxScope} \subseteq Nat \ {0}

VARIABLES
  scope, now,
  retired,     \* retired command watermark
  entries,     \* key -> Entry, or NoEntry
  bindings,    \* index -> generation and key of its newest binding
  rejected,    \* rejected_actions
  visuals,     \* consumer: key -> payload on display, or None
  plays        \* consumer: cue -> times played in this scope

vars == <<scope, now, retired, entries, bindings, rejected, visuals, plays>>

NoEntry == [phase |-> "Absent", decision |-> "Unresolved", delivered |-> FALSE,
            payload |-> None, binding |-> None]
Unseen == [NoEntry EXCEPT !.phase = "Unseen"]
NoBinding == [generation |-> 0, key |-> None]

\* new
Init ==
  /\ scope = 1 /\ now = 0 /\ retired = 0
  /\ entries = [k \in Keys |-> NoEntry]
  /\ bindings = [i \in Indexes |-> NoBinding]
  /\ rejected = {}
  /\ visuals = [k \in Keys |-> None] /\ plays = [k \in Keys |-> 0]

-----------------------------------------------------------------------------
(* A transaction takes each entry through a pipeline: stage[k] is the entry *)
(* and the changes emitted for it so far.                                   *)

Staged == [k \in Keys |-> [entry |-> entries[k], changes |-> <<>>]]

Present(stage, k) == stage[k].entry.phase # "Absent"
Emit(s, kind, payload) == [s EXCEPT !.changes = Append(@, [kind |-> kind, payload |-> payload])]

\* Mutant: a cancelled one-shot cue is taken back, a visual is not.
MutantCancel(s, k, phase) ==
  LET t == IF s.entry.phase = "Live" /\ Delivery(k) = "OneShot" THEN Emit(s, "Cancel", None) ELSE s
  IN [t EXCEPT !.entry.phase = phase, !.entry.payload = None]

\* cancel: what is on display is withdrawn, a cue cannot be unplayed.
Cancel(s, k, phase) ==
  LET t == IF s.entry.phase = "Live" /\ Delivery(k) # "OneShot" THEN Emit(s, "Cancel", None) ELSE s
  IN [t EXCEPT !.entry.phase = phase, !.entry.payload = None]

\* entry
Entered(s) == IF s.entry.phase = "Absent" THEN [s EXCEPT !.entry = Unseen] ELSE s

\* Mutant: confirmed events expire with the clock.
MutantLapsed(e, k, n) ==
  /\ e.phase \in {"Live", "ReplayAbsent"}
  /\ Delivery(k) # "SimulationOwned" /\ Expires(k) <= n

\* advance_inner
Lapsed(e, k, n) ==
  /\ e.decision # "Accepted" /\ e.phase \in {"Live", "ReplayAbsent"}
  /\ Delivery(k) # "SimulationOwned" /\ Expires(k) <= n
Advanced(n) ==
  [k \in Keys |-> IF Lapsed(entries[k], k, n) THEN Cancel(Staged[k], k, "Expired") ELSE Staged[k]]

\* The consumer obeys the changes in their order: what it displays in the end is
\* the payload of the last change that concerns the display (None of a Cancel).
Displayed(shown, changes) ==
  LET about == {i \in DOMAIN changes : changes[i].kind \in {"Create", "Update", "Cancel"}}
  IN IF about = {} THEN shown
     ELSE changes[CHOOSE i \in about : \A j \in about : j <= i].payload
Creations(changes) == Cardinality({i \in DOMAIN changes : changes[i].kind = "Create"})

\* transaction: the staged entries and their changes are published together.
Commit(stage) ==
  /\ entries' = [k \in Keys |-> stage[k].entry]
  /\ visuals' = [k \in Keys |-> IF Delivery(k) = "OneShot" THEN None
                                ELSE Displayed(visuals[k], stage[k].changes)]
  /\ plays' = [k \in Keys |-> IF Delivery(k) = "OneShot" THEN plays[k] + Creations(stage[k].changes)
                              ELSE 0]

HasRecords(stage) == Cardinality({k \in Keys : Present(stage, k)}) <= Records

\* valid_identity
Valid(k, n) == Command(k) > retired /\ Origin(k) <= n

-----------------------------------------------------------------------------
\* advance
Advance(n) ==
  /\ Commit(Advanced(n)) /\ now' = n
  /\ UNCHANGED <<scope, retired, bindings, rejected>>

\* Mutant: an identity whose presentation has ended starts again.
MutantOver(e) == e.phase = "Rejected"

\* Tombstones, and confirmed events that a replay has withdrawn.
Over(e) == e.phase \in {"Expired", "Rejected"} \/ (e.phase = "ReplayAbsent" /\ e.decision = "Accepted")

\* Mutant: a cue that returns is played again.
MutantCreates(e, k) == e.phase # "Live"

Creates(e, k) == e.phase # "Live" /\ (~e.delivered \/ Delivery(k) # "OneShot")

\* The part of reconcile that applies one corrected record.
Corrected(s, k, payload, n) ==
  LET e    == s.entry
      live == [s EXCEPT !.entry = [e EXCEPT !.phase = "Live", !.delivered = TRUE, !.payload = payload]]
  IN IF Command(k) \in rejected
     THEN Cancel([s EXCEPT !.entry.decision = "Rejected"], k, "Rejected")
     ELSE IF Over(e) THEN s
     ELSE IF Delivery(k) # "SimulationOwned" /\ Expires(k) <= n /\ e.phase # "Live"
     THEN Cancel(s, k, "Expired")
     ELSE IF Creates(e, k) THEN Emit(live, "Create", payload)
     ELSE IF e.payload # payload /\ (Delivery(k) # "OneShot" \/ e.phase = "Live")
     THEN Emit(live, "Update", payload) ELSE live

\* The part of reconcile that withdraws what the replay did not produce again.
Withdrawn(s, k, first, last) ==
  IF s.entry.phase = "Live" /\ s.entry.decision # "Accepted" /\ Origin(k) \in first..last
  THEN Cancel(s, k, "ReplayAbsent") ELSE s

\* reconcile
Reconcile(n, first, last, corrected) ==
  LET given == DOMAIN corrected
      stage == [k \in Keys |->
                 IF k \in given THEN Corrected(Entered(Advanced(n)[k]), k, corrected[k], n)
                 ELSE Withdrawn(Advanced(n)[k], k, first, last)]
  IN /\ first <= last /\ last <= n /\ n - first < History
     /\ \A k \in given : Valid(k, n) /\ Origin(k) \in first..last
     /\ HasRecords(stage)
     /\ Commit(stage) /\ now' = n
     /\ UNCHANGED <<scope, retired, bindings, rejected>>

-----------------------------------------------------------------------------
\* resolve with Outcome::Rejected
ResolveRejected(n, k) ==
  LET s == Entered(Advanced(n)[k])
      stage == [Advanced(n) EXCEPT ![k] = Cancel([s EXCEPT !.entry.decision = "Rejected"], k, "Rejected")]
  IN /\ Valid(k, n) /\ s.entry.decision # "Accepted"
     /\ HasRecords(stage)
     /\ Commit(stage) /\ now' = n
     /\ UNCHANGED <<scope, retired, bindings, rejected>>

Confirmed(s) ==
  IF s.entry.decision = "Accepted" THEN s
  ELSE Emit([s EXCEPT !.entry.decision = "Accepted"], "Confirm", None)

Acceptable(s, k, n) ==
  Valid(k, n) /\ s.entry.decision # "Rejected" /\ Command(k) \notin rejected

\* resolve with Outcome::Accepted and no binding
ResolveAccepted(n, k) ==
  LET s == Entered(Advanced(n)[k])
      stage == [Advanced(n) EXCEPT ![k] = Confirmed(s)]
  IN /\ Acceptable(s, k, n)
     /\ HasRecords(stage)
     /\ Commit(stage) /\ now' = n
     /\ UNCHANGED <<scope, retired, bindings, rejected>>

\* Mutant: the replaced entity's event stays on display.
MutantReplaced(stage, k, i) == stage

\* The newer generation proves that the entity of the old event is gone.
Replaced(stage, k, i) ==
  LET old == bindings[i].key IN
  IF old = None \/ old = k \/ ~Present(stage, old) THEN stage
  ELSE [stage EXCEPT ![old] = Cancel(@, old, "Expired")]

\* bind: a binding is never replaced by another, an index never goes back.
Bindable(e, k, i, g) ==
  \/ e.binding = <<i, g>>
  \/ /\ e.binding = None
     /\ g > bindings[i].generation \/ (g = bindings[i].generation /\ bindings[i].key = k)

\* resolve with Outcome::Accepted and the authoritative entity
ResolveBound(n, k, i, g) ==
  LET s     == Confirmed(Entered(Advanced(n)[k]))
      kind  == IF s.entry.phase \in {"ReplayAbsent", "Expired", "Rejected"} THEN "BindRetired" ELSE "Bind"
      fresh == s.entry.binding = None
      bound == IF fresh THEN Emit([s EXCEPT !.entry.binding = <<i, g>>], kind, None) ELSE s
      stage == [(IF fresh THEN Replaced(Advanced(n), k, i) ELSE Advanced(n)) EXCEPT ![k] = bound]
  IN /\ Acceptable(Entered(Advanced(n)[k]), k, n) /\ Bindable(s.entry, k, i, g)
     /\ HasRecords(stage)
     /\ Commit(stage) /\ now' = n
     /\ bindings' = IF fresh THEN [bindings EXCEPT ![i] = [generation |-> g, key |-> k]] ELSE bindings
     /\ UNCHANGED <<scope, retired, rejected>>

\* reject_action
RejectAction(n, c) ==
  LET stage == [k \in Keys |->
                 LET s == Advanced(n)[k] IN
                 IF Command(k) = c /\ s.entry.phase # "Absent"
                 THEN Cancel([s EXCEPT !.entry.decision = "Rejected"], k, "Rejected") ELSE s]
  IN /\ c > retired
     /\ \A k \in Keys : Command(k) = c => entries[k].decision # "Accepted"
     /\ rejected' = rejected \cup {c} /\ Cardinality(rejected') <= Fences
     /\ Commit(stage) /\ now' = n
     /\ UNCHANGED <<scope, retired, bindings>>

\* expire
Expire(n, k) ==
  LET s == Entered(Advanced(n)[k])
      stage == [Advanced(n) EXCEPT ![k] =
                 IF s.entry.phase = "Rejected" THEN s ELSE Cancel(s, k, "Expired")]
  IN /\ Valid(k, n) /\ HasRecords(stage)
     /\ Commit(stage) /\ now' = n
     /\ UNCHANGED <<scope, retired, bindings, rejected>>

\* retire_through
RetireThrough(c) ==
  /\ c >= retired
  /\ \A k \in Keys : Command(k) <= c => entries[k].phase # "Live"
  /\ entries' = [k \in Keys |-> IF Command(k) <= c THEN NoEntry ELSE entries[k]]
  /\ rejected' = {r \in rejected : r > c}
  /\ retired' = c
  /\ UNCHANGED <<scope, now, bindings, visuals, plays>>

\* reset: the consumer drops everything of the old scope.
Reset ==
  /\ scope < MaxScope
  /\ scope' = scope + 1 /\ now' = 0 /\ retired' = 0
  /\ entries' = [k \in Keys |-> NoEntry]
  /\ bindings' = [i \in Indexes |-> NoBinding]
  /\ rejected' = {}
  /\ visuals' = [k \in Keys |-> None] /\ plays' = [k \in Keys |-> 0]

Replay(n) ==
  \E first \in 0..n, last \in 0..n, given \in SUBSET Keys :
    \E corrected \in [given -> Payloads] : Reconcile(n, first, last, corrected)

Next ==
  \/ \E n \in now..MaxTick :
       \/ Advance(n) \/ Replay(n)
       \/ \E k \in Keys : ResolveRejected(n, k) \/ ResolveAccepted(n, k) \/ Expire(n, k)
       \/ \E k \in Keys, i \in Indexes, g \in 1..MaxGeneration : ResolveBound(n, k, i, g)
       \/ \E c \in Commands : RejectAction(n, c)
  \/ \E c \in Commands : RetireThrough(c)
  \/ Reset

Spec == Init /\ [][Next]_vars

-----------------------------------------------------------------------------
Live(k) == entries[k].phase = "Live"

\* The state keeps its shape and the journal its limits.
TypeOK ==
  /\ scope \in 1..MaxScope /\ now \in 0..MaxTick /\ retired \in Commands \cup {0}
  /\ entries \in [Keys -> [phase : {"Absent", "Unseen", "Live", "ReplayAbsent", "Expired", "Rejected"},
                           decision : {"Unresolved", "Accepted", "Rejected"}, delivered : BOOLEAN,
                           payload : Payloads \cup {None},
                           binding : (Indexes \X (1..MaxGeneration)) \cup {None}]]
  /\ bindings \in [Indexes -> [generation : 0..MaxGeneration, key : Keys \cup {None}]]
  /\ rejected \subseteq Commands /\ Cardinality(rejected) <= Fences
  /\ Cardinality({k \in Keys : entries[k].phase # "Absent"}) <= Records
  /\ visuals \in [Keys -> Payloads \cup {None}]

\* A consumer that only obeys changes displays exactly the live reversible events
\* with their newest payloads, whatever was replayed, confirmed or withdrawn.
VisualsMatch ==
  /\ TypeOK
  /\ \A k \in Keys : visuals[k] = IF Live(k) /\ Delivery(k) # "OneShot" THEN entries[k].payload ELSE None

\* "Deliver once; absence cannot unplay it": a cue is created at most once in a
\* scope, also after it was withdrawn, predicted again, or its record reclaimed.
PlayedOnce == \A k \in Keys : Delivery(k) = "OneShot" => plays[k] <= 1

\* Two live events never stand for the same entity index: the event of a newer
\* generation has retired the older one in the same transaction.
OneLivePerIndex ==
  \A k, l \in Keys : Live(k) /\ Live(l) /\ entries[k].binding # None /\ entries[l].binding # None
                       /\ entries[k].binding[1] = entries[l].binding[1] => k = l

\* What a consumer displays and plays is what the journal says.
JournalExact == VisualsMatch /\ PlayedOnce /\ OneLivePerIndex

\* "Accept/reject is terminal", and what has expired, was rejected, or was
\* withdrawn after its confirmation is never live again before the next scope.
TerminalStays ==
  scope' = scope => \A k \in Keys :
       /\ (entries[k].phase \in {"Expired", "Rejected"}
            \/ (entries[k].phase = "ReplayAbsent" /\ entries[k].decision = "Accepted")
            \/ Command(k) <= retired) => entries'[k].phase # "Live"
       /\ entries[k].decision # "Unresolved" =>
            entries'[k].decision = entries[k].decision \/ entries'[k].phase = "Absent"

\* "Confirmed events survive provisional replay and time advancement".
ConfirmedSurvives ==
  \A k \in Keys :
       Live(k) /\ entries[k].decision = "Accepted" /\ entries'[k].phase # "Live" =>
         ~Advance(now') /\ ~Replay(now')

\* A decision about an event, and what follows from it, is final.
DecisionsFinal == [][TerminalStays /\ ConfirmedSurvives]_vars

=============================================================================
