---------------------------- MODULE ServerScopes ----------------------------
(***************************************************************************)
(* The server's delivery state for one peer                                *)
(* (engine/net/src/replication/server.rs): which entities the peer may     *)
(* see, the newest publication of each, what was sent and what the peer    *)
(* has proved to have decoded, and the fences (exits and destructions)     *)
(* that end a scope.                                                       *)
(*                                                                         *)
(* The actions here change the server's variables only.  ScopeReplication  *)
(* joins them with the messages they send and receive.  A call that the    *)
(* code answers with an error and no change is not a step.                 *)
(*                                                                         *)
(* Abstractions.                                                           *)
(*  - A payload is determined by its entity and version; Size gives its    *)
(*    bytes.  The baseline generation equals the snapshot number and the   *)
(*    end tick grows with the version, so neither is kept.                 *)
(*  - An entity index without a record has generation 0 (identities are    *)
(*    nonzero); a publication that is absent has snapshot 0.               *)
(***************************************************************************)
EXTENDS Integers, FiniteSets

CONSTANTS
  Indexes,             \* entity indexes
  Representations,     \* representation revisions of grants
  Size(_),             \* bytes of a payload, by version
  KnownEntities,       \* ScopeLimits.known_entities
  PendingTransitions,  \* ScopeLimits.pending_transitions
  RetainedBytes,       \* ScopeLimits.retained_payload_bytes
  SentProofs,          \* ScopeLimits.sent_proofs_per_scope
  MaxGeneration,       \* bound: entity generations per index
  MaxVersion,          \* bound: versions per entity
  MaxSnapshot,         \* bound: publications per connection epoch
  MaxPolicy,           \* bound: policy revisions
  MaxEpoch             \* bound: connection epochs

\* ScopeLimits::validate, and sane bounds.
ASSUME ScopeLimitsAssumption ==
  /\ IsFiniteSet(Indexes) /\ Representations \subseteq Nat \ {0}
  /\ \A v \in 1..MaxVersion : Size(v) \in Nat \ {0} /\ Size(v) <= RetainedBytes
  /\ \A n \in {KnownEntities, PendingTransitions, RetainedBytes, SentProofs} :
       n \in Nat \ {0}
  /\ \A n \in {MaxGeneration, MaxVersion, MaxSnapshot, MaxPolicy, MaxEpoch} :
       n \in Nat \ {0}

VARIABLES
  epoch,          \* connection epoch
  policy,         \* policy revision of the committed barrier
  records,        \* index -> delivery record
  nextSnapshot,   \* the next snapshot number
  bytes,          \* payload bytes retained
  resetRequired   \* failed closed: only reset helps

serverVars == <<epoch, policy, records, nextSnapshot, bytes, resetRequired>>

Publication == [snapshot : 0..MaxSnapshot, version : 0..MaxVersion]
NoPublication == [snapshot |-> 0, version |-> 0]
Phases == {"Entering", "Active", "DormantKnown", "Leaving", "Forgotten"}
MaxScope == MaxSnapshot

Delivery ==
  [generation : 0..MaxGeneration, scope : 0..MaxScope,
   representation : Representations \cup {0}, desired : Publication,
   sent : SUBSET Publication, decoded : Publication, dormant : BOOLEAN,
   phase : Phases, exitSent : BOOLEAN, destroyed : BOOLEAN]

NoDelivery ==
  [generation |-> 0, scope |-> 0, representation |-> 0,
   desired |-> NoPublication, sent |-> {}, decoded |-> NoPublication,
   dormant |-> FALSE, phase |-> "Forgotten", exitSent |-> FALSE,
   destroyed |-> FALSE]

Known(i)   == records[i].generation # 0
Live(i)    == records[i].phase \in {"Entering", "Active", "DormantKnown"}
Changing(i) == records[i].phase \in {"Entering", "Leaving"}
PendingCount == Cardinality({i \in Indexes : Known(i) /\ Changing(i)})

ScopeOf(i) == [epoch |-> epoch, index |-> i, generation |-> records[i].generation,
               scope |-> records[i].scope,
               representation |-> records[i].representation]

PublicationBytes(p) == IF p.snapshot = 0 THEN 0 ELSE Size(p.version)

RefreshPhase(r) ==
  [r EXCEPT !.phase =
     IF r.decoded = NoPublication THEN "Entering"
     ELSE IF r.dormant /\ r.decoded = r.desired THEN "DormantKnown"
     ELSE "Active"]

\* The record with its payload and proofs dropped, in a closing phase.
Emptied(r, phase) ==
  [r EXCEPT !.phase = phase, !.desired = NoPublication, !.sent = {},
            !.decoded = NoPublication]

-----------------------------------------------------------------------------

ServerInit ==
  /\ epoch = 1
  /\ policy = 1
  /\ records = [i \in Indexes |-> NoDelivery]
  /\ nextSnapshot = 1
  /\ bytes = 0
  /\ resetRequired = FALSE

RequireReset ==
  /\ resetRequired' = TRUE
  /\ records' = [i \in Indexes |-> IF Known(i) THEN Emptied(records[i], "Forgotten")
                                   ELSE records[i]]
  /\ bytes' = 0
  /\ UNCHANGED <<epoch, policy, nextSnapshot>>

\* advance_barrier with a new policy revision.
AdvanceBarrier ==
  /\ ~resetRequired
  /\ policy < MaxPolicy
  /\ IF Cardinality({i \in Indexes : Known(i) /\ records[i].phase # "Forgotten"})
          > PendingTransitions
     THEN RequireReset
     ELSE /\ policy' = policy + 1
          /\ records' = [i \in Indexes |->
               IF Known(i) /\ records[i].phase # "Forgotten"
               THEN [Emptied(records[i], IF records[i].destroyed THEN "Forgotten"
                                         ELSE "Leaving") EXCEPT !.exitSent = FALSE]
               ELSE records[i]]
          /\ bytes' = 0
          /\ UNCHANGED <<epoch, nextSnapshot, resetRequired>>

\* Mutant: every scope of an index is its first.
MutantNextScope(i) == 1

\* Scope epochs of an index never repeat within a connection epoch.
NextScope(i) == records[i].scope + 1

\* Mutant: the transition cap admits one too many.
MutantOfferable(i, g, fresh) ==
  /\ Known(i) \/ Cardinality({j \in Indexes : Known(j)}) < KnownEntities
  /\ \/ ~Known(i)
     \/ g > records[i].generation
     \/ g = records[i].generation /\ ~records[i].destroyed
  /\ fresh /\ ~(Known(i) /\ Changing(i)) => PendingCount <= PendingTransitions

\* The tests of offer_projected on a record: the entity generation is neither
\* superseded nor dead, and a new scope has room.
Offerable(i, g, fresh) ==
  /\ Known(i) \/ Cardinality({j \in Indexes : Known(j)}) < KnownEntities
  /\ \/ ~Known(i)
     \/ g > records[i].generation
     \/ g = records[i].generation /\ ~records[i].destroyed
  /\ fresh /\ ~(Known(i) /\ Changing(i)) => PendingCount < PendingTransitions

\* offer_projected of a new scope, of a newer version in the same scope, and of
\* the version already offered (which only changes dormancy).
Offer(i, g, representation, v, dormant) ==
  LET old   == records[i]
      fresh == \/ ~Known(i) \/ ~Live(i) \/ old.generation # g
               \/ old.representation # representation
      room  == bytes - PublicationBytes(old.desired) + Size(v)
      state == [snapshot |-> nextSnapshot, version |-> v]
  IN
  /\ ~resetRequired
  /\ Offerable(i, g, fresh)
  /\ \/ /\ ~fresh /\ v = old.desired.version
        /\ records' = [records EXCEPT ![i] =
             RefreshPhase([old EXCEPT !.dormant = dormant])]
        /\ UNCHANGED <<nextSnapshot, bytes>>
     \/ /\ fresh \/ v > old.desired.version
        /\ room <= RetainedBytes
        /\ nextSnapshot < MaxSnapshot
        /\ bytes' = room
        /\ nextSnapshot' = nextSnapshot + 1
        /\ records' = [records EXCEPT ![i] =
             IF fresh
             THEN [NoDelivery EXCEPT !.generation = g, !.scope = NextScope(i),
                     !.representation = representation, !.desired = state,
                     !.dormant = dormant, !.phase = "Entering"]
             ELSE RefreshPhase([old EXCEPT !.desired = state,
                                           !.dormant = dormant])]
  /\ UNCHANGED <<epoch, policy, resetRequired>>

\* Mutant: a state is transmitted once.
MutantPending(i) == Live(i) /\ records[i].desired \notin records[i].sent

\* pending: the current state still awaits its decoded receipt.
Pending(i) == Live(i) /\ records[i].desired # records[i].decoded

OldestSent(r) ==
  {p \in r.sent : \A q \in r.sent : p.snapshot <= q.snapshot}

\* mark_sent of the desired state: a full set of proofs forgets its oldest.
MarkSent(r) ==
  [r EXCEPT !.sent =
     (IF r.desired \notin r.sent /\ Cardinality(r.sent) >= SentProofs
      THEN r.sent \ OldestSent(r) ELSE r.sent) \cup {r.desired}]

TransmitPending(i) ==
  /\ ~resetRequired
  /\ Pending(i)
  /\ records' = [records EXCEPT ![i] = MarkSent(records[i])]
  /\ UNCHANGED <<epoch, policy, nextSnapshot, bytes, resetRequired>>

\* acknowledge of a receipt for this record's scope: it must be the proof of
\* something sent, and must not move the decoded state backward.
Acknowledge(i, scope, p) ==
  /\ Known(i) /\ scope = ScopeOf(i) /\ Live(i)
  /\ p \in records[i].sent
  /\ p.snapshot >= records[i].decoded.snapshot
  /\ p.version >= records[i].decoded.version
  /\ records' = [records EXCEPT ![i] =
       RefreshPhase([records[i] EXCEPT !.decoded = p,
         !.sent = {q \in records[i].sent : q.snapshot >= p.snapshot}])]
  /\ UNCHANGED <<epoch, policy, nextSnapshot, bytes, resetRequired>>

\* exit and destroy close a live scope, or fail closed when the revocation
\* exceeds the cap on pending transitions.
CloseScope(i, dead) ==
  /\ ~resetRequired
  /\ Known(i) /\ Live(i)
  /\ IF ~Changing(i) /\ PendingCount >= PendingTransitions
     THEN RequireReset
     ELSE /\ records' = [records EXCEPT ![i] =
               [Emptied(records[i], "Leaving") EXCEPT !.exitSent = FALSE,
                                                      !.destroyed = dead]]
          /\ bytes' = bytes - PublicationBytes(records[i].desired)
          /\ UNCHANGED <<epoch, policy, nextSnapshot, resetRequired>>

Exit(i) == CloseScope(i, FALSE)
Destroy(i) == CloseScope(i, TRUE)

\* unsent_exits and unsent_destroys, then mark_exit_sent or mark_destroy_sent.
UnsentFence(i) == records[i].phase = "Leaving" /\ ~records[i].exitSent

MarkFenceSent(i) ==
  /\ UnsentFence(i)
  /\ records' = [records EXCEPT ![i].exitSent = TRUE]
  /\ UNCHANGED <<epoch, policy, nextSnapshot, bytes, resetRequired>>

\* acknowledge_exit and acknowledge_destroy: the fence must be this record's and
\* must have been sent.
ExitAcked(i, scope) ==
  /\ Known(i) /\ scope = ScopeOf(i)
  /\ ~records[i].destroyed /\ records[i].exitSent /\ ~Live(i)

DestroyAcked(i, e, g) ==
  /\ Known(i) /\ e = epoch /\ g = records[i].generation
  /\ records[i].destroyed /\ records[i].exitSent

Forget(i) ==
  /\ records' = [records EXCEPT ![i].phase = "Forgotten"]
  /\ UNCHANGED <<epoch, policy, nextSnapshot, bytes, resetRequired>>

\* reset under a new connection epoch.
ServerReset ==
  /\ epoch < MaxEpoch
  /\ epoch' = epoch + 1
  /\ records' = [i \in Indexes |-> NoDelivery]
  /\ bytes' = 0
  /\ nextSnapshot' = 1
  /\ resetRequired' = FALSE
  /\ UNCHANGED policy

=============================================================================
