-------------------------- MODULE ScopeReplication --------------------------
(***************************************************************************)
(* One peer's scoped replication end to end: the world, the server's       *)
(* delivery state (ServerScopes), the client's replicas (ClientScopes) and *)
(* the transport between them.                                             *)
(*                                                                         *)
(*  - States are datagrams, and so is everything about them: a sent state  *)
(*    and a returned receipt may be lost, delayed, duplicated, reordered.  *)
(*    Both are sets that keep every message ever sent.                     *)
(*  - Exits, destructions and the reset to a new epoch are enqueued once   *)
(*    on the reliable control lane, and their acknowledgements return on   *)
(*    the reliable lane of the other direction.  The lanes are sequences   *)
(*    that keep the order.                                                 *)
(*  - The lanes and the datagrams are independent of each other.           *)
(***************************************************************************)
EXTENDS ClientScopes, Sequences

CONSTANT MaxChanges  \* bound: changes of the world, the policy and the connection

ASSUME ChangesAssumption == MaxChanges \in Nat

VARIABLES
  world,      \* index -> the entity the game has there
  changes,    \* how often the world, the policy or the connection changed
  states,     \* full states handed to the transport
  receipts,   \* decode receipts handed to the transport
  down,       \* control lane to the client
  up          \* control lane to the server

netVars == <<states, receipts, down, up>>
game == <<world, changes>>
vars == <<serverVars, clientVars, game, netVars>>

Init ==
  /\ ServerInit
  /\ ClientInit
  /\ world = [i \in Indexes |-> [generation |-> 1, version |-> 1, alive |-> TRUE]]
  /\ changes = 0
  /\ states = {} /\ receipts = {}
  /\ down = <<>> /\ up = <<>>

-----------------------------------------------------------------------------
\* The game: an entity changes, dies, and its index is used again.

Change == changes < MaxChanges /\ changes' = changes + 1

Mutate(i) ==
  /\ Change
  /\ world[i].alive /\ world[i].version < MaxVersion
  /\ world' = [world EXCEPT ![i].version = @ + 1]
  /\ UNCHANGED <<serverVars, clientVars, netVars>>

Despawn(i) ==
  /\ Change
  /\ world[i].alive
  /\ world' = [world EXCEPT ![i].alive = FALSE]
  /\ UNCHANGED <<serverVars, clientVars, netVars>>

Respawn(i) ==
  /\ Change
  /\ ~world[i].alive /\ world[i].generation < MaxGeneration
  /\ world' = [world EXCEPT ![i] =
       [generation |-> @.generation + 1, version |-> 1, alive |-> TRUE]]
  /\ UNCHANGED <<serverVars, clientVars, netVars>>

\* The authority publishes what the peer may see and withdraws the rest.

OfferStep(i) ==
  /\ world[i].alive
  /\ \E r \in Representations, d \in BOOLEAN :
       Offer(i, world[i].generation, r, world[i].version, d)
  /\ UNCHANGED <<clientVars, game, netVars>>

ExitStep(i) ==
  /\ Exit(i)
  /\ UNCHANGED <<clientVars, game, netVars>>

DestroyStep(i) ==
  /\ records[i].generation < world[i].generation \/ ~world[i].alive
  /\ Destroy(i)
  /\ UNCHANGED <<clientVars, game, netVars>>

BarrierStep ==
  /\ Change
  /\ AdvanceBarrier
  /\ UNCHANGED <<clientVars, world, netVars>>

TransmitStep(i) ==
  /\ TransmitPending(i)
  /\ states' = states \cup {[scope |-> ScopeOf(i), state |-> records[i].desired]}
  /\ UNCHANGED <<clientVars, game, receipts, down, up>>

SendFence(i) ==
  /\ MarkFenceSent(i)
  /\ down' = Append(down, [kind |-> IF records[i].destroyed THEN "destroy" ELSE "exit",
                           scope |-> ScopeOf(i)])
  /\ UNCHANGED <<clientVars, game, states, receipts, up>>

ResetStep ==
  /\ Change
  /\ ServerReset
  /\ down' = Append(down, [kind |-> "reset", scope |-> [epoch |-> epoch + 1]])
  /\ UNCHANGED <<clientVars, world, states, receipts, up>>

-----------------------------------------------------------------------------
\* The client.

\* A state that is refused is dropped, and so leaves no trace.
ReceiveState(m) ==
  /\ ApplyFull(m.scope.index, m.scope, m.state)
  /\ receipts' = receipts \cup {m}
  /\ UNCHANGED <<serverVars, game, states, down, up>>

\* A fence is answered when it closed the replica or was already past, and is
\* dropped when it was refused.
Answered(m) ==
  \/ m.kind = "exit" /\ JudgeExit(m.scope.index, m.scope) \in {"Past", "Close"}
  \/ /\ m.kind = "destroy"
     /\ m.scope.epoch = clientEpoch /\ CapacityFor(m.scope.index)

ReceiveFence ==
  LET m == Head(down) IN
  /\ down # <<>>
  /\ m.kind # "reset"
  /\ down' = Tail(down)
  /\ \/ /\ Answered(m)
        /\ \/ m.kind = "exit" /\ ApplyExit(m.scope.index, m.scope)
           \/ /\ m.kind = "destroy"
              /\ ApplyDestroy(m.scope.index, m.scope.epoch, m.scope.generation)
        /\ up' = Append(up, m)
     \/ ~Answered(m) /\ UNCHANGED <<clientVars, up>>
  /\ UNCHANGED <<serverVars, game, states, receipts>>

ReceiveReset ==
  /\ down # <<>>
  /\ Head(down).kind = "reset"
  /\ down' = Tail(down)
  /\ ClientReset(Head(down).scope.epoch)
  /\ UNCHANGED <<serverVars, game, states, receipts, up>>

\* The server hears back.  A refused acknowledgement is ignored.

ReceiveReceipt(m) ==
  /\ Acknowledge(m.scope.index, m.scope, m.state)
  /\ UNCHANGED <<clientVars, game, netVars>>

ReceiveAck ==
  LET m == Head(up)
      i == m.scope.index
      acked == \/ m.kind = "exit" /\ ExitAcked(i, m.scope)
               \/ m.kind = "destroy"
                  /\ DestroyAcked(i, m.scope.epoch, m.scope.generation)
  IN
  /\ up # <<>>
  /\ up' = Tail(up)
  /\ \/ acked /\ Forget(i)
     \/ ~acked /\ UNCHANGED serverVars
  /\ UNCHANGED <<clientVars, game, states, receipts, down>>

Next ==
  \/ \E i \in Indexes : \/ Mutate(i) \/ Despawn(i) \/ Respawn(i)
                        \/ OfferStep(i) \/ ExitStep(i) \/ DestroyStep(i)
                        \/ TransmitStep(i) \/ SendFence(i)
  \/ BarrierStep \/ ResetStep
  \/ \E m \in states : ReceiveState(m)
  \/ \E m \in receipts : ReceiveReceipt(m)
  \/ ReceiveFence \/ ReceiveReset \/ ReceiveAck

Spec == Init /\ [][Next]_vars

\* A datagram is lost.  For safety this is the same as one that is not delivered,
\* so only the liveness of retransmission needs it.
Lose ==
  /\ \E m \in states \cup receipts :
       states' = states \ {m} /\ receipts' = receipts \ {m}
  /\ UNCHANGED <<serverVars, clientVars, game, down, up>>

\* The message that carries the desired state of an index.
Current(i) == [scope |-> ScopeOf(i), state |-> records[i].desired]

\* The tick loop keeps transmitting and sending fences, the reliable lanes keep
\* delivering, and a datagram that is sent again and again arrives in the end.
Fairness ==
  /\ \A i \in Indexes :
       /\ WF_vars(TransmitStep(i))
       /\ WF_vars(SendFence(i))
       /\ SF_vars(Current(i) \in states /\ ReceiveState(Current(i)))
       /\ SF_vars(Current(i) \in receipts /\ ReceiveReceipt(Current(i)))
  /\ WF_vars(ReceiveFence \/ ReceiveReset)
  /\ WF_vars(ReceiveAck)
LossySpec == Init /\ [][Next \/ Lose]_vars
FairSpec == LossySpec /\ Fairness

-----------------------------------------------------------------------------

TypeOK ==
  /\ epoch \in 1..MaxEpoch /\ clientEpoch \in 1..epoch
  /\ policy \in 1..MaxPolicy
  /\ records \in [Indexes -> Delivery]
  /\ nextSnapshot \in 1..MaxSnapshot
  /\ bytes \in 0..RetainedBytes /\ clientBytes \in 0..RetainedBytes
  /\ resetRequired \in BOOLEAN
  /\ replicas \in [Indexes -> Replica]
  /\ \A m \in states \cup receipts : m.state \in Publication

\* The delivery and replica accounts are exact, so that no subtraction in
\* `exit`, `apply_exit` or `apply_destroy` underflows, and the transition cap
\* and the proof cap of `offer`, `exit` and `mark_sent` are never exceeded.
RetainedBy(pub) ==
  LET Sum[S \in SUBSET Indexes] ==
        IF S = {} THEN 0
        ELSE LET i == CHOOSE i \in S : TRUE
             IN  PublicationBytes(pub[i]) + Sum[S \ {i}]
  IN  Sum[Indexes]

AccountsExact ==
  /\ TypeOK
  /\ bytes = RetainedBy([i \in Indexes |-> records[i].desired])
  /\ clientBytes = RetainedBy([i \in Indexes |-> replicas[i].state])
  /\ PendingCount <= PendingTransitions
  /\ \A i \in Indexes : Cardinality(records[i].sent) <= SentProofs

\* Nothing the server sends, however delayed or repeated, is a conflict to
\* `apply_full` or `apply_exit`, and the client never runs out of fences for what
\* the server could still track.
ClientNeverConflicts ==
  /\ \A m \in states : Judge(m.scope.index, m.scope, m.state) # "Conflict"
  /\ down # <<>> =>
       LET m == Head(down)
       IN  m.kind # "reset" /\ m.scope.epoch = clientEpoch => Answered(m)

\* The receipt the server holds as decoded is honest: while the scope is live
\* the client shows that publication or a newer one of the same scope.  A
\* dormant scope, for which the server has stopped sending, shows exactly the
\* desired one.
DecodedIsShown ==
  \A i \in Indexes :
    Live(i) /\ epoch = clientEpoch /\ records[i].decoded # NoPublication =>
      /\ HeldScope(i) = ScopeOf(i)
      /\ replicas[i].state.snapshot >= records[i].decoded.snapshot
      /\ records[i].phase = "DormantKnown" => replicas[i].state = records[i].desired

\* A replica of a scope that the server has ended is going to be withdrawn: a
\* newer scope of the index is live, or a fence for it is unsent or on its way.
\* Otherwise the client would show the entity for ever.
FenceUnderWay(i) ==
  \/ UnsentFence(i)
  \/ \E k \in DOMAIN down :
       \/ down[k].kind = "reset"
       \/ /\ down[k].scope.index = i /\ down[k].scope.epoch = epoch
          /\ down[k].scope.generation >= replicas[i].generation
          /\ down[k].kind = "exit" =>
               \/ down[k].scope.generation > replicas[i].generation
               \/ down[k].scope.scope >= replicas[i].scope

RevocationNotLost ==
  \A i \in Indexes : Holds(i) /\ epoch = clientEpoch =>
    Live(i) \/ FenceUnderWay(i) \/ resetRequired

\* Server and client agree on what the client may hold: no message is a
\* conflict, and what the server has ended is withdrawn.
ScopesAgree == ClientNeverConflicts /\ RevocationNotLost

\* Both ends keep exact books: retained bytes, pending transitions and the
\* publication that the client has decoded.
BooksExact == AccountsExact /\ DecodedIsShown

\* Within a connection epoch a client's fence only advances: a dead generation
\* stays dead, an ended scope stays ended, and what is shown never goes back to
\* an older publication, whatever arrives in whatever order.
Advances(r, s) ==
  \/ s.generation > r.generation
  \/ /\ s.generation = r.generation
     /\ \/ s.destroyed
        \/ ~r.destroyed /\ s.scope > r.scope
        \/ /\ ~r.destroyed /\ s.scope = r.scope
           /\ r.closed => s.closed
           /\ s.closed \/ /\ s.state.snapshot >= r.state.snapshot
                          /\ s.state.version >= r.state.version

ReplicasAdvance ==
  clientEpoch' = clientEpoch =>
    \A i \in Indexes : Advances(replicas[i], replicas'[i])

\* No message that `apply_full`, `apply_exit` or `apply_destroy` accepts moves a
\* fence or a publication of the client back.
FencesOnlyAdvance == [][ReplicasAdvance]_vars

\* The client ends up with what the server last decided, whatever is lost on the
\* way: once the game and the authority stop making changes, every live scope is
\* shown as desired and every other replica is closed.
Agreed ==
  \A i \in Indexes :
    IF Live(i) THEN HeldScope(i) = ScopeOf(i) /\ replicas[i].state = records[i].desired
    ELSE ~Holds(i) \/ resetRequired

Converges == <>[]Agreed

=============================================================================
