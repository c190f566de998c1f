---------------------------- MODULE ContractScopes ----------------------------
(***************************************************************************)
(* The executable contract of scopes (todo/reference_model/                *)
(* spatial_model.py): ServerScopes and ClientScopes of one connection over *)
(* a network that may lose, repeat and reorder messages both ways, and     *)
(* connection resets.  The caller resets the client first or the server    *)
(* first; messages of the old connection may still arrive.                 *)
(*                                                                         *)
(* A message is kept in the set of those sent, and an acknowledgement is   *)
(* an applied message that reaches the server again.  Left out:            *)
(* representation revisions (one per scope), the client's identity cap,    *)
(* and destruction, which this server never sends.                         *)
(***************************************************************************)
EXTENDS Integers, FiniteSets, TLC
LOCAL INSTANCE FiniteSetsExt

CONSTANTS
  ScopeKeys,           \* entities
  MaxIdentities,
  MaxInflightVersions,
  MaxVersion, MaxScopeEpoch, MaxEpoch, MaxPosted    \* bounds

ContractScopesAssumption ==
  {MaxIdentities, MaxInflightVersions, MaxVersion, MaxScopeEpoch, MaxEpoch, MaxPosted} \subseteq Nat \ {0}

VARIABLES
  sender,     \* ServerScopes: epoch, counters, current
  receiver,   \* ClientScopes: epoch, current, closed, destroyed
  posted,     \* every message of the server
  applied     \* every message the client applied and acknowledges

scopesVars == <<sender, receiver, posted, applied>>

NoDelivery == [phase |-> "none", scope |-> 0, desired |-> 0, dormant |-> FALSE, ready |-> FALSE,
               decoded |-> 0, inflight |-> {}]
NoCopy == [scope |-> 0, version |-> 0]

Posted(kind, k, d) ==
  [kind |-> kind, epoch |-> sender.epoch, entity |-> k, scope |-> d.scope,
   version |-> IF kind = "exit" THEN 0 ELSE d.desired]

Post(m) ==
  /\ posted' = posted \cup {m}
  /\ Cardinality(posted') <= MaxPosted

Deliver(k, d) == sender' = [sender EXCEPT !.current[k] = d]

-----------------------------------------------------------------------------
(* ServerScopes.                                                            *)

\* pending_state: nothing is sent of a scope that is retiring or has too many
\* versions in flight.
PendingState(k, d) ==
  /\ d.phase # "leaving"
  /\ d.desired \in d.inflight \/ Cardinality(d.inflight) < MaxInflightVersions
  /\ Post(Posted(IF d.ready THEN "delta" ELSE "enter", k, d))
  /\ sender' = [sender EXCEPT !.current[k] = [d EXCEPT !.inflight = @ \cup {d.desired}],
                              !.counters[k] = d.scope]

Enter(k, version, dormant) ==
  /\ sender.counters[k] < MaxScopeEpoch
  /\ sender.counters[k] = 0 =>
       Cardinality({j \in ScopeKeys : sender.counters[j] > 0}) < MaxIdentities
  /\ PendingState(k, [NoDelivery EXCEPT !.phase = "entering", !.scope = sender.counters[k] + 1,
                                        !.desired = version, !.dormant = dormant])
  /\ UNCHANGED <<receiver, applied>>

Resend(k) ==
  /\ sender.current[k] # NoDelivery
  /\ PendingState(k, sender.current[k])
  /\ UNCHANGED <<receiver, applied>>

\* Mutant: any version of this scope completes its dormancy.
MutantPhase(d) ==
  IF d.ready /\ d.dormant THEN "dormant_known" ELSE IF d.ready THEN "active" ELSE "entering"

Phase(d) ==
  IF d.ready /\ d.dormant /\ d.decoded >= d.desired THEN "dormant_known"
  ELSE IF d.ready THEN "active" ELSE "entering"

\* acknowledge_state, when it is taken.
AcknowledgeState(m) ==
  LET d == sender.current[m.entity]
      decoded == Max({d.decoded, m.version})
      after == [d EXCEPT !.ready = @ \/ m.kind = "enter", !.decoded = decoded,
                         !.inflight = {v \in @ : v >= decoded}]
  IN /\ m.kind \in {"enter", "delta"}
     /\ m.epoch = sender.epoch /\ m.scope = d.scope
     /\ d.phase \notin {"none", "leaving"} /\ m.version \in d.inflight
     /\ Deliver(m.entity, [after EXCEPT !.phase = Phase(after)])
     /\ UNCHANGED <<receiver, posted, applied>>

ChangedScope(k, version, dormant) ==
  LET d == sender.current[k]
  IN /\ d.phase \notin {"none", "leaving"} /\ version > d.desired
     /\ Deliver(k, [d EXCEPT !.desired = version, !.dormant = dormant,
                             !.phase = IF d.ready THEN "active" ELSE "entering"])
     /\ UNCHANGED <<receiver, posted, applied>>

ExitScope(k) ==
  LET d == sender.current[k]
  IN /\ d # NoDelivery
     /\ Deliver(k, [d EXCEPT !.phase = "leaving"])
     /\ Post(Posted("exit", k, d))
     /\ UNCHANGED <<receiver, applied>>

AcknowledgeExit(m) ==
  LET d == sender.current[m.entity]
  IN /\ m.kind = "exit" /\ m.epoch = sender.epoch
     /\ d.phase = "leaving" /\ m.scope = d.scope
     /\ Deliver(m.entity, NoDelivery)
     /\ UNCHANGED <<receiver, posted, applied>>

NewSender(epoch) ==
  [epoch |-> epoch, counters |-> [k \in ScopeKeys |-> 0], current |-> [k \in ScopeKeys |-> NoDelivery]]

-----------------------------------------------------------------------------
(* ClientScopes.                                                            *)


\* apply, of a message that carries state.
Takes(m) ==
  LET held == receiver.current[m.entity]
  IN /\ m.epoch = receiver.epoch
     /\ m.kind # "exit" => m.scope > receiver.closed[m.entity]
     /\ m.kind = "delta" => held.scope = m.scope
     /\ m.kind = "enter" => m.scope >= held.scope

\* The copy after a state: within a scope the version never falls.
Merged(held, m) ==
  [scope |-> m.scope,
   version |-> IF held.scope = m.scope THEN Max({held.version, m.version}) ELSE m.version]

Apply(m) ==
  LET held == receiver.current[m.entity]
  IN /\ Takes(m)
     /\ receiver' =
          IF m.kind = "exit"
          THEN [receiver EXCEPT !.closed[m.entity] = Max({@, m.scope}),
                                !.current[m.entity] = IF held.scope <= m.scope THEN NoCopy ELSE held]
          ELSE [receiver EXCEPT !.current[m.entity] = Merged(held, m)]
     /\ applied' = applied \cup {m}
     /\ UNCHANGED <<sender, posted>>

NewReceiver(epoch) ==
  [epoch |-> epoch, closed |-> [k \in ScopeKeys |-> 0], current |-> [k \in ScopeKeys |-> NoCopy]]

\* Resets.  Messages of an epoch that the other side has left are refused, so
\* they are forgotten here.
ResetSender ==
  /\ sender.epoch < MaxEpoch /\ sender.epoch <= receiver.epoch
  /\ sender' = NewSender(sender.epoch + 1)
  /\ applied' = {m \in applied : m.epoch > sender.epoch}
  /\ UNCHANGED <<receiver, posted>>

ResetReceiver ==
  /\ receiver.epoch < MaxEpoch /\ receiver.epoch <= sender.epoch
  /\ receiver' = NewReceiver(receiver.epoch + 1)
  /\ posted' = {m \in posted : m.epoch > receiver.epoch}
  /\ UNCHANGED <<sender, applied>>

ScopesInit ==
  /\ sender = NewSender(1) /\ receiver = NewReceiver(1)
  /\ posted = {} /\ applied = {}

ScopesNext ==
  \/ \E k \in ScopeKeys :
       \/ \E v \in 1..MaxVersion, dormant \in BOOLEAN : Enter(k, v, dormant) \/ ChangedScope(k, v, dormant)
       \/ Resend(k) \/ ExitScope(k)
  \/ \E m \in posted : Apply(m)
  \/ \E m \in applied : AcknowledgeState(m) \/ AcknowledgeExit(m)
  \/ ResetSender \/ ResetReceiver

ScopesSpec == ScopesInit /\ [][ScopesNext]_scopesVars

-----------------------------------------------------------------------------
\* What the server concludes from acknowledgements is true of the client while
\* both are of one connection: a scope it believes ready and has not retired is
\* the one the client shows, at a version no older than the acknowledged one,
\* and one it believes dormant is shown at exactly the version it wants, so
\* that nothing need ever be sent again; and a scope the client closed stays
\* closed, however exits, entries and their copies are reordered.
ScopesContract ==
  sender.epoch = receiver.epoch =>
    \A k \in ScopeKeys :
      LET d == sender.current[k]
          held == receiver.current[k]
      IN /\ d.ready /\ d.phase # "leaving" => held.scope = d.scope /\ held.version >= d.decoded
         /\ d.phase = "dormant_known" => held.version = d.desired
         /\ held.scope > 0 => held.scope > receiver.closed[k]
         /\ held.scope = d.scope /\ d.scope > 0 => held.version <= d.desired
=============================================================================
