---------------------------- MODULE ClientScopes ----------------------------
(***************************************************************************)
(* The client's replicas (engine/net/src/replication/client.rs): the state *)
(* published for each entity index and the fence that keeps delayed states *)
(* of ended scopes and dead generations out.                               *)
(*                                                                         *)
(* It shares the identities and abstractions of ServerScopes.  An index    *)
(* without a record has generation 0.                                      *)
(***************************************************************************)
EXTENDS ServerScopes

VARIABLES
  clientEpoch,   \* connection epoch
  replicas,      \* index -> replica
  clientBytes    \* payload bytes retained

clientVars == <<clientEpoch, replicas, clientBytes>>

Replica ==
  [generation : 0..MaxGeneration, scope : 0..MaxScope,
   representation : Representations \cup {0, 1}, closed : BOOLEAN,
   destroyed : BOOLEAN, state : Publication]

NoReplica ==
  [generation |-> 0, scope |-> 0, representation |-> 0, closed |-> TRUE,
   destroyed |-> FALSE, state |-> NoPublication]

Have(i) == replicas[i].generation # 0

\* capacity_for: a known index, or room for one more fence.
CapacityFor(i) ==
  Have(i) \/ Cardinality({j \in Indexes : Have(j)}) < KnownEntities

Holds(i) == replicas[i].state # NoPublication

\* The identity of what is held at an index.
HeldScope(i) ==
  [epoch |-> clientEpoch, index |-> i, generation |-> replicas[i].generation,
   scope |-> replicas[i].scope, representation |-> replicas[i].representation]

ClientInit ==
  /\ clientEpoch = 1
  /\ replicas = [i \in Indexes |-> NoReplica]
  /\ clientBytes = 0

-----------------------------------------------------------------------------
(***************************************************************************)
(* apply_full.  s is the scope identity of the message and p its           *)
(* publication.  The verdict is one of                                     *)
(*   "Stale"     another connection epoch,                                 *)
(*   "Full"      no room for the index or for the bytes,                   *)
(*   "Obsolete"  behind a fence or a newer publication,                    *)
(*   "Conflict"  contradicts what is published,                            *)
(*   "Apply"     published, and a receipt is returned.                     *)
(***************************************************************************)
\* Mutant: an older connection epoch is as good as the current one.
MutantStale(s) == s.epoch > clientEpoch

Stale(s) == s.epoch # clientEpoch

SameScope(r, s) == r.generation = s.generation /\ r.scope = s.scope

\* Mutant: a closed scope may be opened again.
MutantFenced(r, s) ==
  \/ s.generation < r.generation
  \/ s.generation = r.generation /\ (r.destroyed \/ s.scope < r.scope)

Fenced(r, s) ==
  \/ s.generation < r.generation
  \/ s.generation = r.generation /\ (r.destroyed \/ s.scope < r.scope)
  \/ SameScope(r, s) /\ s.representation = r.representation /\ r.closed

\* Mutant: only the publication that is shown counts as old.
MutantSuperseded(r, s, p) == FALSE

\* A publication of the scope that is already open.
Superseded(r, s, p) ==
  SameScope(r, s) /\ p.snapshot < r.state.snapshot /\ p.version <= r.state.version

Contradicts(r, s, p) ==
  /\ SameScope(r, s)
  /\ \/ s.representation # r.representation
     \/ /\ r.state # NoPublication
        /\ \/ p.snapshot = r.state.snapshot /\ p # r.state
           \/ p.snapshot < r.state.snapshot /\ p.version > r.state.version
           \/ p.snapshot > r.state.snapshot /\ p.version < r.state.version

BytesAfter(i, p) ==
  clientBytes - PublicationBytes(replicas[i].state) + PublicationBytes(p)

Judge(i, s, p) ==
  LET r == replicas[i] IN
  IF Stale(s)                                 THEN "Stale"
  ELSE IF ~CapacityFor(i)                     THEN "Full"
  ELSE IF Fenced(r, s)                        THEN "Obsolete"
  ELSE IF Contradicts(r, s, p)                THEN "Conflict"
  ELSE IF Superseded(r, s, p)                 THEN "Obsolete"
  ELSE IF BytesAfter(i, p) > RetainedBytes    THEN "Full"
  ELSE "Apply"

ApplyFull(i, s, p) ==
  /\ Judge(i, s, p) = "Apply"
  /\ replicas' = [replicas EXCEPT ![i] =
       [generation |-> s.generation, scope |-> s.scope,
        representation |-> s.representation, closed |-> FALSE,
        destroyed |-> FALSE, state |-> p]]
  /\ clientBytes' = BytesAfter(i, p)
  /\ UNCHANGED clientEpoch

-----------------------------------------------------------------------------
(***************************************************************************)
(* apply_exit and apply_destroy.  Both answer a fence that is already      *)
(* superseded without a change, so that the server can stop repeating it.  *)
(***************************************************************************)
Close(i, r) ==
  /\ replicas' = [replicas EXCEPT ![i] = r]
  /\ clientBytes' = clientBytes - PublicationBytes(replicas[i].state)
  /\ UNCHANGED clientEpoch

\* What apply_exit answers: "Stale", "Full", "Conflict", "Past" or "Close".
JudgeExit(i, s) ==
  LET r == replicas[i] IN
  IF Stale(s) THEN "Stale"
  ELSE IF ~CapacityFor(i) THEN "Full"
  ELSE IF \/ s.generation < r.generation
          \/ s.generation = r.generation /\ s.scope < r.scope THEN "Past"
  ELSE IF SameScope(r, s) /\ s.representation # r.representation THEN "Conflict"
  ELSE IF r.destroyed /\ s.generation = r.generation THEN "Past"
  ELSE "Close"

ApplyExit(i, s) ==
  \/ JudgeExit(i, s) = "Past" /\ UNCHANGED clientVars
  \/ /\ JudgeExit(i, s) = "Close"
     /\ Close(i, [generation |-> s.generation, scope |-> s.scope,
                  representation |-> s.representation, closed |-> TRUE,
                  destroyed |-> FALSE, state |-> NoPublication])

\* A destroyed generation keeps no scope of its own: the record holds scope and
\* representation 1.
ApplyDestroy(i, e, g) ==
  /\ e = clientEpoch /\ CapacityFor(i)
  /\ IF replicas[i].generation > g THEN UNCHANGED clientVars
     ELSE Close(i, [generation |-> g, scope |-> 1, representation |-> 1,
                    closed |-> TRUE, destroyed |-> TRUE,
                    state |-> NoPublication])

ClientReset(e) ==
  /\ e > clientEpoch
  /\ clientEpoch' = e
  /\ replicas' = [i \in Indexes |-> NoReplica]
  /\ clientBytes' = 0

=============================================================================
