------------------------- MODULE ScopeServerProofs -------------------------
(***************************************************************************)
(* The inductive invariant of the scoped replication of one peer, for      *)
(* every number of entities, generations, publications and connection      *)
(* epochs and every limit, and that the steps of the server keep it.  The  *)
(* steps of the client and the theorems are in ScopeReplicationProofs.     *)
(*                                                                         *)
(* The invariant relates every message under way (a state that may be      *)
(* lost, repeated and reordered, a fence or an acknowledgement on its lane)*)
(* and every replica to the server's record of the same index:             *)
(*   - identities are used once: what carries the scope number of a record *)
(*     carries its generation and representation, and nothing carries a    *)
(*     higher one (Issued);                                                *)
(*   - publications of one scope are ordered alike by snapshot and by      *)
(*     version (Consistent, NoNewer);                                      *)
(*   - a fence that was sent is on its lane until the client is past it,   *)
(*     and an acknowledgement proves that the client is (Done, Past);      *)
(*   - the indexes used within a connection epoch are no more than the     *)
(*     server may know (Used), so that the client has room for each fence. *)
(***************************************************************************)
EXTENDS ScopeReplication, FiniteSetTheorems, TLAPS

Numbered == [snapshot : Nat, version : Nat]
Identity == [epoch : Nat, index : Indexes, generation : Nat, scope : Nat,
             representation : Nat]
StateMessage == [scope : Identity, state : Numbered]
FenceMessage == [kind : {"exit", "destroy"}, scope : Identity]
ResetMessage == [kind : {"reset"}, scope : [epoch : Nat]]
ServerRecord ==
  [generation : Nat, scope : Nat, representation : Nat, desired : Numbered,
   sent : SUBSET Numbered, decoded : Numbered, dormant : BOOLEAN,
   phase : Phases, exitSent : BOOLEAN, destroyed : BOOLEAN]
ClientRecord ==
  [generation : Nat, scope : Nat, representation : Nat, closed : BOOLEAN,
   destroyed : BOOLEAN, state : Numbered]

ServerTypes ==
  /\ epoch \in Nat /\ policy \in Nat \ {0} /\ nextSnapshot \in Nat \ {0}
  /\ resetRequired \in BOOLEAN
  /\ records \in [Indexes -> ServerRecord]
  /\ world \in [Indexes -> [generation : Nat \ {0}, version : Nat, alive : BOOLEAN]]

ClientTypes ==
  /\ clientEpoch \in Nat /\ clientEpoch <= epoch
  /\ replicas \in [Indexes -> ClientRecord]

NetTypes ==
  /\ states \subseteq StateMessage
  /\ receipts \subseteq StateMessage
  /\ down \in Seq(FenceMessage \cup ResetMessage)
  /\ up \in Seq(FenceMessage)

-----------------------------------------------------------------------------
\* Parts of the invariant.  Records and replicas are parameters, so that what
\* a step leaves alone needs no argument.

Open(r) == r.phase \in {"Entering", "Active", "DormantKnown"}
Unsent(r) == r.phase = "Leaving" /\ ~r.exitSent

\* An identity (of a message or of a replica) that the record has reached.
Issued(s, r) ==
  /\ s.generation <= r.generation
  /\ s.scope <= r.scope
  /\ s.scope = r.scope => /\ s.generation = r.generation
                          /\ s.representation = r.representation

NoNewer(p, q) ==
  /\ p.snapshot <= q.snapshot /\ p.version <= q.version
  /\ p.snapshot = q.snapshot => p = q

Consistent(p, q) ==
  /\ p.snapshot = q.snapshot => p = q
  /\ p.snapshot < q.snapshot => p.version <= q.version
  /\ p.snapshot > q.snapshot => p.version >= q.version

Twins(a, b) == a.epoch = b.epoch /\ a.index = b.index /\ a.scope = b.scope
Alike(a, b) == a.generation = b.generation /\ a.representation = b.representation

RecordOk(r, next) ==
  /\ r.generation = 0 => r.phase = "Forgotten"
  /\ r.generation # 0 => r.scope # 0
  /\ Open(r) => /\ ~r.destroyed
                /\ r.desired.snapshot # 0 /\ r.desired.snapshot < next
  /\ r.phase = "DormantKnown" => r.decoded = r.desired

StateOk(m, e, r) ==
  /\ m.scope.epoch <= e
  /\ m.scope.generation # 0 /\ m.scope.scope # 0 /\ m.state.snapshot # 0
  /\ m.scope.epoch = e =>
       /\ Issued(m.scope, r)
       /\ m.scope.scope = r.scope /\ Open(r) => NoNewer(m.state, r.desired)

FenceOk(f, e, r) ==
  /\ f.scope.generation # 0 /\ f.scope.scope # 0
  /\ f.scope.epoch = e =>
       /\ Issued(f.scope, r)
       /\ f.kind = "exit" /\ f.scope.scope = r.scope => ~Open(r)
       /\ f.kind = "destroy" /\ f.scope.generation = r.generation =>
            r.destroyed /\ ~Unsent(r)

ReplicaOk(c) ==
  /\ c.closed => c.state = NoPublication
  /\ ~c.closed => c.generation # 0 /\ ~c.destroyed /\ c.state.snapshot # 0
  /\ c.generation # 0 => c.scope # 0
  /\ c.destroyed => c.generation # 0

\* The replica of an index is not ahead of the server's record of it.
NotAhead(c, r) ==
  c.generation # 0 =>
    /\ c.generation <= r.generation
    /\ c.destroyed /\ c.generation = r.generation => r.destroyed /\ ~Unsent(r)
    /\ ~c.destroyed =>
         /\ Issued(c, r)
         /\ c.scope = r.scope /\ Open(r) => ~c.closed /\ NoNewer(c.state, r.desired)

\* A replica and a state, or a replica and a fence that is yet to come.
StateFits(m, c) ==
  c.generation # 0 /\ ~c.destroyed /\ m.scope.scope = c.scope =>
    Alike(m.scope, c) /\ (~c.closed => Consistent(m.state, c.state))
FenceFits(f, c) ==
  IF c.destroyed THEN f.scope.generation > c.generation
  ELSE f.kind = "exit" /\ c.generation # 0 /\ f.scope.scope = c.scope => Alike(f.scope, c)

\* The client is past an acknowledged fence, past the fence of a record, and at
\* or past a state that it confirmed.
Past(c, f) ==
  \/ c.generation > f.scope.generation
  \/ /\ c.generation = f.scope.generation
     /\ \/ c.destroyed
        \/ f.kind = "exit" /\ c.scope > f.scope.scope
        \/ f.kind = "exit" /\ c.scope = f.scope.scope /\ c.closed
Done(c, r) ==
  c.closed /\ c.generation = r.generation /\ (c.destroyed \/ c.scope = r.scope)
Reached(c, m) ==
  \/ c.generation > m.scope.generation
  \/ /\ c.generation = m.scope.generation
     /\ \/ c.destroyed \/ c.scope > m.scope.scope
        \/ c.scope = m.scope.scope /\ (c.closed \/ c.state.snapshot >= m.state.snapshot)
Showing(c, r) ==
  /\ c.generation = r.generation /\ ~c.destroyed /\ c.scope = r.scope
  /\ c.state.snapshot >= r.decoded.snapshot

OwnFence(i) == [kind |-> IF records[i].destroyed THEN "destroy" ELSE "exit",
                scope |-> ScopeOf(i)]
IsFence(k) == down[k].kind # "reset"

\* The indexes that connection epoch e has used.
Used(e) ==
  {i \in Indexes :
     \/ \E m \in states : m.scope.epoch = e /\ m.scope.index = i
     \/ \E k \in DOMAIN down :
          IsFence(k) /\ down[k].scope.epoch = e /\ down[k].scope.index = i
     \/ e = clientEpoch /\ Have(i)
     \/ e = epoch /\ Known(i)}

-----------------------------------------------------------------------------

RecordsOk == \A i \in Indexes : RecordOk(records[i], nextSnapshot)
StatesOk == \A m \in states : StateOk(m, epoch, records[m.scope.index])
StatesAgree ==
  \A m, n \in states : Twins(m.scope, n.scope) =>
    Alike(m.scope, n.scope) /\ Consistent(m.state, n.state)

LaneOk ==
  \A k \in DOMAIN down :
    /\ down[k].scope.epoch <= epoch
    /\ IsFence(k) => FenceOk(down[k], epoch, records[down[k].scope.index])
LaneAgrees ==
  /\ \A k \in DOMAIN down, m \in states :
       down[k].kind = "exit" /\ Twins(down[k].scope, m.scope) =>
         Alike(down[k].scope, m.scope)
  /\ \A j, k \in DOMAIN down :
       /\ down[j].kind = "exit" /\ down[k].kind = "exit"
       /\ Twins(down[j].scope, down[k].scope)
       => Alike(down[j].scope, down[k].scope)
LaneOrder ==
  \A j, k \in DOMAIN down :
    /\ j < k /\ down[j].kind = "destroy" /\ IsFence(k)
    /\ down[j].scope.epoch = down[k].scope.epoch
    /\ down[j].scope.index = down[k].scope.index
    => down[k].scope.generation > down[j].scope.generation
LaneResets ==
  /\ \A k \in DOMAIN down : IsFence(k) /\ down[k].scope.epoch > clientEpoch =>
       \E j \in DOMAIN down : /\ j < k /\ ~IsFence(j)
                              /\ down[j].scope.epoch = down[k].scope.epoch
  /\ clientEpoch < epoch =>
       \E k \in DOMAIN down : ~IsFence(k) /\ down[k].scope.epoch = epoch

ReplicasOk == \A i \in Indexes : ReplicaOk(replicas[i])
ReplicasNotAhead ==
  epoch = clientEpoch => \A i \in Indexes : NotAhead(replicas[i], records[i])
StatesFit ==
  \A m \in states : m.scope.epoch = clientEpoch =>
    StateFits(m, replicas[m.scope.index])
FencesFit ==
  \A k \in DOMAIN down : IsFence(k) /\ down[k].scope.epoch = clientEpoch =>
    FenceFits(down[k], replicas[down[k].scope.index])

AcksPast ==
  \A k \in DOMAIN up :
    /\ up[k].scope.epoch <= clientEpoch
    /\ up[k].scope.epoch = clientEpoch => Past(replicas[up[k].scope.index], up[k])
ReceiptsReached ==
  \A m \in receipts :
    /\ m.scope.epoch <= clientEpoch
    /\ m.scope.epoch = clientEpoch => Reached(replicas[m.scope.index], m)

SentOk(i) ==
  records[i].phase = "Leaving" /\ records[i].exitSent =>
    \/ \E k \in DOMAIN down : down[k] = OwnFence(i)
    \/ epoch = clientEpoch /\ Done(replicas[i], records[i])
ForgottenOk(i) ==
  Known(i) /\ records[i].phase = "Forgotten" =>
    \/ epoch = clientEpoch /\ Done(replicas[i], records[i])
    \/ policy > 1 /\ records[i].destroyed
EndedOk == ~resetRequired => \A i \in Indexes : SentOk(i) /\ ForgottenOk(i)
DecodedOk ==
  \A i \in Indexes : Open(records[i]) /\ records[i].decoded # NoPublication =>
    epoch = clientEpoch /\ Showing(replicas[i], records[i])

UsedOk == \A e \in Nat : Cardinality(Used(e)) <= KnownEntities

Types == ServerTypes /\ ClientTypes /\ NetTypes
ServerInv == RecordsOk /\ StatesOk /\ StatesAgree
LaneInv == LaneOk /\ LaneAgrees /\ LaneOrder /\ LaneResets
ClientInv == ReplicasOk /\ ReplicasNotAhead /\ StatesFit /\ FencesFit
AnswersInv == AcksPast /\ ReceiptsReached
ScopesInv ==
  /\ Types /\ ServerInv /\ LaneInv /\ ClientInv /\ AnswersInv
  /\ EndedOk /\ DecodedOk /\ UsedOk

-----------------------------------------------------------------------------
(* How a record of the server and a replica of the client may change.       *)

\* A record keeps its identity, or opens the next scope of its index.
Kept(r, s) ==
  /\ s.generation = r.generation /\ s.scope = r.scope
  /\ s.representation = r.representation
  /\ r.destroyed => s.destroyed /\ (Unsent(s) => Unsent(r))
  /\ Open(s) => Open(r) /\ NoNewer(r.desired, s.desired)
Renewed(r, s) ==
  /\ s.scope = r.scope + 1 /\ ~s.destroyed
  /\ s.generation >= r.generation
  /\ s.generation = r.generation => ~r.destroyed
Moves(r, s) == Kept(r, s) \/ Renewed(r, s)

\* A publication is no newer than itself and agrees with itself.
LEMMA SamePublication ==
  ASSUME NEW p \in Numbered
  PROVE  NoNewer(p, p) /\ Consistent(p, p)
BY DEF NoNewer, Consistent, Numbered

\* A publication agrees with a newer one.
LEMMA OlderAgrees ==
  ASSUME NEW p \in Numbered, NEW q \in Numbered, NoNewer(p, q)
  PROVE  Consistent(p, q) /\ Consistent(q, p)
BY DEF NoNewer, Consistent, Numbered

\* A state that was in order stays so when its record moves.
LEMMA StateMoves ==
  ASSUME NEW m \in StateMessage, NEW e \in Nat, NEW r \in ServerRecord,
         NEW s \in ServerRecord, Moves(r, s), StateOk(m, e, r)
  PROVE  StateOk(m, e, s)
BY DEF StateOk, Moves, Kept, Renewed, Issued, NoNewer, StateMessage, Identity, Numbered,
       ServerRecord

\* A fence that was in order stays so when its record moves.
LEMMA FenceMoves ==
  ASSUME NEW f \in FenceMessage, NEW e \in Nat, NEW r \in ServerRecord,
         NEW s \in ServerRecord, Moves(r, s), FenceOk(f, e, r)
  PROVE  FenceOk(f, e, s)
BY DEF FenceOk, Moves, Kept, Renewed, Issued, FenceMessage, Identity, Numbered,
       ServerRecord

\* A replica that was not ahead of its record is not ahead of where it moves.
LEMMA ReplicaMoves ==
  ASSUME NEW c \in ClientRecord, NEW r \in ServerRecord, NEW s \in ServerRecord,
         Moves(r, s), NotAhead(c, r)
  PROVE  NotAhead(c, s)
BY DEF NotAhead, Moves, Kept, Renewed, Issued, NoNewer, ClientRecord, Numbered,
       ServerRecord

\* The replica that apply_full publishes advances the one it replaces.
Published(m) ==
  [generation |-> m.scope.generation, scope |-> m.scope.scope,
   representation |-> m.scope.representation, closed |-> FALSE,
   destroyed |-> FALSE, state |-> m.state]

LEMMA PublishAdvances ==
  ASSUME NEW c \in ClientRecord, ReplicaOk(c), NEW m \in StateMessage,
         ~Fenced(c, m.scope), ~Contradicts(c, m.scope, m.state),
         ~Superseded(c, m.scope, m.state)
  PROVE  Advances(c, Published(m))
BY DEF Advances, Published, Fenced, Contradicts, Superseded, SameScope, ReplicaOk,
       ClientRecord, StateMessage, Identity, Numbered, NoPublication

\* The replicas that apply_exit and apply_destroy leave.
Closed(s) ==
  [generation |-> s.generation, scope |-> s.scope,
   representation |-> s.representation, closed |-> TRUE,
   destroyed |-> FALSE, state |-> NoPublication]
Destroyed(g) ==
  [generation |-> g, scope |-> 1, representation |-> 1, closed |-> TRUE,
   destroyed |-> TRUE, state |-> NoPublication]

LEMMA ExitAdvances ==
  ASSUME NEW c \in ClientRecord, NEW s \in Identity, s.generation >= c.generation,
         s.generation = c.generation => s.scope >= c.scope /\ ~c.destroyed
  PROVE  Advances(c, Closed(s))
BY DEF Advances, Closed, ClientRecord, Identity

LEMMA DestroyAdvances ==
  ASSUME NEW c \in ClientRecord, NEW g \in Nat, g >= c.generation
  PROVE  Advances(c, Destroyed(g))
BY DEF Advances, Destroyed, ClientRecord

\* What the client is past, it stays past; what it has reached, it has reached.
LEMMA StaysPast ==
  ASSUME NEW c \in ClientRecord, NEW d \in ClientRecord, Advances(c, d),
         NEW f \in FenceMessage, Past(c, f)
  PROVE  Past(d, f)
BY DEF Advances, Past, ClientRecord, FenceMessage, Identity

LEMMA StaysReached ==
  ASSUME NEW c \in ClientRecord, NEW d \in ClientRecord, Advances(c, d),
         NEW m \in StateMessage, Reached(c, m)
  PROVE  Reached(d, m)
BY DEF Advances, Reached, ClientRecord, StateMessage, Identity, Numbered

LEMMA StaysDone ==
  ASSUME NEW c \in ClientRecord, NEW d \in ClientRecord, Advances(c, d),
         NEW r \in ServerRecord, r.generation # 0, ReplicaOk(d), NotAhead(d, r),
         Done(c, r)
  PROVE  Done(d, r)
BY DEF Advances, Done, NotAhead, Issued, ReplicaOk, ClientRecord, ServerRecord

LEMMA StaysShowing ==
  ASSUME NEW c \in ClientRecord, NEW d \in ClientRecord, Advances(c, d),
         NEW r \in ServerRecord, r.generation # 0, Open(r), ~r.destroyed,
         NotAhead(d, r), Showing(c, r)
  PROVE  Showing(d, r)
BY DEF Advances, Showing, NotAhead, Issued, ClientRecord, ServerRecord, Numbered

\* A replica advances to itself.
LEMMA AdvancesSame ==
  ASSUME NEW c \in ClientRecord
  PROVE  Advances(c, c)
BY DEF Advances, ClientRecord, Numbered

-----------------------------------------------------------------------------
(* Sequences, finite sets and the types of elements.                        *)

LEMMA LaneAppend ==
  ASSUME NEW S, NEW q \in Seq(S), NEW e \in S
  PROVE  /\ Append(q, e) \in Seq(S)
         /\ DOMAIN Append(q, e) = DOMAIN q \cup {Len(q) + 1}
         /\ \A k \in DOMAIN q : Append(q, e)[k] = q[k] /\ k \in Nat /\ k < Len(q) + 1
         /\ Append(q, e)[Len(q) + 1] = e
         /\ Len(q) + 1 \in Nat
OBVIOUS

LEMMA LaneTail ==
  ASSUME NEW S, NEW q \in Seq(S), q # <<>>
  PROVE  /\ Tail(q) \in Seq(S) /\ Head(q) = q[1] /\ 1 \in DOMAIN q
         /\ DOMAIN q \subseteq Nat \ {0} /\ DOMAIN Tail(q) \subseteq Nat \ {0}
         /\ \A k \in DOMAIN Tail(q) : k + 1 \in DOMAIN q /\ Tail(q)[k] = q[k + 1]
         /\ \A k \in DOMAIN q : k # 1 => /\ k - 1 \in DOMAIN Tail(q)
                                         /\ Tail(q)[k - 1] = q[k]
OBVIOUS

\* The conjuncts of the invariant.
LEMMA Parts ==
  ASSUME ScopesInv
  PROVE  /\ Types /\ RecordsOk /\ StatesOk /\ StatesAgree
         /\ LaneOk /\ LaneAgrees /\ LaneOrder /\ LaneResets
         /\ ReplicasOk /\ ReplicasNotAhead /\ StatesFit /\ FencesFit
         /\ AcksPast /\ ReceiptsReached /\ EndedOk /\ DecodedOk /\ UsedOk
BY Zenon DEF ScopesInv, ServerInv, LaneInv, ClientInv, AnswersInv

LEMMA RecordTypes ==
  ASSUME ScopesInv, NEW i \in Indexes
  PROVE  /\ records[i] \in ServerRecord /\ replicas[i] \in ClientRecord
         /\ ScopeOf(i) \in Identity /\ OwnFence(i) \in FenceMessage
<1>1. records[i] \in ServerRecord /\ replicas[i] \in ClientRecord /\ epoch \in Nat
  BY Zenon, Parts DEF Types, ServerTypes, ClientTypes
<1>2. ScopeOf(i) \in Identity
  BY Zenon, <1>1 DEF ScopeOf, Identity, ServerRecord
<1>3. OwnFence(i) \in FenceMessage
  BY Zenon, <1>2 DEF OwnFence, FenceMessage
<1> QED BY Zenon, <1>1, <1>2, <1>3

LEMMA MessageTypes ==
  ASSUME ScopesInv, NEW m \in states \cup receipts
  PROVE  /\ m \in StateMessage /\ m.scope \in Identity /\ m.state \in Numbered
         /\ m.scope.index \in Indexes /\ m.scope.epoch \in Nat
<1>1. m \in StateMessage
  BY Zenon, Parts DEF Types, NetTypes
<1>2. m.scope \in Identity /\ m.state \in Numbered
  BY Zenon, <1>1 DEF StateMessage
<1> QED BY Zenon, <1>1, <1>2 DEF Identity

LEMMA LaneTypes ==
  ASSUME ScopesInv, NEW k \in DOMAIN down
  PROVE  /\ k \in Nat \ {0} /\ down[k].scope.epoch \in Nat
         /\ IsFence(k) => /\ down[k] \in FenceMessage /\ down[k].scope \in Identity
                          /\ down[k].scope.index \in Indexes
<1>1. k \in Nat \ {0} /\ down[k] \in FenceMessage \cup ResetMessage
  BY Parts DEF Types, NetTypes
<1>2. CASE IsFence(k)
  <2>1. down[k] \in FenceMessage
    BY Zenon, <1>1, <1>2 DEF IsFence, ResetMessage
  <2>2. down[k].scope \in Identity
    BY Zenon, <2>1 DEF FenceMessage
  <2> QED BY Zenon, <1>1, <2>1, <2>2 DEF Identity
<1>3. CASE ~IsFence(k)
  BY Zenon, <1>1, <1>3 DEF IsFence, FenceMessage, ResetMessage
<1> QED BY Zenon, <1>2, <1>3

LEMMA AnswerTypes ==
  ASSUME ScopesInv, NEW k \in DOMAIN up
  PROVE  /\ up[k] \in FenceMessage /\ up[k].scope \in Identity
         /\ up[k].scope.index \in Indexes /\ up[k].scope.epoch \in Nat
<1>1. up[k] \in FenceMessage
  BY Parts DEF Types, NetTypes
<1>2. up[k].scope \in Identity
  BY Zenon, <1>1 DEF FenceMessage
<1> QED BY Zenon, <1>1, <1>2 DEF Identity

\* Fewer used indexes need no more room.
LEMMA UsedLess ==
  ASSUME UsedOk, \A e \in Nat : Used(e)' \subseteq Used(e)
  PROVE  UsedOk'
<1> SUFFICES ASSUME NEW e \in Nat PROVE Cardinality(Used(e)') <= KnownEntities
  BY Zenon DEF UsedOk
<1>1. IsFiniteSet(Indexes) /\ KnownEntities \in Nat
  BY Zenon, ScopeLimitsAssumption
<1>2. Used(e) \in SUBSET Indexes
  BY Zenon DEF Used
<1>3. IsFiniteSet(Used(e))
  BY Zenon, <1>1, <1>2, FS_Subset
<1>4. Used(e)' \in SUBSET Used(e)
  BY Zenon
<1>5. Cardinality(Used(e)') <= Cardinality(Used(e)) /\ IsFiniteSet(Used(e)')
  BY Zenon, <1>3, <1>4, FS_Subset
<1>6. Cardinality(Used(e)) \in Nat /\ Cardinality(Used(e)') \in Nat
  BY Zenon, <1>3, <1>5, FS_CardinalityType
<1>7. Cardinality(Used(e)) <= KnownEntities
  BY Zenon DEF UsedOk
<1> QED
  BY <1>1, <1>5, <1>6, <1>7

\* What was not ahead of the records, or in order with them, is so when every
\* record moves.
LEMMA RecordsMove ==
  ASSUME ScopesInv, records' \in [Indexes -> ServerRecord],
         \A i \in Indexes : Moves(records[i], records'[i])
  PROVE  /\ \A m \in states : StateOk(m, epoch, records'[m.scope.index])
         /\ \A k \in DOMAIN down : IsFence(k) =>
              FenceOk(down[k], epoch, records'[down[k].scope.index])
         /\ epoch = clientEpoch =>
              \A i \in Indexes : NotAhead(replicas[i], records'[i])
<1>1. Types /\ StatesOk /\ LaneOk /\ ReplicasNotAhead
  BY Zenon, Parts
<1>2. epoch \in Nat /\ \A i \in Indexes : records'[i] \in ServerRecord
  BY Zenon, <1>1 DEF Types, ServerTypes
<1>3. ASSUME NEW m \in states PROVE StateOk(m, epoch, records'[m.scope.index])
  <2>1. m \in StateMessage /\ m.scope.index \in Indexes
    BY Zenon, <1>1, MessageTypes
  <2>2. StateOk(m, epoch, records[m.scope.index])
    BY Zenon, <1>1 DEF StatesOk
  <2> QED BY Zenon, <2>1, <2>2, <1>1, <1>2, RecordTypes, StateMoves
<1>4. ASSUME NEW k \in DOMAIN down, IsFence(k)
      PROVE  FenceOk(down[k], epoch, records'[down[k].scope.index])
  <2>1. down[k] \in FenceMessage /\ down[k].scope.index \in Indexes
    BY Zenon, <1>1, <1>4, LaneTypes
  <2>2. FenceOk(down[k], epoch, records[down[k].scope.index])
    BY Zenon, <1>1, <1>4 DEF LaneOk
  <2> QED BY <2>1, <2>2, <1>1, <1>2, RecordTypes, FenceMoves
<1>5. ASSUME epoch = clientEpoch, NEW i \in Indexes
      PROVE  NotAhead(replicas[i], records'[i])
  BY SMTT(30), <1>1, <1>2, <1>5, RecordTypes, ReplicaMoves DEF ReplicasNotAhead
<1> QED BY Zenon, <1>3, <1>4, <1>5

-----------------------------------------------------------------------------
(* Steps of the server.                                                     *)

\* A step that only moves records keeps all but what is about the phases of the
\* records themselves.
LEMMA ServerOnly ==
  ASSUME ScopesInv, records' \in [Indexes -> ServerRecord],
         \A i \in Indexes : Moves(records[i], records'[i]),
         epoch' = epoch, clientEpoch' = clientEpoch, replicas' = replicas,
         states' = states, receipts' = receipts, down' = down
  PROVE  /\ StatesOk' /\ StatesAgree' /\ LaneInv' /\ ClientInv' /\ ReceiptsReached'
         /\ up' = up => AcksPast'
<1>1. /\ \A m \in states : StateOk(m, epoch, records'[m.scope.index])
      /\ \A k \in DOMAIN down : IsFence(k) =>
           FenceOk(down[k], epoch, records'[down[k].scope.index])
      /\ epoch = clientEpoch =>
           \A i \in Indexes : NotAhead(replicas[i], records'[i])
  BY Zenon, RecordsMove
<1>2. StatesOk'
  BY Zenon, <1>1 DEF StatesOk
<1>3. StatesAgree'
  BY Zenon, Parts DEF StatesAgree
<1>4. LaneOk'
  BY Zenon, <1>1, Parts DEF LaneOk, IsFence
<1>5. LaneAgrees' /\ LaneOrder' /\ LaneResets'
  <2>1. LaneAgrees'
    BY Zenon, Parts DEF LaneAgrees
  <2>2. LaneOrder'
    BY Zenon, Parts DEF LaneOrder, IsFence
  <2>3. LaneResets'
    BY Zenon, Parts DEF LaneResets, IsFence
  <2> QED BY Zenon, <2>1, <2>2, <2>3
<1>6. ReplicasOk' /\ ReplicasNotAhead'
  BY Zenon, <1>1, Parts DEF ReplicasOk, ReplicasNotAhead
<1>7. StatesFit' /\ FencesFit'
  BY Zenon, Parts DEF StatesFit, FencesFit, IsFence
<1>8. ReceiptsReached' /\ (up' = up => AcksPast')
  BY Zenon, Parts DEF ReceiptsReached, AcksPast
<1> QED
  BY SMTT(30), <1>2, <1>3, <1>4, <1>5, <1>6, <1>7, <1>8 DEF LaneInv, ClientInv

\* Unless a record becomes known, no more indexes are used.
LEMMA NoneUsed ==
  ASSUME ScopesInv, \A i \in Indexes : Known(i)' => Known(i),
         epoch' = epoch, clientEpoch' = clientEpoch, replicas' = replicas,
         states' = states, down' = down
  PROVE  UsedOk'
<1>1. \A e \in Nat : Used(e)' \subseteq Used(e)
  BY Zenon DEF Used, Have, IsFence
<1> QED BY Zenon, <1>1, UsedLess, Parts

\* The ends that were in order stay so for records that keep phase, sent mark
\* and identity.
SameEnd(r, s) ==
  /\ s.generation = r.generation /\ s.scope = r.scope
  /\ s.representation = r.representation /\ s.destroyed = r.destroyed
  /\ s.phase = "Leaving" /\ s.exitSent => r.phase = "Leaving" /\ r.exitSent
  /\ s.generation # 0 /\ s.phase = "Forgotten" => r.phase = "Forgotten"
LEMMA EndKept ==
  ASSUME ScopesInv, NEW i \in Indexes, SameEnd(records[i], records'[i]),
         ~resetRequired, epoch' = epoch, clientEpoch' = clientEpoch,
         replicas' = replicas, down' = down, policy' = policy \/ policy' > 1
  PROVE  SentOk(i)' /\ ForgottenOk(i)'
<1>1. SentOk(i) /\ ForgottenOk(i)
  BY Zenon, Parts DEF EndedOk
<1>2. OwnFence(i)' = OwnFence(i)
  BY Zenon DEF SameEnd, OwnFence, ScopeOf
<1>3. Done(replicas[i], records[i]) => Done(replicas[i], records'[i])
  BY Zenon DEF Done, SameEnd
<1>4. SentOk(i)'
  BY Zenon, <1>1, <1>2, <1>3 DEF SentOk, SameEnd
<1>5. ForgottenOk(i)'
  BY Zenon, <1>1, <1>3 DEF ForgottenOk, SameEnd, Known
<1> QED BY Zenon, <1>4, <1>5

\* The invariant after a step of the server that sends nothing.
LEMMA ServerStep ==
  ASSUME ScopesInv, records' \in [Indexes -> ServerRecord],
         \A i \in Indexes : /\ Moves(records[i], records'[i])
                            /\ RecordOk(records'[i], nextSnapshot'),
         epoch' = epoch, policy' \in Nat \ {0}, nextSnapshot' \in Nat \ {0},
         resetRequired' \in BOOLEAN, world' = world,
         clientEpoch' = clientEpoch, replicas' = replicas,
         states' = states, receipts' = receipts, down' = down,
         up' = up \/ (up' \in Seq(FenceMessage) /\ AcksPast'),
         EndedOk', DecodedOk', UsedOk'
  PROVE  ScopesInv'
<1>1. /\ StatesOk' /\ StatesAgree' /\ LaneInv' /\ ClientInv' /\ ReceiptsReached'
      /\ AcksPast'
  BY Zenon, ServerOnly
<1>2. Types'
  BY Zenon, Parts DEF Types, ServerTypes, ClientTypes, NetTypes
<1>3. RecordsOk'
  BY Zenon DEF RecordsOk
<1> QED BY Zenon, <1>1, <1>2, <1>3 DEF ScopesInv, ServerInv, AnswersInv

LEMMA KeptSame ==
  ASSUME NEW r \in ServerRecord
  PROVE  Moves(r, r) /\ SameEnd(r, r)
BY DEF Moves, Kept, NoNewer, SameEnd, ServerRecord, Numbered

LEMMA RecordLater ==
  ASSUME NEW r \in ServerRecord, NEW n \in Nat, NEW p \in Nat, n <= p, RecordOk(r, n)
  PROVE  RecordOk(r, p)
BY DEF RecordOk, ServerRecord, Numbered

\* The same when one record changes.
LEMMA RecordStep ==
  ASSUME ScopesInv, NEW i \in Indexes, NEW s \in ServerRecord,
         records' = [records EXCEPT ![i] = s],
         Moves(records[i], s), RecordOk(s, nextSnapshot'),
         epoch' = epoch, policy' = policy, resetRequired' = resetRequired,
         nextSnapshot' \in Nat \ {0}, nextSnapshot' >= nextSnapshot, world' = world,
         clientEpoch' = clientEpoch, replicas' = replicas,
         states' = states, receipts' = receipts, down' = down,
         up' = up \/ (up' \in Seq(FenceMessage) /\ AcksPast'),
         ~resetRequired => SentOk(i)' /\ ForgottenOk(i)',
         Open(s) /\ s.decoded # NoPublication =>
           epoch = clientEpoch /\ Showing(replicas[i], s),
         UsedOk'
  PROVE  ScopesInv'
<1>1. Types /\ RecordsOk /\ DecodedOk
  BY Zenon, Parts
<1>2. records \in [Indexes -> ServerRecord] /\ nextSnapshot \in Nat /\ policy \in Nat \ {0}
      /\ resetRequired \in BOOLEAN
  BY Zenon, <1>1 DEF Types, ServerTypes
<1>3. /\ records' \in [Indexes -> ServerRecord] /\ records'[i] = s
      /\ \A j \in Indexes : j # i => records'[j] = records[j]
  BY Zenon, <1>2
<1>4. ASSUME NEW j \in Indexes
      PROVE  Moves(records[j], records'[j]) /\ RecordOk(records'[j], nextSnapshot')
  <2>1. CASE j = i
    BY Zenon, <1>3, <2>1
  <2>2. CASE j # i
    <3>1. records'[j] = records[j] /\ records[j] \in ServerRecord
      BY Zenon, <1>2, <1>3, <2>2
    <3>2. Moves(records[j], records[j])
      BY Zenon, <3>1, KeptSame
    <3>3. RecordOk(records[j], nextSnapshot)
      BY Zenon, <1>1 DEF RecordsOk
    <3>4. RecordOk(records[j], nextSnapshot')
      BY <1>2, <3>1, <3>3, RecordLater
    <3> QED BY Zenon, <3>1, <3>2, <3>4
  <2> QED BY Zenon, <2>1, <2>2
<1>5. EndedOk'
  <2> SUFFICES ASSUME ~resetRequired, NEW j \in Indexes
               PROVE  SentOk(j)' /\ ForgottenOk(j)'
    BY Zenon DEF EndedOk
  <2>1. CASE j = i
    BY Zenon, <2>1
  <2>2. CASE j # i
    <3>1. SameEnd(records[j], records'[j])
      BY Zenon, <1>2, <1>3, <2>2, KeptSame
    <3> QED BY Zenon, <3>1, EndKept
  <2> QED BY Zenon, <2>1, <2>2
<1>6. DecodedOk'
  BY Zenon, <1>1, <1>3 DEF DecodedOk
<1> QED BY SMTT(30), <1>2, <1>3, <1>4, <1>5, <1>6, ServerStep

\* Within the current connection epoch only known indexes are used.
LEMMA UsedKnown ==
  ASSUME ScopesInv
  PROVE  Used(epoch) \subseteq {j \in Indexes : Known(j)}
<1> SUFFICES ASSUME NEW j \in Used(epoch) PROVE Known(j)
  BY Zenon DEF Used
<1>0. Types /\ j \in Indexes /\ records[j] \in ServerRecord /\ replicas[j] \in ClientRecord
  BY Zenon, RecordTypes, Parts DEF Used
<1>1. ASSUME NEW m \in states, m.scope.epoch = epoch, m.scope.index = j PROVE Known(j)
  <2>1. StateOk(m, epoch, records[j]) /\ m \in StateMessage
    BY Zenon, <1>0, <1>1, MessageTypes, Parts DEF StatesOk
  <2> QED BY <1>0, <1>1, <2>1 DEF StateOk, Issued, Known, StateMessage, Identity, ServerRecord
<1>2. ASSUME NEW k \in DOMAIN down, IsFence(k), down[k].scope.epoch = epoch,
             down[k].scope.index = j
      PROVE  Known(j)
  <2>1. FenceOk(down[k], epoch, records[j]) /\ down[k] \in FenceMessage
    BY Zenon, <1>0, <1>2, LaneTypes, Parts DEF LaneOk
  <2> QED BY <1>0, <1>2, <2>1 DEF FenceOk, Issued, Known, FenceMessage, Identity, ServerRecord
<1>3. ASSUME epoch = clientEpoch, Have(j) PROVE Known(j)
  <2>1. NotAhead(replicas[j], records[j])
    BY Zenon, <1>0, <1>3, Parts DEF ReplicasNotAhead
  <2> QED BY <1>0, <1>3, <2>1 DEF NotAhead, Known, Have, ClientRecord, ServerRecord
<1> QED BY Zenon, <1>1, <1>2, <1>3 DEF Used

\* A new record is one of those the server may know.
LEMMA UsedFresh ==
  ASSUME ScopesInv, NEW i \in Indexes,
         Cardinality({j \in Indexes : Known(j)}) < KnownEntities,
         \A j \in Indexes : Known(j)' => Known(j) \/ j = i,
         epoch' = epoch, clientEpoch' = clientEpoch, replicas' = replicas,
         states' = states, down' = down
  PROVE  UsedOk'
<1> DEFINE K == {j \in Indexes : Known(j)}
<1> SUFFICES ASSUME NEW e \in Nat PROVE Cardinality(Used(e)') <= KnownEntities
  BY Zenon DEF UsedOk
<1>1. IsFiniteSet(Indexes) /\ KnownEntities \in Nat
  BY Zenon, ScopeLimitsAssumption
<1>2. IsFiniteSet(Used(e)) /\ IsFiniteSet(K)
  <2>1. Used(e) \in SUBSET Indexes /\ K \in SUBSET Indexes
    BY Zenon DEF Used
  <2> HIDE DEF K
  <2> QED BY Zenon, <1>1, <2>1, FS_Subset
<1>3. CASE e # epoch
  <2>1. Used(e)' \in SUBSET Used(e)
    BY Zenon, <1>3 DEF Used, Have, IsFence
  <2>2. Cardinality(Used(e)') <= Cardinality(Used(e)) /\ IsFiniteSet(Used(e)')
    BY Zenon, <1>2, <2>1, FS_Subset
  <2>3. Cardinality(Used(e)') \in Nat /\ Cardinality(Used(e)) \in Nat
    BY Zenon, <1>2, <2>2, FS_CardinalityType
  <2>4. Cardinality(Used(e)) <= KnownEntities
    BY Zenon, Parts DEF UsedOk
  <2> QED BY <1>1, <2>2, <2>3, <2>4
<1>4. CASE e = epoch
  <2>1. Used(e)' \subseteq Used(e) \cup {i}
    BY Zenon, <1>4 DEF Used, Have, IsFence
  <2>2. Used(e)' \in SUBSET (K \cup {i})
    BY Zenon, <1>4, <2>1, UsedKnown
  <2>3. Cardinality(K) < KnownEntities
    BY Zenon
  <2> HIDE DEF K
  <2>4. /\ IsFiniteSet(K \cup {i}) /\ Cardinality(K) \in Nat
        /\ Cardinality(K \cup {i}) <= Cardinality(K) + 1
    <3>1. Cardinality(K) \in Nat
      BY Zenon, <1>2, FS_CardinalityType
    <3>2. /\ IsFiniteSet(K \cup {i})
          /\ \/ Cardinality(K \cup {i}) = Cardinality(K)
             \/ Cardinality(K \cup {i}) = Cardinality(K) + 1
      BY Zenon, <1>2, FS_AddElement
    <3> QED BY <3>1, <3>2
  <2>5. Cardinality(Used(e)') <= Cardinality(K \cup {i}) /\ IsFiniteSet(Used(e)')
    BY Zenon, <2>2, <2>4, FS_Subset
  <2>6. Cardinality(Used(e)') \in Nat /\ Cardinality(K \cup {i}) \in Nat
    BY Zenon, <2>4, <2>5, FS_CardinalityType
  <2> QED BY SMTT(30), <1>1, <2>3, <2>4, <2>5, <2>6
<1> QED BY Zenon, <1>3, <1>4

LEMMA RefreshFacts ==
  ASSUME NEW r \in ServerRecord
  PROVE  LET s == RefreshPhase(r) IN
         /\ s \in ServerRecord /\ Open(s)
         /\ s.generation = r.generation /\ s.scope = r.scope
         /\ s.representation = r.representation /\ s.destroyed = r.destroyed
         /\ s.desired = r.desired /\ s.decoded = r.decoded
         /\ s.phase = "DormantKnown" => s.decoded = s.desired
BY Zenon DEF RefreshPhase, ServerRecord, Open, Phases

\* A record that is or becomes open has no end to account for.
LEMMA OpenHasNoEnd ==
  ASSUME NEW i \in Indexes, Open(records'[i])
  PROVE  SentOk(i)' /\ ForgottenOk(i)'
BY Zenon DEF Open, SentOk, ForgottenOk

\* A step that only refreshes an open record, perhaps with a newer publication.
LEMMA RefreshInv ==
  ASSUME ScopesInv, NEW i \in Indexes, NEW r \in ServerRecord,
         records' = [records EXCEPT ![i] = RefreshPhase(r)], Open(records[i]),
         r.generation = records[i].generation, r.scope = records[i].scope,
         r.representation = records[i].representation,
         r.destroyed = records[i].destroyed, NoNewer(records[i].desired, r.desired),
         r.desired.snapshot < nextSnapshot',
         r.decoded # NoPublication =>
           epoch = clientEpoch /\ Showing(replicas[i], r),
         epoch' = epoch, policy' = policy, resetRequired' = resetRequired,
         nextSnapshot' \in Nat \ {0}, nextSnapshot' >= nextSnapshot, world' = world,
         clientEpoch' = clientEpoch, replicas' = replicas,
         states' = states, receipts' = receipts, down' = down, up' = up
  PROVE  ScopesInv'
<1> DEFINE s == RefreshPhase(r)
<1>1. Types /\ RecordOk(records[i], nextSnapshot) /\ records[i] \in ServerRecord
      /\ records \in [Indexes -> ServerRecord]
  BY Zenon, RecordTypes, Parts DEF RecordsOk, Types, ServerTypes
<1>2. /\ s \in ServerRecord /\ Open(s)
      /\ s.generation = r.generation /\ s.scope = r.scope
      /\ s.representation = r.representation /\ s.destroyed = r.destroyed
      /\ s.desired = r.desired /\ s.decoded = r.decoded
      /\ s.phase = "DormantKnown" => s.decoded = s.desired
  BY Zenon, RefreshFacts
<1>3. records' = [records EXCEPT ![i] = s] /\ records'[i] = s
  BY Zenon, <1>1
<1> HIDE DEF s
<1>4. Moves(records[i], s)
  BY Zenon, <1>1, <1>2 DEF Moves, Kept, RecordOk
<1>5. RecordOk(s, nextSnapshot')
  BY <1>1, <1>2 DEF RecordOk, NoNewer, Open, ServerRecord, Numbered
<1>6. SentOk(i)' /\ ForgottenOk(i)'
  BY Zenon, <1>2, <1>3, OpenHasNoEnd
<1>7. s.decoded # NoPublication => epoch = clientEpoch /\ Showing(replicas[i], s)
  BY Zenon, <1>2 DEF Showing
<1>8. UsedOk'
  <2>1. \A j \in Indexes : Known(j)' => Known(j)
    BY Zenon, <1>1, <1>2, <1>3 DEF Known
  <2> QED BY Zenon, <2>1, NoneUsed
<1> QED BY Zenon, <1>2, <1>3, <1>4, <1>5, <1>6, <1>7, <1>8, RecordStep

LEMMA OfferInv ==
  ASSUME ScopesInv, NEW i \in Indexes, OfferStep(i)
  PROVE  ScopesInv'
<1>1. PICK representation \in Representations, d \in BOOLEAN :
        Offer(i, world[i].generation, representation, world[i].version, d)
  BY Zenon DEF OfferStep
<1> DEFINE g == world[i].generation
           v == world[i].version
           old == records[i]
           fresh == \/ ~Known(i) \/ ~Live(i) \/ old.generation # g
                    \/ old.representation # representation
           state == [snapshot |-> nextSnapshot, version |-> v]
<1>2. /\ clientEpoch' = clientEpoch /\ replicas' = replicas /\ world' = world
      /\ states' = states /\ receipts' = receipts /\ down' = down /\ up' = up
      /\ epoch' = epoch /\ policy' = policy /\ resetRequired' = resetRequired
      /\ Offerable(i, g, fresh)
  BY Zenon, <1>1 DEF OfferStep, Offer, clientVars, game, netVars
<1>3. /\ Types /\ RecordOk(old, nextSnapshot) /\ old \in ServerRecord
      /\ g \in Nat \ {0} /\ v \in Nat /\ representation \in Nat
      /\ nextSnapshot \in Nat \ {0} /\ records \in [Indexes -> ServerRecord]
  BY Zenon, RecordTypes, ScopeLimitsAssumption, Parts DEF RecordsOk, Types, ServerTypes
<1>4. Open(old) /\ old.decoded # NoPublication =>
        epoch = clientEpoch /\ Showing(replicas[i], old)
  BY Zenon, Parts DEF DecodedOk
<1>5. CASE ~fresh /\ v = old.desired.version
           /\ records' = [records EXCEPT ![i] = RefreshPhase([old EXCEPT !.dormant = d])]
           /\ nextSnapshot' = nextSnapshot
  <2> DEFINE r == [old EXCEPT !.dormant = d]
  <2>1. /\ r \in ServerRecord /\ r.desired = old.desired /\ r.decoded = old.decoded
        /\ r.generation = old.generation /\ r.scope = old.scope
        /\ r.representation = old.representation /\ r.destroyed = old.destroyed
    BY Zenon, <1>3 DEF ServerRecord
  <2>2. Open(old) /\ records' = [records EXCEPT ![i] = RefreshPhase(r)]
    BY Zenon, <1>5 DEF Live, Open
  <2> HIDE DEF r
  <2>3. /\ NoNewer(old.desired, r.desired) /\ r.desired.snapshot < nextSnapshot'
        /\ r.decoded # NoPublication => epoch = clientEpoch /\ Showing(replicas[i], r)
    BY SMTT(30), <1>3, <1>4, <1>5, <2>1, <2>2
       DEF NoNewer, RecordOk, Showing, ServerRecord, Numbered
  <2>4. nextSnapshot' \in Nat \ {0} /\ nextSnapshot' >= nextSnapshot
    BY <1>3, <1>5
  <2> QED BY Zenon, <1>2, <2>1, <2>2, <2>3, <2>4, RefreshInv
<1>6. CASE ~fresh /\ v > old.desired.version /\ nextSnapshot' = nextSnapshot + 1
           /\ records' = [records EXCEPT ![i] =
                RefreshPhase([old EXCEPT !.desired = state, !.dormant = d])]
  <2> DEFINE r == [old EXCEPT !.desired = state, !.dormant = d]
  <2>1. /\ r \in ServerRecord /\ r.desired = state /\ r.decoded = old.decoded
        /\ r.generation = old.generation /\ r.scope = old.scope
        /\ r.representation = old.representation /\ r.destroyed = old.destroyed
    BY Zenon, <1>3 DEF ServerRecord, Numbered
  <2>2. Open(old) /\ records' = [records EXCEPT ![i] = RefreshPhase(r)]
    BY Zenon, <1>6 DEF Live, Open
  <2> HIDE DEF r
  <2>3. NoNewer(old.desired, r.desired) /\ r.desired.snapshot < nextSnapshot'
    BY SMTT(30), <1>3, <1>6, <2>1, <2>2 DEF NoNewer, RecordOk, ServerRecord, Numbered
  <2>4. r.decoded # NoPublication => epoch = clientEpoch /\ Showing(replicas[i], r)
    BY Zenon, <1>4, <2>1, <2>2 DEF Showing
  <2>5. nextSnapshot' \in Nat \ {0} /\ nextSnapshot' >= nextSnapshot
    BY <1>3, <1>6
  <2> QED BY Zenon, <1>2, <2>1, <2>2, <2>3, <2>4, <2>5, RefreshInv
<1>7. CASE fresh /\ nextSnapshot' = nextSnapshot + 1
           /\ records' = [records EXCEPT ![i] =
                [NoDelivery EXCEPT !.generation = g, !.scope = NextScope(i),
                     !.representation = representation, !.desired = state,
                     !.dormant = d, !.phase = "Entering"]]
  <2> DEFINE s == [NoDelivery EXCEPT !.generation = g, !.scope = NextScope(i),
                     !.representation = representation, !.desired = state,
                     !.dormant = d, !.phase = "Entering"]
  <2>1. /\ s \in ServerRecord /\ s.desired = state /\ s.decoded = NoPublication
        /\ s.generation = g /\ s.scope = old.scope + 1 /\ s.phase = "Entering"
        /\ s.destroyed = FALSE
    <3>1. /\ state \in Numbered /\ NoPublication \in Numbered
          /\ NextScope(i) \in Nat /\ NextScope(i) = old.scope + 1
      BY <1>3 DEF Numbered, NoPublication, ServerRecord, NextScope
    <3>2. NoDelivery \in ServerRecord
      BY Zenon, <3>1 DEF NoDelivery, ServerRecord, Phases
    <3>3. NoDelivery.decoded = NoPublication /\ NoDelivery.destroyed = FALSE
      BY Zenon DEF NoDelivery
    <3> HIDE DEF state, g
    <3> QED BY Zenon, <1>3, <3>1, <3>2, <3>3 DEF ServerRecord, Phases
  <2>2. records' = [records EXCEPT ![i] = s] /\ records'[i] = s
    BY Zenon, <1>3, <1>7
  <2> HIDE DEF s
  <2>3. Moves(old, s)
    BY SMTT(30), <1>2, <1>3, <2>1 DEF Moves, Renewed, Offerable, Known, ServerRecord
  <2>4. RecordOk(s, nextSnapshot')
    BY SMTT(30), <1>3, <1>7, <2>1 DEF RecordOk, Open, ServerRecord
  <2>5. SentOk(i)' /\ ForgottenOk(i)'
    BY Zenon, <2>1, <2>2, OpenHasNoEnd DEF Open
  <2>6. UsedOk'
    <3>1. \A j \in Indexes : Known(j)' => Known(j) \/ j = i
      BY Zenon, <1>3, <2>2 DEF Known
    <3>2. CASE Known(i)
      BY Zenon, <1>2, <3>1, <3>2, NoneUsed
    <3>3. CASE ~Known(i)
      BY Zenon, <1>2, <3>1, <3>3, UsedFresh DEF Offerable
    <3> QED BY Zenon, <3>2, <3>3
  <2>7. nextSnapshot' \in Nat \ {0} /\ nextSnapshot' >= nextSnapshot
    BY <1>3, <1>7
  <2> QED BY Zenon, <1>2, <2>1, <2>2, <2>3, <2>4, <2>5, <2>6, <2>7, RecordStep
<1> QED
  BY Zenon, <1>1, <1>5, <1>6, <1>7 DEF Offer

LEMMA EmptiedFacts ==
  ASSUME NEW r \in ServerRecord, NEW phase \in Phases
  PROVE  LET s == Emptied(r, phase) IN
         /\ s \in ServerRecord /\ s.phase = phase
         /\ s.generation = r.generation /\ s.scope = r.scope
         /\ s.representation = r.representation /\ s.destroyed = r.destroyed
         /\ s.exitSent = r.exitSent
<1>1. NoPublication \in Numbered
  BY Zenon DEF NoPublication, Numbered
<1> QED BY Zenon, <1>1 DEF Emptied, ServerRecord

\* A peer that fails closed forgets every record.
LEMMA RequireResetInv ==
  ASSUME ScopesInv, RequireReset, UNCHANGED <<clientVars, world, netVars>>
  PROVE  ScopesInv'
<1>1. /\ Types /\ policy \in Nat \ {0} /\ nextSnapshot \in Nat \ {0}
      /\ \A i \in Indexes : records[i] \in ServerRecord /\ RecordOk(records[i], nextSnapshot)
  BY Zenon, RecordTypes, Parts DEF RecordsOk, Types, ServerTypes
<1>2. /\ clientEpoch' = clientEpoch /\ replicas' = replicas /\ world' = world
      /\ states' = states /\ receipts' = receipts /\ down' = down /\ up' = up
      /\ epoch' = epoch /\ policy' = policy /\ resetRequired' = TRUE
      /\ nextSnapshot' = nextSnapshot
      /\ records' = [i \in Indexes |-> IF Known(i) THEN Emptied(records[i], "Forgotten")
                                       ELSE records[i]]
  BY Zenon DEF RequireReset, clientVars, netVars
<1>3. ASSUME NEW i \in Indexes
      PROVE  /\ records'[i] \in ServerRecord /\ Moves(records[i], records'[i])
             /\ RecordOk(records'[i], nextSnapshot') /\ ~Open(records'[i])
             /\ Known(i)' => Known(i)
  <2>1. CASE Known(i)
    <3> DEFINE s == Emptied(records[i], "Forgotten")
    <3>1. records'[i] = s
      BY Zenon, <1>2, <2>1
    <3>2. /\ s \in ServerRecord /\ s.phase = "Forgotten"
          /\ s.generation = records[i].generation /\ s.scope = records[i].scope
          /\ s.representation = records[i].representation
          /\ s.destroyed = records[i].destroyed
      BY Zenon, <1>1, EmptiedFacts DEF Phases
    <3> HIDE DEF s
    <3>3. Moves(records[i], s)
      BY Zenon, <3>2 DEF Moves, Kept, Open, Unsent
    <3>4. RecordOk(s, nextSnapshot) /\ ~Open(s)
      BY Zenon, <1>1, <3>2 DEF RecordOk, Open
    <3> QED BY Zenon, <1>2, <2>1, <3>1, <3>2, <3>3, <3>4
  <2>2. CASE ~Known(i)
    <3>1. records'[i] = records[i]
      BY Zenon, <1>2, <2>2
    <3> QED BY SMTT(30), <1>1, <1>2, <2>2, <3>1, KeptSame DEF Known, RecordOk, Open
  <2> QED BY Zenon, <2>1, <2>2
<1>4. EndedOk' /\ DecodedOk'
  BY Zenon, <1>2, <1>3 DEF EndedOk, DecodedOk
<1>5. UsedOk'
  BY Zenon, <1>2, <1>3, NoneUsed
<1>6. records' \in [Indexes -> ServerRecord]
  BY Zenon, <1>2, <1>3
<1> QED BY SMTT(30), <1>1, <1>2, <1>3, <1>4, <1>5, <1>6, ServerStep

\* exit and destroy.
LEMMA CloseInv ==
  ASSUME ScopesInv, NEW i \in Indexes, NEW dead \in BOOLEAN, CloseScope(i, dead),
         UNCHANGED <<clientVars, world, netVars>>
  PROVE  ScopesInv'
<1>1. CASE RequireReset
  BY Zenon, <1>1, RequireResetInv
<1>2. CASE /\ records' = [records EXCEPT ![i] =
                [Emptied(records[i], "Leaving") EXCEPT !.exitSent = FALSE,
                                                       !.destroyed = dead]]
           /\ UNCHANGED <<epoch, policy, nextSnapshot, resetRequired>>
  <2> DEFINE e == Emptied(records[i], "Leaving")
             s == [e EXCEPT !.exitSent = FALSE, !.destroyed = dead]
  <2>1. /\ records \in [Indexes -> ServerRecord] /\ records[i] \in ServerRecord
        /\ RecordOk(records[i], nextSnapshot) /\ nextSnapshot \in Nat \ {0}
    BY RecordTypes, Parts DEF RecordsOk, Types, ServerTypes
  <2>2. Open(records[i]) /\ Known(i)
    BY Zenon DEF CloseScope, Live, Open
  <2>3. /\ e \in ServerRecord /\ e.phase = "Leaving"
        /\ e.generation = records[i].generation /\ e.scope = records[i].scope
        /\ e.representation = records[i].representation
    BY Zenon, <2>1, EmptiedFacts DEF Phases
  <2>4. /\ s \in ServerRecord /\ s.phase = "Leaving" /\ s.exitSent = FALSE
        /\ s.generation = records[i].generation /\ s.scope = records[i].scope
        /\ s.representation = records[i].representation
    <3> HIDE DEF e
    <3> QED BY Zenon, <2>3 DEF ServerRecord
  <2>5. records' = [records EXCEPT ![i] = s] /\ records'[i] = s
    BY Zenon, <1>2, <2>1
  <2> HIDE DEF s
  <2>6. Moves(records[i], s) /\ ~Open(s)
    BY Zenon, <2>1, <2>2, <2>4 DEF Moves, Kept, RecordOk, Open
  <2>7. RecordOk(s, nextSnapshot)
    BY Zenon, <2>1, <2>2, <2>4 DEF RecordOk, Open, Known
  <2>8. SentOk(i)' /\ ForgottenOk(i)'
    BY Zenon, <2>4, <2>5 DEF SentOk, ForgottenOk
  <2>9. /\ clientEpoch' = clientEpoch /\ replicas' = replicas /\ world' = world
        /\ states' = states /\ receipts' = receipts /\ down' = down /\ up' = up
        /\ epoch' = epoch /\ policy' = policy /\ resetRequired' = resetRequired
        /\ nextSnapshot' = nextSnapshot /\ nextSnapshot' >= nextSnapshot
    BY <1>2, <2>1 DEF clientVars, netVars
  <2>10. UsedOk'
    <3>1. \A j \in Indexes : Known(j)' => Known(j)
      BY Zenon, <2>1, <2>4, <2>5 DEF Known
    <3> QED BY Zenon, <2>9, <3>1, NoneUsed
  <2> QED BY Zenon, <2>1, <2>4, <2>5, <2>6, <2>7, <2>8, <2>9, <2>10, RecordStep
<1> QED BY Zenon, <1>1, <1>2 DEF CloseScope

\* A new policy revision.
LEMMA BarrierInv ==
  ASSUME ScopesInv, BarrierStep
  PROVE  ScopesInv'
<1>1. /\ Types /\ policy \in Nat \ {0} /\ nextSnapshot \in Nat \ {0}
      /\ resetRequired \in BOOLEAN
      /\ \A i \in Indexes : records[i] \in ServerRecord /\ RecordOk(records[i], nextSnapshot)
  BY Zenon, RecordTypes, Parts DEF RecordsOk, Types, ServerTypes
<1>2. /\ clientEpoch' = clientEpoch /\ replicas' = replicas /\ world' = world
      /\ states' = states /\ receipts' = receipts /\ down' = down /\ up' = up
      /\ UNCHANGED <<clientVars, world, netVars>> /\ ~resetRequired
  BY Zenon DEF BarrierStep, AdvanceBarrier, clientVars, netVars
<1>3. CASE RequireReset
  BY Zenon, <1>2, <1>3, RequireResetInv
<1>4. CASE /\ policy' = policy + 1
           /\ records' = [i \in Indexes |->
                IF Known(i) /\ records[i].phase # "Forgotten"
                THEN [Emptied(records[i], IF records[i].destroyed THEN "Forgotten"
                                          ELSE "Leaving") EXCEPT !.exitSent = FALSE]
                ELSE records[i]]
           /\ UNCHANGED <<epoch, nextSnapshot, resetRequired>>
  <2>1. policy' > 1 /\ policy' \in Nat \ {0}
    BY SMTT(30), <1>1, <1>4
  <2>2. ASSUME NEW i \in Indexes
        PROVE  /\ records'[i] \in ServerRecord /\ Moves(records[i], records'[i])
               /\ RecordOk(records'[i], nextSnapshot') /\ ~Open(records'[i])
               /\ Known(i)' => Known(i)
               /\ SentOk(i)' /\ ForgottenOk(i)'
    <3>1. CASE Known(i) /\ records[i].phase # "Forgotten"
      <4> DEFINE phase == IF records[i].destroyed THEN "Forgotten" ELSE "Leaving"
                 e == Emptied(records[i], phase)
                 s == [e EXCEPT !.exitSent = FALSE]
      <4>1. records'[i] = s
        BY Zenon, <1>4, <3>1
      <4>2. phase \in Phases
        BY Zenon DEF Phases
      <4>3. /\ e \in ServerRecord /\ e.phase = phase
            /\ e.generation = records[i].generation /\ e.scope = records[i].scope
            /\ e.representation = records[i].representation
            /\ e.destroyed = records[i].destroyed
        <5> HIDE DEF phase
        <5> QED BY Zenon, <1>1, <4>2, EmptiedFacts
      <4>4. /\ s \in ServerRecord /\ s.phase = phase /\ s.exitSent = FALSE
            /\ s.generation = records[i].generation /\ s.scope = records[i].scope
            /\ s.representation = records[i].representation
            /\ s.destroyed = records[i].destroyed
        <5> HIDE DEF e, phase
        <5> QED BY Zenon, <4>3 DEF ServerRecord
      <4> HIDE DEF s
      <4>5. Moves(records[i], s) /\ ~Open(s)
        BY Zenon, <4>4 DEF Moves, Kept, Open, Unsent
      <4>6. RecordOk(s, nextSnapshot)
        BY Zenon, <1>1, <3>1, <4>4 DEF RecordOk, Open, Known
      <4>7. SentOk(i)'
        BY Zenon, <4>1, <4>4 DEF SentOk
      <4>8. ForgottenOk(i)'
        BY Zenon, <2>1, <4>1, <4>4 DEF ForgottenOk
      <4> QED BY Zenon, <1>4, <3>1, <4>1, <4>4, <4>5, <4>6, <4>7, <4>8
    <3>2. CASE ~(Known(i) /\ records[i].phase # "Forgotten")
      <4>1. records'[i] = records[i]
        BY <1>4, <3>2
      <4>2. SameEnd(records[i], records'[i]) /\ Moves(records[i], records'[i])
        BY Zenon, <1>1, <4>1, KeptSame
      <4>3. SentOk(i)' /\ ForgottenOk(i)'
        BY ZenonT(30), <1>2, <1>4, <2>1, <4>2, EndKept
      <4>4. RecordOk(records'[i], nextSnapshot') /\ ~Open(records'[i])
        BY SMTT(30), <1>1, <1>4, <3>2, <4>1 DEF RecordOk, Open, Known
      <4> QED BY SMTT(30), <1>1, <4>1, <4>2, <4>3, <4>4 DEF Known
    <3> QED BY Zenon, <3>1, <3>2
  <2>3. EndedOk' /\ DecodedOk'
    BY Zenon, <2>2 DEF EndedOk, DecodedOk
  <2>4. UsedOk'
    BY Zenon, <1>2, <1>4, <2>2, NoneUsed
  <2>5. records' \in [Indexes -> ServerRecord]
    BY Zenon, <1>4, <2>2
  <2> QED BY SMTT(30), <1>1, <1>2, <1>4, <2>1, <2>2, <2>3, <2>4, <2>5, ServerStep
<1> QED BY Zenon, <1>3, <1>4 DEF BarrierStep, AdvanceBarrier

\* Steps of the game, losses, and acknowledgements that are refused.
LEMMA QuietInv ==
  ASSUME ScopesInv, UNCHANGED <<epoch, policy, records, nextSnapshot, resetRequired>>,
         clientEpoch' = clientEpoch, replicas' = replicas, down' = down,
         world' \in [Indexes -> [generation : Nat \ {0}, version : Nat, alive : BOOLEAN]],
         states' \subseteq states, receipts' \subseteq receipts,
         up' = up \/ (up' \in Seq(FenceMessage) /\ AcksPast')
  PROVE  ScopesInv'
<1>1. Types'
  BY Zenon, Parts DEF Types, ServerTypes, ClientTypes, NetTypes
<1>2. ServerInv'
  BY Zenon, Parts DEF ServerInv, RecordsOk, StatesOk, StatesAgree
<1>3. LaneOk' /\ LaneOrder' /\ LaneResets'
  BY Parts DEF LaneOk, LaneOrder, LaneResets, IsFence
<1>4. LaneAgrees'
  BY Zenon, Parts DEF LaneAgrees
<1>5. ReplicasOk' /\ ReplicasNotAhead' /\ FencesFit'
  BY Zenon, Parts DEF ReplicasOk, ReplicasNotAhead, FencesFit, IsFence
<1>6. StatesFit'
  BY Zenon, Parts DEF StatesFit
<1>7. AcksPast' /\ ReceiptsReached'
  BY Zenon, Parts DEF AcksPast, ReceiptsReached
<1>8. EndedOk'
  BY ZenonT(30), Parts DEF EndedOk, SentOk, ForgottenOk, OwnFence, ScopeOf, Known
<1>9. DecodedOk'
  BY Zenon, Parts DEF DecodedOk
<1>10. UsedOk'
  <2>1. \A e \in Nat : Used(e)' \subseteq Used(e)
    BY Zenon DEF Used, Have, Known, IsFence
  <2> QED BY <2>1, UsedLess, Parts
<1> QED BY SMTT(30), <1>1, <1>2, <1>3, <1>4, <1>5, <1>6, <1>7, <1>8, <1>9, <1>10
        DEF ScopesInv, LaneInv, ClientInv, AnswersInv

\* A receipt of the record's own scope comes from a client that still shows it.
LEMMA ReceiptShown ==
  ASSUME NEW c \in ClientRecord, NEW r \in ServerRecord, NEW m \in StateMessage,
         r.generation # 0, Open(r), ~r.destroyed, NotAhead(c, r), Reached(c, m),
         m.scope.generation = r.generation, m.scope.scope = r.scope
  PROVE  /\ c.generation = r.generation /\ ~c.destroyed /\ c.scope = r.scope
         /\ c.state.snapshot >= m.state.snapshot
BY DEF NotAhead, Reached, Issued, ClientRecord, ServerRecord, StateMessage, Identity,
       Numbered

LEMMA ReceiptInv ==
  ASSUME ScopesInv, NEW m \in receipts, ReceiveReceipt(m)
  PROVE  ScopesInv'
<1> DEFINE i == m.scope.index
           p == m.state
           old == records[i]
           r == [old EXCEPT !.decoded = p,
                            !.sent = {q \in old.sent : q.snapshot >= p.snapshot}]
<1>1. /\ Types /\ m \in StateMessage /\ i \in Indexes /\ p \in Numbered
      /\ records \in [Indexes -> ServerRecord] /\ nextSnapshot \in Nat \ {0}
  BY Zenon, MessageTypes, Parts DEF Types, ServerTypes, StateMessage, Identity
<1>2. /\ old \in ServerRecord /\ replicas[i] \in ClientRecord
      /\ RecordOk(old, nextSnapshot)
  BY Zenon, <1>1, RecordTypes, Parts DEF RecordsOk
<1>3. /\ Known(i) /\ m.scope = ScopeOf(i) /\ Open(old)
      /\ records' = [records EXCEPT ![i] = RefreshPhase(r)]
      /\ UNCHANGED <<epoch, policy, nextSnapshot, resetRequired>>
      /\ clientEpoch' = clientEpoch /\ replicas' = replicas /\ world' = world
      /\ states' = states /\ receipts' = receipts /\ down' = down /\ up' = up
  BY Zenon DEF ReceiveReceipt, Acknowledge, Live, Open, clientVars, netVars, game
<1>4. /\ r \in ServerRecord /\ r.desired = old.desired /\ r.decoded = p
      /\ r.generation = old.generation /\ r.scope = old.scope
      /\ r.representation = old.representation /\ r.destroyed = old.destroyed
  <2> HIDE DEF p
  <2> QED BY Zenon, <1>1, <1>2 DEF ServerRecord
<1>5. epoch = clientEpoch /\ Reached(replicas[i], m)
  <2>1. /\ m.scope.epoch <= clientEpoch
        /\ m.scope.epoch = clientEpoch => Reached(replicas[i], m)
    BY Zenon, Parts DEF ReceiptsReached
  <2>2. m.scope.epoch = epoch
    BY <1>3 DEF ScopeOf
  <2>3. clientEpoch <= epoch /\ epoch \in Nat /\ clientEpoch \in Nat
    BY Zenon, <1>1 DEF Types, ServerTypes, ClientTypes
  <2> QED BY <2>1, <2>2, <2>3
<1>6. Showing(replicas[i], r)
  <2>1. NotAhead(replicas[i], old)
    BY Zenon, <1>1, <1>5, Parts DEF ReplicasNotAhead
  <2>2. m.scope.generation = old.generation /\ m.scope.scope = old.scope
    BY <1>3 DEF ScopeOf
  <2>3. old.generation # 0 /\ ~old.destroyed
    BY Zenon, <1>2, <1>3 DEF Known, RecordOk
  <2>4. /\ replicas[i].generation = old.generation /\ ~replicas[i].destroyed
        /\ replicas[i].scope = old.scope
        /\ replicas[i].state.snapshot >= m.state.snapshot
    <3> HIDE DEF i, r
    <3> QED BY Zenon, <1>1, <1>2, <1>3, <1>5, <2>1, <2>2, <2>3, ReceiptShown
  <2> QED BY Zenon, <1>4, <2>4 DEF Showing
<1>7. NoNewer(old.desired, r.desired) /\ r.desired.snapshot < nextSnapshot'
  <2>1. old.desired \in Numbered
    BY Zenon, <1>2 DEF ServerRecord
  <2>2. NoNewer(old.desired, old.desired)
    BY Zenon, <2>1, SamePublication
  <2>3. old.desired.snapshot < nextSnapshot
    BY Zenon, <1>2, <1>3 DEF RecordOk
  <2> HIDE DEF r, old
  <2> QED BY Zenon, <2>2, <2>3, <1>3, <1>4
<1>8. nextSnapshot' >= nextSnapshot
  BY SMTT(30), <1>1, <1>3
<1> HIDE DEF r, i
<1> QED BY Zenon, <1>1, <1>3, <1>4, <1>5, <1>6, <1>7, <1>8, RefreshInv

\* An acknowledgement of the record's own fence comes from a client past it.
LEMMA AckDone ==
  ASSUME NEW c \in ClientRecord, NEW r \in ServerRecord, NEW f \in FenceMessage,
         r.generation # 0, ReplicaOk(c), NotAhead(c, r), Past(c, f),
         f.scope.generation = r.generation,
         f.kind = "exit" => f.scope.scope = r.scope
  PROVE  Done(c, r)
BY DEF NotAhead, Past, Done, Issued, ReplicaOk, ClientRecord, ServerRecord,
       FenceMessage, Identity

LEMMA AckInv ==
  ASSUME ScopesInv, ReceiveAck
  PROVE  ScopesInv'
<1> DEFINE acked(f, i) ==
             \/ f.kind = "exit" /\ ExitAcked(i, f.scope)
             \/ f.kind = "destroy" /\ DestroyAcked(i, f.scope.epoch, f.scope.generation)
<1>0. PICK f, i : f = Head(up) /\ i = f.scope.index
  BY Zenon
<1>1. /\ up # <<>> /\ up' = Tail(up) /\ up \in Seq(FenceMessage)
      /\ clientEpoch' = clientEpoch /\ replicas' = replicas /\ world' = world
      /\ states' = states /\ receipts' = receipts /\ down' = down
  BY Zenon, Parts DEF ReceiveAck, clientVars, game, Types, NetTypes
<1>2. /\ up' \in Seq(FenceMessage) /\ f = up[1] /\ 1 \in DOMAIN up
      /\ \A k \in DOMAIN up' : k + 1 \in DOMAIN up /\ up'[k] = up[k + 1]
  BY Zenon, <1>0, <1>1, LaneTail
<1>3. AcksPast'
  BY Zenon, <1>1, <1>2, Parts DEF AcksPast
<1>4a. Types
  BY Zenon, Parts
<1>4. /\ Types /\ f \in FenceMessage /\ i \in Indexes
      /\ records \in [Indexes -> ServerRecord] /\ nextSnapshot \in Nat \ {0}
      /\ world \in [Indexes -> [generation : Nat \ {0}, version : Nat, alive : BOOLEAN]]
  <2>1. f \in FenceMessage
    BY Zenon, <1>2, <1>4a, AnswerTypes
  <2> QED BY Zenon, <1>0, <1>4a, <2>1 DEF Types, ServerTypes, FenceMessage, Identity
<1>5. CASE ~acked(f, i) /\ UNCHANGED serverVars
  <2> HIDE DEF acked
  <2> QED BY SMTT(30), <1>1, <1>2, <1>3, <1>4, <1>5, QuietInv DEF serverVars
<1>6. CASE acked(f, i) /\ Forget(i)
  <2> DEFINE s == [records[i] EXCEPT !.phase = "Forgotten"]
  <2>1. /\ records' = [records EXCEPT ![i] = s]
        /\ UNCHANGED <<epoch, policy, nextSnapshot, resetRequired>>
    BY Zenon, <1>6 DEF Forget
  <2>2. /\ records[i] \in ServerRecord /\ replicas[i] \in ClientRecord
        /\ RecordOk(records[i], nextSnapshot) /\ ReplicaOk(replicas[i])
    BY Zenon, <1>4, RecordTypes, Parts DEF RecordsOk, ReplicasOk
  <2>3. /\ s \in ServerRecord /\ s.phase = "Forgotten"
        /\ s.generation = records[i].generation /\ s.scope = records[i].scope
        /\ s.representation = records[i].representation
        /\ s.destroyed = records[i].destroyed
    BY Zenon, <2>2 DEF ServerRecord, Phases
  <2>4. records'[i] = s
    BY Zenon, <1>4, <2>1
  <2>5. /\ Known(i) /\ f.scope.epoch = epoch
        /\ f.scope.generation = records[i].generation
        /\ f.kind = "exit" => f.scope.scope = records[i].scope
    <3>1. CASE f.kind = "exit" /\ ExitAcked(i, f.scope)
      <4>1. Known(i) /\ f.scope = ScopeOf(i)
        BY Zenon, <3>1 DEF ExitAcked
      <4> QED BY SMTT(30), <4>1 DEF ScopeOf
    <3>2. CASE f.kind = "destroy" /\ DestroyAcked(i, f.scope.epoch, f.scope.generation)
      BY Zenon, <3>2 DEF DestroyAcked
    <3> QED BY Zenon, <1>6, <3>1, <3>2
  <2>6. epoch = clientEpoch /\ Past(replicas[i], f)
    <3>1. /\ f.scope.epoch <= clientEpoch
          /\ f.scope.epoch = clientEpoch => Past(replicas[i], f)
      BY Zenon, <1>0, <1>2, Parts DEF AcksPast
    <3>2. clientEpoch <= epoch /\ epoch \in Nat /\ clientEpoch \in Nat
      BY Zenon, <1>4 DEF Types, ServerTypes, ClientTypes
    <3>3. f.scope.epoch = epoch
      BY Zenon, <2>5
    <3>4. epoch = clientEpoch
      BY <3>1, <3>2, <3>3
    <3> QED BY Zenon, <3>1, <3>3, <3>4
  <2>7. Done(replicas[i], records[i])
    <3>1. NotAhead(replicas[i], records[i])
      BY Zenon, <1>4, <2>6, Parts DEF ReplicasNotAhead
    <3>2. records[i].generation # 0
      BY Zenon, <2>5 DEF Known
    <3> QED BY Zenon, <1>4, <2>2, <2>5, <2>6, <3>1, <3>2, AckDone
  <2>8. Done(replicas[i], s)
    BY Zenon, <2>3, <2>7 DEF Done
  <2> HIDE DEF s, acked
  <2>9. Moves(records[i], s) /\ ~Open(s) /\ RecordOk(s, nextSnapshot')
    BY Zenon, <2>1, <2>2, <2>3 DEF Moves, Kept, Unsent, Open, RecordOk
  <2>10. SentOk(i)' /\ ForgottenOk(i)'
    BY Zenon, <1>1, <2>1, <2>3, <2>4, <2>6, <2>8 DEF SentOk, ForgottenOk
  <2>11. UsedOk'
    <3>1. \A j \in Indexes : Known(j)' => Known(j)
      BY Zenon, <1>4, <2>1, <2>3, <2>4 DEF Known
    <3> QED BY Zenon, <1>1, <2>1, <3>1, NoneUsed
  <2>12. nextSnapshot' >= nextSnapshot
    BY <1>4, <2>1
  <2> QED BY Zenon, <1>1, <1>2, <1>3, <1>4, <2>1, <2>3, <2>9, <2>10, <2>11, <2>12, RecordStep
<1> QED BY Zenon, <1>0, <1>5, <1>6 DEF ReceiveAck

\* A state is sent, for the first time or again.
LEMMA TransmitInv ==
  ASSUME ScopesInv, NEW i \in Indexes, TransmitStep(i)
  PROVE  ScopesInv'
<1> DEFINE old == records[i]
           s == MarkSent(old)
<1>0. PICK new : new = [scope |-> ScopeOf(i), state |-> old.desired]
  BY Zenon
<1>1. /\ records' = [records EXCEPT ![i] = s] /\ states' = states \cup {new}
      /\ UNCHANGED <<epoch, policy, nextSnapshot, resetRequired>>
      /\ clientEpoch' = clientEpoch /\ replicas' = replicas /\ world' = world
      /\ receipts' = receipts /\ down' = down /\ up' = up /\ Open(old)
  BY Zenon, <1>0 DEF TransmitStep, TransmitPending, Pending, Live, Open, clientVars, game
<1>2. /\ Types /\ records \in [Indexes -> ServerRecord] /\ nextSnapshot \in Nat \ {0}
      /\ epoch \in Nat
  BY Zenon, Parts DEF Types, ServerTypes
<1>3. /\ old \in ServerRecord /\ replicas[i] \in ClientRecord
      /\ RecordOk(old, nextSnapshot) /\ ScopeOf(i) \in Identity
  BY Zenon, <1>2, RecordTypes, Parts DEF RecordsOk
<1>4. /\ s \in ServerRecord /\ s.phase = old.phase /\ s.exitSent = old.exitSent
      /\ s.generation = old.generation /\ s.scope = old.scope
      /\ s.representation = old.representation /\ s.destroyed = old.destroyed
      /\ s.desired = old.desired /\ s.decoded = old.decoded
  <2>1. (IF old.desired \notin old.sent /\ Cardinality(old.sent) >= SentProofs
         THEN old.sent \ OldestSent(old) ELSE old.sent) \cup {old.desired}
          \in SUBSET Numbered
    BY Zenon, <1>3 DEF ServerRecord
  <2> QED BY Zenon, <1>3, <2>1 DEF MarkSent, ServerRecord
<1>5. /\ new \in StateMessage /\ new.scope.epoch = epoch /\ new.scope.index = i
      /\ new.scope.generation = old.generation /\ new.scope.scope = old.scope
      /\ new.scope.representation = old.representation /\ new.state = old.desired
  BY Zenon, <1>0, <1>3 DEF StateMessage, ScopeOf, ServerRecord
<1>6. /\ records' \in [Indexes -> ServerRecord] /\ records'[i] = s
      /\ \A j \in Indexes : j # i => records'[j] = records[j]
  BY Zenon, <1>1, <1>2, <1>4
<1> HIDE DEF s
<1>7. ASSUME NEW j \in Indexes
      PROVE  /\ Moves(records[j], records'[j]) /\ SameEnd(records[j], records'[j])
             /\ RecordOk(records'[j], nextSnapshot)
  <2>1. CASE j = i
    <3>1. NoNewer(old.desired, s.desired)
      BY Zenon, <1>3, <1>4, SamePublication DEF ServerRecord
    <3>2. Moves(old, s) /\ SameEnd(old, s)
      BY Zenon, <1>4, <3>1 DEF Moves, Kept, SameEnd, Unsent, Open
    <3>3. RecordOk(s, nextSnapshot)
      BY Zenon, <1>3, <1>4 DEF RecordOk, Open
    <3> QED BY Zenon, <1>6, <2>1, <3>2, <3>3
  <2>2. CASE j # i
    BY SMTT(30), <1>2, <1>6, <2>2, RecordTypes, KeptSame, Parts DEF RecordsOk
  <2> QED BY Zenon, <2>1, <2>2
<1>8. /\ \A m \in states : StateOk(m, epoch, records'[m.scope.index])
      /\ \A k \in DOMAIN down : IsFence(k) =>
           FenceOk(down[k], epoch, records'[down[k].scope.index])
      /\ epoch = clientEpoch =>
           \A j \in Indexes : NotAhead(replicas[j], records'[j])
  BY Zenon, <1>6, <1>7, RecordsMove
<1>9. old.generation # 0 /\ old.scope # 0 /\ old.desired.snapshot # 0 /\ ~old.destroyed
  BY Zenon, <1>1, <1>3 DEF RecordOk, Open
<1>10. Types'
  BY Zenon, <1>1, <1>5, <1>6, Parts DEF Types, ServerTypes, ClientTypes, NetTypes
<1>11. RecordsOk' /\ StatesOk'
  <2>1. RecordsOk'
    BY Zenon, <1>1, <1>7 DEF RecordsOk
  <2>2. StateOk(new, epoch, s)
    <3>1. /\ new.scope.epoch <= epoch /\ new.scope.generation # 0
          /\ new.scope.scope # 0 /\ new.state.snapshot # 0
      BY SMTT(30), <1>2, <1>5, <1>9
    <3>2. old.generation \in Nat /\ old.scope \in Nat /\ old.desired \in Numbered
      BY Zenon, <1>3 DEF ServerRecord
    <3>3. Issued(new.scope, s)
      BY SMTT(30), <1>4, <1>5, <3>2 DEF Issued
    <3>4. NoNewer(new.state, s.desired)
      BY SMTT(30), <1>4, <1>5, <3>2, SamePublication
    <3> QED BY Zenon, <3>1, <3>3, <3>4 DEF StateOk
  <2>3. StatesOk'
    BY Zenon, <1>1, <1>5, <1>6, <1>8, <2>2 DEF StatesOk
  <2> QED BY Zenon, <2>1, <2>3
<1>12. ASSUME NEW m \in states, Twins(m.scope, new.scope)
       PROVE  /\ Alike(m.scope, new.scope) /\ Alike(new.scope, m.scope)
              /\ Consistent(m.state, new.state) /\ Consistent(new.state, m.state)
  <2>1. m \in StateMessage /\ StateOk(m, epoch, old)
    BY Zenon, <1>2, <1>5, <1>12, MessageTypes, Parts DEF StatesOk, Twins
  <2>2. m.scope.epoch = epoch /\ m.scope.scope = old.scope
    BY Zenon, <1>5, <1>12 DEF Twins
  <2>3. Issued(m.scope, old) /\ NoNewer(m.state, old.desired)
    BY Zenon, <1>1, <2>1, <2>2 DEF StateOk
  <2>4. Alike(m.scope, new.scope) /\ Alike(new.scope, m.scope)
    BY Zenon, <1>5, <2>2, <2>3 DEF Issued, Alike
  <2>5. m.state \in Numbered /\ old.desired \in Numbered
    BY Zenon, <1>3, <2>1 DEF StateMessage, ServerRecord
  <2>6. Consistent(m.state, new.state) /\ Consistent(new.state, m.state)
    BY Zenon, <1>5, <2>3, <2>5, OlderAgrees
  <2> QED BY Zenon, <2>4, <2>6
<1>13. StatesAgree'
  <2>1. Alike(new.scope, new.scope) /\ Consistent(new.state, new.state)
    <3>1. new.state \in Numbered
      BY Zenon, <1>5 DEF StateMessage
    <3> QED BY Zenon, <3>1, SamePublication DEF Alike
  <2>2. \A m \in states : Twins(new.scope, m.scope) => Twins(m.scope, new.scope)
    BY Zenon DEF Twins
  <2> QED BY SMTT(30), <1>1, <1>12, <2>1, <2>2, Parts DEF StatesAgree
<1>14. LaneInv'
  <2>1. LaneOk'
    BY Zenon, <1>1, <1>8, Parts DEF LaneOk, IsFence
  <2>2. ASSUME NEW k \in DOMAIN down, down[k].kind = "exit",
               Twins(down[k].scope, new.scope)
        PROVE  Alike(down[k].scope, new.scope)
    <3>1. IsFence(k) /\ down[k] \in FenceMessage /\ FenceOk(down[k], epoch, old)
      <4>1. IsFence(k)
        BY Zenon, <2>2 DEF IsFence
      <4> QED BY Zenon, <1>2, <1>5, <2>2, <4>1, LaneTypes, Parts DEF LaneOk, Twins
    <3> QED BY Zenon, <1>5, <2>2, <3>1 DEF FenceOk, Issued, Twins, Alike
  <2>3. LaneAgrees'
    BY Zenon, <1>1, <2>2, Parts DEF LaneAgrees
  <2>4. LaneOrder' /\ LaneResets'
    BY Zenon, <1>1, Parts DEF LaneOrder, LaneResets, IsFence
  <2> QED BY Zenon, <2>1, <2>3, <2>4 DEF LaneInv
<1>15. ClientInv'
  <2>1. ReplicasOk' /\ ReplicasNotAhead' /\ FencesFit'
    BY Zenon, <1>1, <1>8, Parts DEF ReplicasOk, ReplicasNotAhead, FencesFit, IsFence
  <2>2. epoch = clientEpoch => StateFits(new, replicas[i])
    <3> SUFFICES ASSUME epoch = clientEpoch PROVE StateFits(new, replicas[i])
      BY Zenon
    <3>1. NotAhead(replicas[i], old)
      BY Zenon, Parts DEF ReplicasNotAhead
    <3> SUFFICES ASSUME replicas[i].generation # 0, ~replicas[i].destroyed,
                        new.scope.scope = replicas[i].scope
                 PROVE  /\ Alike(new.scope, replicas[i])
                        /\ ~replicas[i].closed => Consistent(new.state, replicas[i].state)
      BY Zenon DEF StateFits
    <3>2. Issued(replicas[i], old) /\ NoNewer(replicas[i].state, old.desired)
      BY Zenon, <1>1, <1>5, <3>1 DEF NotAhead
    <3>3. Alike(new.scope, replicas[i])
      BY Zenon, <1>5, <3>2 DEF Issued, Alike
    <3>4. replicas[i].state \in Numbered /\ old.desired \in Numbered
      BY Zenon, <1>3 DEF ClientRecord, ServerRecord
    <3>5. Consistent(new.state, replicas[i].state)
      BY Zenon, <1>5, <3>2, <3>4, OlderAgrees
    <3> QED BY Zenon, <3>3, <3>5
  <2>3. StatesFit'
    BY Zenon, <1>1, <1>5, <2>2, Parts DEF StatesFit
  <2> QED BY Zenon, <2>1, <2>3 DEF ClientInv
<1>16. AnswersInv'
  BY Zenon, <1>1, Parts DEF AnswersInv, AcksPast, ReceiptsReached
<1>17. EndedOk'
  BY Zenon, <1>1, <1>7, EndKept DEF EndedOk
<1>18. DecodedOk'
  <2>1. Showing(replicas[i], old) => Showing(replicas[i], s)
    BY Zenon, <1>4 DEF Showing
  <2> QED BY Zenon, <1>1, <1>4, <1>6, <2>1, Parts DEF DecodedOk, Open
<1>19. UsedOk'
  <2>1. \A e \in Nat : Used(e)' \subseteq Used(e)
    <3>1. Known(i)
      BY Zenon, <1>9 DEF Known
    <3>2. \A j \in Indexes : Known(j)' => Known(j)
      BY Zenon, <1>4, <1>6 DEF Known
    <3> QED BY Zenon, <1>1, <1>5, <3>1, <3>2 DEF Used, Have, IsFence
  <2> QED BY Zenon, <2>1, UsedLess, Parts
<1> QED BY Zenon, <1>10, <1>11, <1>13, <1>14, <1>15, <1>16, <1>17, <1>18, <1>19
        DEF ScopesInv, ServerInv

\* The fence of an ended scope or a dead generation is put on its lane.
LEMMA SendFenceInv ==
  ASSUME ScopesInv, NEW i \in Indexes, SendFence(i)
  PROVE  ScopesInv'
<1> DEFINE old == records[i]
           s == [old EXCEPT !.exitSent = TRUE]
<1>0. PICK new, n : new = OwnFence(i) /\ n = Len(down) + 1
  BY Zenon
<1>1. /\ records' = [records EXCEPT ![i].exitSent = TRUE] /\ down' = Append(down, new)
      /\ UNCHANGED <<epoch, policy, nextSnapshot, resetRequired>>
      /\ clientEpoch' = clientEpoch /\ replicas' = replicas /\ world' = world
      /\ states' = states /\ receipts' = receipts /\ up' = up /\ Unsent(old)
  BY Zenon, <1>0 DEF SendFence, MarkFenceSent, UnsentFence, Unsent, OwnFence, clientVars, game
<1>2. /\ Types /\ records \in [Indexes -> ServerRecord] /\ nextSnapshot \in Nat \ {0}
      /\ epoch \in Nat /\ clientEpoch \in Nat /\ clientEpoch <= epoch
      /\ down \in Seq(FenceMessage \cup ResetMessage)
  BY Zenon, Parts DEF Types, ServerTypes, ClientTypes, NetTypes
<1>3. /\ old \in ServerRecord /\ replicas[i] \in ClientRecord
      /\ RecordOk(old, nextSnapshot) /\ ReplicaOk(replicas[i])
      /\ new \in FenceMessage
  BY Zenon, <1>0, <1>2, RecordTypes, Parts DEF RecordsOk, ReplicasOk
<1>4. /\ s \in ServerRecord /\ s.phase = old.phase /\ s.exitSent = TRUE
      /\ s.generation = old.generation /\ s.scope = old.scope
      /\ s.representation = old.representation /\ s.destroyed = old.destroyed
      /\ s.desired = old.desired /\ s.decoded = old.decoded
  BY Zenon, <1>3 DEF ServerRecord
<1>5. /\ new.kind = (IF old.destroyed THEN "destroy" ELSE "exit")
      /\ new.scope.epoch = epoch /\ new.scope.index = i
      /\ new.scope.generation = old.generation /\ new.scope.scope = old.scope
      /\ new.scope.representation = old.representation
  BY Zenon, <1>0 DEF OwnFence, ScopeOf
<1>6. /\ records' \in [Indexes -> ServerRecord] /\ records'[i] = s
      /\ \A j \in Indexes : j # i => records'[j] = records[j]
  BY Zenon, <1>1, <1>2, <1>4
<1> HIDE DEF s
<1>7. /\ down' \in Seq(FenceMessage \cup ResetMessage)
      /\ DOMAIN down' = DOMAIN down \cup {n} /\ down'[n] = new
      /\ n \in Nat /\ \A k \in DOMAIN down : down'[k] = down[k] /\ k \in Nat /\ k < n
  BY SMTT(30), <1>0, <1>1, <1>2, <1>3, LaneAppend
<1>8. ASSUME NEW j \in Indexes
      PROVE  /\ Moves(records[j], records'[j]) /\ RecordOk(records'[j], nextSnapshot)
  <2>1. CASE j = i
    <3>1. Moves(old, s)
      BY Zenon, <1>1, <1>4 DEF Moves, Kept, Unsent, Open
    <3>2. RecordOk(s, nextSnapshot)
      BY Zenon, <1>3, <1>4 DEF RecordOk, Open
    <3> QED BY Zenon, <1>6, <2>1, <3>1, <3>2
  <2>2. CASE j # i
    BY Zenon, <1>2, <1>6, <2>2, RecordTypes, KeptSame, Parts DEF RecordsOk
  <2> QED BY Zenon, <2>1, <2>2
<1>9. /\ \A m \in states : StateOk(m, epoch, records'[m.scope.index])
      /\ \A k \in DOMAIN down : IsFence(k) =>
           FenceOk(down[k], epoch, records'[down[k].scope.index])
      /\ epoch = clientEpoch =>
           \A j \in Indexes : NotAhead(replicas[j], records'[j])
  BY Zenon, <1>6, <1>8, RecordsMove
<1>10. old.generation # 0 /\ old.scope # 0 /\ old.phase = "Leaving"
  BY Zenon, <1>1, <1>3 DEF RecordOk, Unsent
<1>11. Types'
  BY Zenon, <1>1, <1>6, <1>7, Parts DEF Types, ServerTypes, ClientTypes, NetTypes
<1>12. ServerInv'
  BY Zenon, <1>1, <1>8, <1>9, Parts DEF ServerInv, RecordsOk, StatesOk, StatesAgree
<1>13. IsFence(n)' /\ \A k \in DOMAIN down : IsFence(k)' <=> IsFence(k)
  BY Zenon, <1>5, <1>7 DEF IsFence
<1>14. LaneOk'
  <2>1. FenceOk(new, epoch, s)
    <3>1. old.generation \in Nat /\ old.scope \in Nat
      BY Zenon, <1>3 DEF ServerRecord
    <3>2. Issued(new.scope, s)
      BY <1>4, <1>5, <3>1 DEF Issued
    <3>3. ~Open(s) /\ ~Unsent(s)
      BY Zenon, <1>4, <1>10 DEF Open, Unsent
    <3>4. new.kind = "destroy" => s.destroyed
      BY Zenon, <1>4, <1>5
    <3>5. new.scope.generation # 0 /\ new.scope.scope # 0
      BY Zenon, <1>5, <1>10
    <3> QED BY Zenon, <3>2, <3>3, <3>4, <3>5 DEF FenceOk
  <2>2. new.scope.epoch <= epoch
    BY SMTT(30), <1>2, <1>5
  <2> QED BY ZenonT(30), <1>1, <1>5, <1>6, <1>7, <1>9, <1>13, <2>1, <2>2, Parts DEF LaneOk
<1>15. LaneAgrees'
  <2>1. ASSUME NEW m \in states, Twins(new.scope, m.scope)
        PROVE  Alike(new.scope, m.scope)
    <3>1. StateOk(m, epoch, old)
      BY Zenon, <1>5, <2>1, Parts DEF StatesOk, Twins
    <3> QED BY Zenon, <1>5, <2>1, <3>1 DEF StateOk, Issued, Twins, Alike
  <2>2. ASSUME NEW k \in DOMAIN down, down[k].kind = "exit", Twins(down[k].scope, new.scope)
        PROVE  Alike(down[k].scope, new.scope) /\ Alike(new.scope, down[k].scope)
    <3>1. FenceOk(down[k], epoch, old)
      BY Zenon, <1>5, <2>2, Parts DEF LaneOk, Twins, IsFence
    <3> QED BY Zenon, <1>5, <2>2, <3>1 DEF FenceOk, Issued, Twins, Alike
  <2>3. \A k \in DOMAIN down : Twins(new.scope, down[k].scope) => Twins(down[k].scope, new.scope)
    BY Zenon DEF Twins
  <2>4. Alike(new.scope, new.scope)
    BY Zenon DEF Alike
  <2>5. (\A k \in DOMAIN down, m \in states :
           down[k].kind = "exit" /\ Twins(down[k].scope, m.scope) =>
             Alike(down[k].scope, m.scope))'
    BY SMTT(30), <1>1, <1>7, <2>1, Parts DEF LaneAgrees
  <2>6. (\A j, k \in DOMAIN down :
           /\ down[j].kind = "exit" /\ down[k].kind = "exit"
           /\ Twins(down[j].scope, down[k].scope)
           => Alike(down[j].scope, down[k].scope))'
    BY Zenon, <1>7, <2>2, <2>3, <2>4, Parts DEF LaneAgrees
  <2> QED BY Zenon, <2>5, <2>6 DEF LaneAgrees
<1>16. LaneOrder'
  <2>1. ASSUME NEW j \in DOMAIN down, down[j].kind = "destroy",
               down[j].scope.epoch = epoch, down[j].scope.index = i
        PROVE  old.generation > down[j].scope.generation
    <3>1. IsFence(j)
      BY Zenon, <2>1 DEF IsFence
    <3>2. FenceOk(down[j], epoch, old) /\ down[j] \in FenceMessage
      BY Zenon, <1>2, <2>1, <3>1, LaneTypes, Parts DEF LaneOk
    <3> QED BY SMTT(30), <1>1, <1>3, <2>1, <3>2
            DEF FenceOk, Issued, FenceMessage, Identity, ServerRecord
  <2> SUFFICES ASSUME NEW j \in DOMAIN down', NEW k \in DOMAIN down',
                      j < k, down'[j].kind = "destroy", IsFence(k)',
                      down'[j].scope.epoch = down'[k].scope.epoch,
                      down'[j].scope.index = down'[k].scope.index
               PROVE  down'[k].scope.generation > down'[j].scope.generation
    BY Zenon DEF LaneOrder
  <2>2. j \in DOMAIN down
    BY SMTT(30), <1>7
  <2>3. CASE k = n
    BY Zenon, <1>5, <1>7, <2>1, <2>2, <2>3
  <2>4. CASE k \in DOMAIN down
    BY Zenon, <1>7, <1>13, <2>2, <2>4, Parts DEF LaneOrder
  <2> QED BY Zenon, <1>7, <2>3, <2>4
<1>17. LaneResets'
  <2>1. clientEpoch < epoch =>
          \E k \in DOMAIN down : ~IsFence(k) /\ down[k].scope.epoch = epoch
    BY Zenon, Parts DEF LaneResets
  <2>2. ASSUME NEW k \in DOMAIN down', IsFence(k)', down'[k].scope.epoch > clientEpoch
        PROVE  \E j \in DOMAIN down' : /\ j < k /\ ~IsFence(j)'
                                       /\ down'[j].scope.epoch = down'[k].scope.epoch
    <3>1. CASE k = n
      BY SMTT(30), <1>2, <1>5, <1>7, <1>13, <2>1, <2>2, <3>1
    <3>2. CASE k \in DOMAIN down
      <4>1. PICK j \in DOMAIN down : /\ j < k /\ ~IsFence(j)
                                     /\ down[j].scope.epoch = down[k].scope.epoch
        BY Zenon, <1>7, <1>13, <2>2, <3>2, Parts DEF LaneResets
      <4> QED BY Zenon, <1>7, <1>13, <3>2, <4>1
    <3> QED BY Zenon, <1>7, <3>1, <3>2
  <2>3. clientEpoch' < epoch' =>
          \E k \in DOMAIN down' : ~IsFence(k)' /\ down'[k].scope.epoch = epoch'
    BY Zenon, <1>1, <1>7, <1>13, <2>1
  <2> QED BY Zenon, <1>1, <2>2, <2>3 DEF LaneResets
<1>18. ClientInv'
  <2>1. ReplicasOk' /\ ReplicasNotAhead' /\ StatesFit'
    BY Zenon, <1>1, <1>9, Parts DEF ReplicasOk, ReplicasNotAhead, StatesFit
  <2>2. ASSUME epoch = clientEpoch PROVE FenceFits(new, replicas[i])
    <3>1. NotAhead(replicas[i], old)
      BY Zenon, <2>2, Parts DEF ReplicasNotAhead
    <3> QED BY SMTT(30), <1>1, <1>3, <1>5, <3>1
            DEF FenceFits, NotAhead, Issued, Alike, ReplicaOk, ClientRecord, ServerRecord
  <2>3. FencesFit'
    BY SMTT(30), <1>1, <1>5, <1>7, <1>13, <2>2, Parts DEF FencesFit
  <2> QED BY Zenon, <2>1, <2>3 DEF ClientInv
<1>19. AnswersInv'
  BY Zenon, <1>1, Parts DEF AnswersInv, AcksPast, ReceiptsReached
<1>20. EndedOk'
  <2> SUFFICES ASSUME ~resetRequired, NEW j \in Indexes
               PROVE  SentOk(j)' /\ ForgottenOk(j)'
    BY Zenon, <1>1 DEF EndedOk
  <2>1. CASE j = i
    <3>1. OwnFence(i)' = new
      BY Zenon, <1>0, <1>1, <1>4, <1>6 DEF OwnFence, ScopeOf
    <3>2. SentOk(i)'
      BY Zenon, <1>7, <3>1 DEF SentOk
    <3>3. ForgottenOk(i)'
      BY Zenon, <1>4, <1>6, <1>10 DEF ForgottenOk
    <3> QED BY Zenon, <2>1, <3>2, <3>3
  <2>2. CASE j # i
    <3>1. SentOk(j) /\ ForgottenOk(j) /\ records'[j] = records[j]
      BY Zenon, <1>6, <2>2, Parts DEF EndedOk
    <3>2. OwnFence(j)' = OwnFence(j)
      BY Zenon, <1>1, <3>1 DEF OwnFence, ScopeOf
    <3>3. SentOk(j)'
      BY Zenon, <1>1, <1>7, <3>1, <3>2 DEF SentOk
    <3>4. ForgottenOk(j)'
      BY Zenon, <1>1, <3>1 DEF ForgottenOk, Known
    <3> QED BY Zenon, <3>3, <3>4
  <2> QED BY Zenon, <2>1, <2>2
<1>21. DecodedOk'
  BY SMTT(30), <1>1, <1>4, <1>6, <1>10, Parts DEF DecodedOk, Open
<1>22. UsedOk'
  <2>1. Known(i) /\ \A j \in Indexes : Known(j)' => Known(j)
    BY Zenon, <1>4, <1>6, <1>10 DEF Known
  <2>2. \A e \in Nat : Used(e)' \subseteq Used(e)
    BY SMTT(30), <1>1, <1>5, <1>7, <1>13, <2>1 DEF Used, Have
  <2> QED BY Zenon, <2>2, UsedLess, Parts
<1> QED BY SMTT(30), <1>11, <1>12, <1>14, <1>15, <1>16, <1>17, <1>18, <1>19, <1>20, <1>21, <1>22
        DEF ScopesInv, LaneInv

\* The server starts over under a new connection epoch.
LEMMA ResetInv ==
  ASSUME ScopesInv, ResetStep
  PROVE  ScopesInv'
<1>0. PICK new, n : new = [kind |-> "reset", scope |-> [epoch |-> epoch + 1]]
                    /\ n = Len(down) + 1
  BY Zenon
<1>1. /\ records' = [i \in Indexes |-> NoDelivery] /\ down' = Append(down, new)
      /\ epoch' = epoch + 1 /\ policy' = policy /\ nextSnapshot' = 1
      /\ resetRequired' = FALSE
      /\ clientEpoch' = clientEpoch /\ replicas' = replicas /\ world' = world
      /\ states' = states /\ receipts' = receipts /\ up' = up
  BY Zenon, <1>0 DEF ResetStep, ServerReset, clientVars
<1>2. /\ Types /\ epoch \in Nat /\ clientEpoch \in Nat /\ clientEpoch <= epoch
      /\ down \in Seq(FenceMessage \cup ResetMessage)
  BY Zenon, Parts DEF Types, ServerTypes, ClientTypes, NetTypes
<1>3. /\ new \in ResetMessage /\ new.kind = "reset" /\ new.scope.epoch = epoch + 1
      /\ epoch + 1 \in Nat /\ clientEpoch < epoch + 1
  BY SMTT(30), <1>0, <1>2 DEF ResetMessage
<1>4. /\ down' \in Seq(FenceMessage \cup ResetMessage)
      /\ DOMAIN down' = DOMAIN down \cup {n} /\ down'[n] = new
      /\ n \in Nat /\ \A k \in DOMAIN down : down'[k] = down[k] /\ k \in Nat /\ k < n
  <2>1. new \in FenceMessage \cup ResetMessage
    BY Zenon, <1>3
  <2> QED BY SMTT(30), <1>0, <1>1, <1>2, <2>1, LaneAppend
<1>5. /\ NoDelivery \in ServerRecord /\ NoDelivery.generation = 0
      /\ NoDelivery.phase = "Forgotten"
  BY Zenon DEF NoDelivery, ServerRecord, NoPublication, Numbered, Phases
<1>6. \A i \in Indexes : records'[i] = NoDelivery /\ ~Known(i)'
  BY Zenon, <1>1, <1>5 DEF Known
<1>7. ~IsFence(n)' /\ \A k \in DOMAIN down : IsFence(k)' <=> IsFence(k)
  BY Zenon, <1>3, <1>4 DEF IsFence
<1>8. /\ \A m \in states : m.scope.epoch <= epoch /\ m.scope.epoch \in Nat
      /\ \A k \in DOMAIN down : down[k].scope.epoch <= epoch /\ down[k].scope.epoch \in Nat
  <2>1. \A m \in states : m.scope.epoch <= epoch
    BY Zenon, Parts DEF StatesOk, StateOk
  <2>2. \A m \in states : m.scope.epoch \in Nat
    BY Zenon, <1>2, MessageTypes
  <2>3. \A k \in DOMAIN down : down[k].scope.epoch <= epoch
    BY Zenon, Parts DEF LaneOk
  <2> QED BY Zenon, <1>2, <2>1, <2>2, <2>3, LaneTypes
<1>9. Types'
  <2>1. ServerTypes'
    <3>1. ServerTypes
      BY Zenon, <1>2 DEF Types
    <3>2. records' \in [Indexes -> ServerRecord]
      BY Zenon, <1>1, <1>5
    <3>3. resetRequired' \in BOOLEAN
      BY Zenon, <1>1
    <3>4. epoch' \in Nat /\ nextSnapshot' \in Nat \ {0}
      BY <1>1, <1>3
    <3>5. /\ policy' \in Nat \ {0}
          /\ world' \in [Indexes -> [generation : Nat \ {0}, version : Nat,
                                     alive : BOOLEAN]]
      BY Zenon, <1>1, <3>1 DEF ServerTypes
    <3> QED BY Zenon, <3>2, <3>3, <3>4, <3>5 DEF ServerTypes
  <2>2. ClientTypes' /\ NetTypes'
    BY SMTT(30), <1>1, <1>2, <1>4, Parts DEF Types, ClientTypes, NetTypes
  <2> QED BY Zenon, <2>1, <2>2 DEF Types
<1>10. ServerInv'
  <2>1. RecordsOk'
    BY Zenon, <1>5, <1>6 DEF RecordsOk, RecordOk, Open
  <2>2. StatesOk'
    <3> SUFFICES ASSUME NEW m \in states
                 PROVE  StateOk(m, epoch + 1, records'[m.scope.index])
      BY Zenon, <1>1 DEF StatesOk
    <3>1. StateOk(m, epoch, records[m.scope.index])
      BY Zenon, Parts DEF StatesOk
    <3>2. m.scope.epoch <= epoch + 1 /\ m.scope.epoch # epoch + 1
      BY <1>2, <1>8
    <3> QED BY Zenon, <3>1, <3>2 DEF StateOk
  <2>3. StatesAgree'
    BY Zenon, <1>1, Parts DEF StatesAgree
  <2> QED BY Zenon, <2>1, <2>2, <2>3 DEF ServerInv
<1>11. LaneOk'
  <2> SUFFICES ASSUME NEW k \in DOMAIN down'
               PROVE  /\ down'[k].scope.epoch <= epoch'
                      /\ IsFence(k)' =>
                           FenceOk(down'[k], epoch', records'[down'[k].scope.index])
    BY Zenon DEF LaneOk
  <2>1. CASE k = n
    BY SMTT(30), <1>1, <1>3, <1>4, <1>7, <2>1
  <2>2. CASE k \in DOMAIN down
    <3>1. IsFence(k) => FenceOk(down[k], epoch, records[down[k].scope.index])
      BY Zenon, <2>2, Parts DEF LaneOk
    <3>2. /\ down'[k] = down[k] /\ epoch' = epoch + 1
          /\ IsFence(k)' <=> IsFence(k)
          /\ down[k].scope.epoch <= epoch /\ down[k].scope.epoch \in Nat
      BY Zenon, <1>1, <1>4, <1>7, <1>8, <2>2
    <3>3. down'[k].scope.epoch <= epoch' /\ down'[k].scope.epoch # epoch'
      BY <1>2, <3>2
    <3>4. IsFence(k)' => down'[k].scope.generation # 0 /\ down'[k].scope.scope # 0
      BY Zenon, <3>1, <3>2 DEF FenceOk
    <3> QED BY Zenon, <3>3, <3>4 DEF FenceOk
  <2> QED BY Zenon, <1>4, <2>1, <2>2
<1>12. LaneAgrees'
  <2>1. \A k \in DOMAIN down' : down'[k].kind = "exit" =>
          k \in DOMAIN down /\ down'[k] = down[k]
    BY Zenon, <1>3, <1>4
  <2>2. (\A k \in DOMAIN down, m \in states :
           down[k].kind = "exit" /\ Twins(down[k].scope, m.scope) =>
             Alike(down[k].scope, m.scope))'
    BY Zenon, <1>1, <2>1, Parts DEF LaneAgrees
  <2>3. (\A j, k \in DOMAIN down :
           /\ down[j].kind = "exit" /\ down[k].kind = "exit"
           /\ Twins(down[j].scope, down[k].scope)
           => Alike(down[j].scope, down[k].scope))'
    BY Zenon, <2>1, Parts DEF LaneAgrees
  <2> QED BY Zenon, <2>2, <2>3 DEF LaneAgrees
<1>13. LaneOrder'
  <2> SUFFICES ASSUME NEW j \in DOMAIN down', NEW k \in DOMAIN down',
                      j < k, down'[j].kind = "destroy", IsFence(k)',
                      down'[j].scope.epoch = down'[k].scope.epoch,
                      down'[j].scope.index = down'[k].scope.index
               PROVE  down'[k].scope.generation > down'[j].scope.generation
    BY Zenon DEF LaneOrder
  <2>1. j \in DOMAIN down /\ k \in DOMAIN down
    BY Zenon, <1>3, <1>4, <1>7
  <2> QED BY Zenon, <1>4, <1>7, <2>1, Parts DEF LaneOrder
<1>14. LaneResets'
  <2>1. ASSUME NEW k \in DOMAIN down', IsFence(k)', down'[k].scope.epoch > clientEpoch
        PROVE  \E j \in DOMAIN down' : /\ j < k /\ ~IsFence(j)'
                                       /\ down'[j].scope.epoch = down'[k].scope.epoch
    <3>1. k \in DOMAIN down
      BY Zenon, <1>4, <1>7, <2>1
    <3>2. PICK j \in DOMAIN down : /\ j < k /\ ~IsFence(j)
                                   /\ down[j].scope.epoch = down[k].scope.epoch
      BY Zenon, <1>4, <1>7, <2>1, <3>1, Parts DEF LaneResets
    <3> QED BY Zenon, <1>4, <1>7, <3>1, <3>2
  <2>2. \E k \in DOMAIN down' : ~IsFence(k)' /\ down'[k].scope.epoch = epoch'
    BY Zenon, <1>1, <1>3, <1>4, <1>7
  <2> QED BY Zenon, <1>1, <2>1, <2>2 DEF LaneResets
<1>15. ClientInv'
  <2>1. ReplicasOk' /\ StatesFit'
    BY Zenon, <1>1, Parts DEF ReplicasOk, StatesFit
  <2>2. ReplicasNotAhead'
    BY SMTT(30), <1>1, <1>2, <1>3 DEF ReplicasNotAhead
  <2>3. FencesFit'
    BY Zenon, <1>1, <1>4, <1>7, Parts DEF FencesFit
  <2> QED BY Zenon, <2>1, <2>2, <2>3 DEF ClientInv
<1>16. AnswersInv'
  BY Zenon, <1>1, Parts DEF AnswersInv, AcksPast, ReceiptsReached
<1>17. EndedOk' /\ DecodedOk'
  BY Zenon, <1>5, <1>6 DEF EndedOk, SentOk, ForgottenOk, DecodedOk, Open
<1>18. UsedOk'
  <2>1. \A e \in Nat : Used(e)' \subseteq Used(e)
    BY Zenon, <1>1, <1>4, <1>6, <1>7 DEF Used, Have
  <2> QED BY Zenon, <2>1, UsedLess, Parts
<1> QED BY Zenon, <1>9, <1>10, <1>11, <1>12, <1>13, <1>14, <1>15, <1>16, <1>17, <1>18
        DEF ScopesInv, LaneInv

=============================================================================
