----------------------- MODULE ScopeReplicationProofs -----------------------
(***************************************************************************)
(* What the scoped replication of one peer guarantees for every number of  *)
(* entities, generations, publications and connection epochs, and every    *)
(* limit: the client's fences only advance, no message of the server is a  *)
(* conflict to the client, what the server has ended is withdrawn, and     *)
(* what the server holds as decoded is shown.                              *)
(*                                                                         *)
(* The inductive invariant and the steps of the server are in              *)
(* ScopeServerProofs.  Here are the steps of the client and the theorems.  *)
(***************************************************************************)
EXTENDS ScopeServerProofs

-----------------------------------------------------------------------------
(* Steps of the client.                                                     *)

\* What the lane to the client keeps when its first message is taken off.
LEMMA LaneShrinks ==
  ASSUME ScopesInv, down # <<>>, down' = Tail(down), epoch' = epoch,
         records' = records, states' = states
  PROVE  /\ down' \in Seq(FenceMessage \cup ResetMessage)
         /\ LaneOk' /\ LaneAgrees' /\ LaneOrder'
         /\ 1 \in DOMAIN down /\ Head(down) = down[1]
         /\ \A k \in DOMAIN down' : /\ k \in Nat \ {0} /\ k + 1 \in DOMAIN down
                                    /\ down'[k] = down[k + 1]
                                    /\ IsFence(k)' <=> IsFence(k + 1)
         /\ \A k \in DOMAIN down : /\ k \in Nat \ {0}
                                   /\ k # 1 => /\ k - 1 \in DOMAIN down'
                                               /\ down'[k - 1] = down[k]
                                               /\ IsFence(k - 1)' <=> IsFence(k)
<1>1. down \in Seq(FenceMessage \cup ResetMessage)
  BY Zenon, Parts DEF Types, NetTypes
<1>2. /\ down' \in Seq(FenceMessage \cup ResetMessage)
      /\ 1 \in DOMAIN down /\ Head(down) = down[1]
      /\ DOMAIN down \subseteq Nat \ {0} /\ DOMAIN down' \subseteq Nat \ {0}
      /\ \A k \in DOMAIN down' : k + 1 \in DOMAIN down /\ down'[k] = down[k + 1]
      /\ \A k \in DOMAIN down : k # 1 => k - 1 \in DOMAIN down' /\ down'[k - 1] = down[k]
  BY <1>1, LaneTail
<1>3. /\ \A k \in DOMAIN down' : IsFence(k)' <=> IsFence(k + 1)
      /\ \A k \in DOMAIN down : k # 1 => (IsFence(k - 1)' <=> IsFence(k))
  BY <1>2 DEF IsFence
<1>4. LaneOk'
  BY <1>2, <1>3, Parts DEF LaneOk
<1>5. LaneAgrees'
  <2>1. (\A k \in DOMAIN down, m \in states :
           down[k].kind = "exit" /\ Twins(down[k].scope, m.scope) =>
             Alike(down[k].scope, m.scope))'
    BY <1>2, Parts DEF LaneAgrees
  <2>2. (\A j, k \in DOMAIN down :
           /\ down[j].kind = "exit" /\ down[k].kind = "exit"
           /\ Twins(down[j].scope, down[k].scope)
           => Alike(down[j].scope, down[k].scope))'
    BY SMTT(30), <1>2, Parts DEF LaneAgrees
  <2> QED BY <2>1, <2>2 DEF LaneAgrees
<1>6. LaneOrder'
  <2> SUFFICES ASSUME NEW j \in DOMAIN down', NEW k \in DOMAIN down',
                      j < k, down'[j].kind = "destroy", IsFence(k)',
                      down'[j].scope.epoch = down'[k].scope.epoch,
                      down'[j].scope.index = down'[k].scope.index
               PROVE  down'[k].scope.generation > down'[j].scope.generation
    BY Zenon DEF LaneOrder
  <2>1. j + 1 < k + 1
    BY <1>2
  <2> QED BY SMTT(30), <1>2, <1>3, <2>1, Parts DEF LaneOrder
<1> QED BY SMTT(30), <1>2, <1>3, <1>4, <1>5, <1>6

\* There is room for a fence at every index that the client's connection epoch
\* has used.
LEMMA HasRoom ==
  ASSUME ScopesInv, NEW i \in Used(clientEpoch)
  PROVE  CapacityFor(i)
<1> DEFINE H == {j \in Indexes : Have(j)}
           U == Used(clientEpoch)
<1> SUFFICES ASSUME ~Have(i) PROVE Cardinality(H) < KnownEntities
  BY Zenon DEF CapacityFor
<1>1. IsFiniteSet(Indexes) /\ KnownEntities \in Nat
  BY Zenon, ScopeLimitsAssumption
<1>2. Cardinality(U) <= KnownEntities
  BY Zenon, Parts DEF UsedOk, Types, ClientTypes
<1>3. U \in SUBSET Indexes /\ H \in SUBSET U /\ H # U
  BY Zenon DEF Used
<1> HIDE DEF H, U
<1>4. IsFiniteSet(U)
  BY Zenon, <1>1, <1>3, FS_Subset
<1>5. /\ IsFiniteSet(H) /\ Cardinality(H) <= Cardinality(U)
      /\ Cardinality(H) # Cardinality(U)
  BY Zenon, <1>3, <1>4, FS_Subset
<1>6. Cardinality(U) \in Nat /\ Cardinality(H) \in Nat
  BY SMTT(30), <1>4, <1>5, FS_CardinalityType
<1> QED BY <1>1, <1>2, <1>5, <1>6

LEMMA NoContradiction ==
  ASSUME NEW c \in ClientRecord, ReplicaOk(c), NEW m \in StateMessage,
         m.scope.generation # 0, StateFits(m, c), ~Fenced(c, m.scope)
  PROVE  ~Contradicts(c, m.scope, m.state)
BY DEF ReplicaOk, StateFits, Alike, Consistent, Fenced, Contradicts, SameScope,
       ClientRecord, StateMessage, Identity, Numbered

\* The parts of a fence at the head of the lane that the client's answer needs.
LEMMA HeadFacts ==
  ASSUME ScopesInv, down # <<>>, NEW f, f = Head(down), f.kind # "reset"
  PROVE  /\ f = down[1] /\ 1 \in DOMAIN down /\ IsFence(1) /\ f \in FenceMessage
         /\ f.scope.index \in Indexes /\ f.scope \in Identity
         /\ f.scope.epoch <= clientEpoch
         /\ FenceOk(f, epoch, records[f.scope.index])
         /\ f.scope.epoch = clientEpoch =>
              /\ FenceFits(f, replicas[f.scope.index])
              /\ f.scope.index \in Used(clientEpoch)
              /\ CapacityFor(f.scope.index)
<1>1. Types /\ down \in Seq(FenceMessage \cup ResetMessage) /\ clientEpoch \in Nat
  BY Zenon, Parts DEF Types, NetTypes, ClientTypes
<1>2. f = down[1] /\ 1 \in DOMAIN down /\ IsFence(1)
  BY <1>1, LaneTail DEF IsFence
<1>3. f \in FenceMessage
  BY <1>1, <1>2, LaneTypes
<1>4. f.scope.index \in Indexes /\ f.scope \in Identity /\ f.scope.epoch \in Nat
  BY Zenon, <1>3 DEF FenceMessage, Identity
<1>5. FenceOk(f, epoch, records[f.scope.index])
  BY Zenon, <1>2, Parts DEF LaneOk
<1>6. f.scope.epoch <= clientEpoch
  <2>1. f.scope.epoch > clientEpoch => \E j \in DOMAIN down : j < 1
    BY Zenon, <1>2, Parts DEF LaneResets
  <2>2. \A j \in DOMAIN down : ~(j < 1)
    BY <1>1, LaneTypes
  <2> QED BY SMTT(30), <1>1, <1>4, <2>1, <2>2
<1>7. ASSUME f.scope.epoch = clientEpoch
      PROVE  /\ FenceFits(f, replicas[f.scope.index])
             /\ f.scope.index \in Used(clientEpoch)
             /\ CapacityFor(f.scope.index)
  <2>1. FenceFits(f, replicas[f.scope.index])
    BY SMTT(30), <1>2, <1>7, Parts DEF FencesFit
  <2>2. f.scope.index \in Used(clientEpoch)
    BY <1>2, <1>4, <1>7 DEF Used
  <2> QED BY Zenon, <2>1, <2>2, HasRoom
<1> QED BY Zenon, <1>2, <1>3, <1>4, <1>5, <1>6, <1>7

\* The invariant rules out conflicts.
LEMMA NeverConflicts ==
  ASSUME ScopesInv
  PROVE  ClientNeverConflicts
<1>1. ASSUME NEW m \in states PROVE Judge(m.scope.index, m.scope, m.state) # "Conflict"
  <2> DEFINE c == replicas[m.scope.index]
  <2>1. Types
    BY Zenon, Parts
  <2>2. m \in StateMessage /\ m.scope.index \in Indexes
    BY Zenon, <2>1, MessageTypes
  <2>3. c \in ClientRecord /\ ReplicaOk(c) /\ m.scope.generation # 0
    BY SMTT(30), <2>1, <2>2, RecordTypes, Parts DEF ReplicasOk, StatesOk, StateOk
  <2>4. m.scope.epoch = clientEpoch => StateFits(m, c)
    BY Zenon, Parts DEF StatesFit
  <2>5. m.scope.epoch = clientEpoch /\ ~Fenced(c, m.scope) =>
          ~Contradicts(c, m.scope, m.state)
    <3> HIDE DEF c
    <3> QED BY SMTT(30), <2>2, <2>3, <2>4, NoContradiction
  <2> QED BY Zenon, <2>5 DEF Judge, Stale
<1>2. ASSUME NEW f, down # <<>>, f = Head(down), f.kind # "reset",
             f.scope.epoch = clientEpoch
      PROVE  Answered(f)
  <2> DEFINE i == f.scope.index
             c == replicas[i]
  <2>1. /\ f \in FenceMessage /\ i \in Indexes /\ FenceFits(f, c) /\ CapacityFor(i)
        /\ f.scope.generation # 0 /\ f.scope \in Identity
    BY <1>2, HeadFacts DEF FenceOk
  <2>2. c \in ClientRecord
    BY Zenon, <2>1, RecordTypes, Parts
  <2>3. CASE f.kind = "destroy"
    BY Zenon, <1>2, <2>1, <2>3 DEF Answered
  <2>4. CASE f.kind = "exit"
    <3>1. ~(SameScope(c, f.scope) /\ f.scope.representation # c.representation)
           \/ f.scope.generation < c.generation
      <4> HIDE DEF c
      <4> QED BY SMTT(30), <2>1, <2>2, <2>4 DEF SameScope, FenceFits, Alike, ClientRecord, Identity
    <3> QED BY Zenon, <1>2, <2>1, <2>4, <3>1 DEF Answered, JudgeExit, Stale
  <2> QED BY Zenon, <2>1, <2>3, <2>4 DEF FenceMessage
<1> QED BY Zenon, <1>1, <1>2 DEF ClientNeverConflicts

\* One replica advances to d: what is kept whatever the lanes do.
LEMMA ReplicaStep ==
  ASSUME ScopesInv, NEW i \in Indexes, NEW d \in ClientRecord,
         replicas' = [replicas EXCEPT ![i] = d], Advances(replicas[i], d), ReplicaOk(d),
         epoch = clientEpoch => NotAhead(d, records[i]),
         \A m \in states : m.scope.epoch = clientEpoch /\ m.scope.index = i =>
           StateFits(m, d),
         UNCHANGED <<epoch, records, clientEpoch, states>>
  PROVE  /\ replicas' \in [Indexes -> ClientRecord]
         /\ ReplicasOk' /\ ReplicasNotAhead' /\ StatesFit' /\ DecodedOk'
         /\ \A k \in DOMAIN up : up[k].scope.epoch = clientEpoch =>
              Past(replicas'[up[k].scope.index], up[k])
         /\ \A m \in receipts : m.scope.epoch = clientEpoch =>
              Reached(replicas'[m.scope.index], m)
         /\ \A j \in Indexes : epoch = clientEpoch /\ Known(j)
                               /\ Done(replicas[j], records[j]) =>
              Done(replicas'[j], records[j])
         /\ \A j \in Indexes : Have(j)' => Have(j) \/ (j = i /\ d.generation # 0)
<1>1. /\ Types /\ replicas \in [Indexes -> ClientRecord]
      /\ \A j \in Indexes : replicas[j] \in ClientRecord /\ records[j] \in ServerRecord
  BY RecordTypes, Parts DEF Types, ClientTypes
<1>2. /\ replicas' \in [Indexes -> ClientRecord] /\ replicas'[i] = d
      /\ \A j \in Indexes : j # i => replicas'[j] = replicas[j]
  BY Zenon, <1>1
<1>3. \A j \in Indexes : Advances(replicas[j], replicas'[j]) /\ replicas'[j] \in ClientRecord
  BY <1>1, <1>2, AdvancesSame
<1>4. ReplicasOk'
  BY Zenon, <1>2, Parts DEF ReplicasOk
<1>5. ReplicasNotAhead'
  BY <1>2, Parts DEF ReplicasNotAhead
<1>6. StatesFit'
  <2>1. \A m \in states : m.scope.index \in Indexes
    BY Zenon, <1>1, MessageTypes
  <2> QED BY <1>2, <2>1, Parts DEF StatesFit
<1>7. DecodedOk'
  <2> SUFFICES ASSUME NEW j \in Indexes, Open(records[j]),
                      records[j].decoded # NoPublication
               PROVE  epoch = clientEpoch /\ Showing(replicas'[j], records[j])
    BY Zenon DEF DecodedOk
  <2>1. epoch = clientEpoch /\ Showing(replicas[j], records[j])
    BY Zenon, Parts DEF DecodedOk
  <2>2. NotAhead(replicas'[j], records[j])
    BY <1>5, <2>1 DEF ReplicasNotAhead
  <2>3. records[j].generation # 0 /\ ~records[j].destroyed
    BY Zenon, Parts DEF RecordsOk, RecordOk, Open
  <2> QED BY SMTT(30), <1>1, <1>3, <2>1, <2>2, <2>3, StaysShowing
<1>8. ASSUME NEW k \in DOMAIN up, up[k].scope.epoch = clientEpoch
      PROVE  Past(replicas'[up[k].scope.index], up[k])
  <2>1. up[k] \in FenceMessage /\ up[k].scope.index \in Indexes
    BY Zenon, <1>1, AnswerTypes
  <2>2. Past(replicas[up[k].scope.index], up[k])
    BY Zenon, <1>8, Parts DEF AcksPast
  <2> QED BY SMTT(30), <1>1, <1>3, <2>1, <2>2, StaysPast
<1>9. ASSUME NEW m \in receipts, m.scope.epoch = clientEpoch
      PROVE  Reached(replicas'[m.scope.index], m)
  <2>1. m \in StateMessage /\ m.scope.index \in Indexes
    BY Zenon, <1>1, MessageTypes
  <2>2. Reached(replicas[m.scope.index], m)
    BY Zenon, <1>9, Parts DEF ReceiptsReached
  <2> QED BY SMTT(30), <1>1, <1>3, <2>1, <2>2, StaysReached
<1>10. ASSUME NEW j \in Indexes, epoch = clientEpoch, Known(j),
              Done(replicas[j], records[j])
       PROVE  Done(replicas'[j], records[j])
  <2>1. NotAhead(replicas'[j], records[j]) /\ ReplicaOk(replicas'[j])
    BY Zenon, <1>4, <1>5, <1>10 DEF ReplicasNotAhead, ReplicasOk
  <2> QED BY SMTT(30), <1>1, <1>3, <1>10, <2>1, StaysDone DEF Known
<1>11. \A j \in Indexes : Have(j)' => Have(j) \/ (j = i /\ d.generation # 0)
  BY Zenon, <1>2 DEF Have
<1> QED BY SMTT(30), <1>2, <1>4, <1>5, <1>6, <1>7, <1>8, <1>9, <1>10, <1>11

\* apply_full publishes a state.
LEMMA ReceiveStateInv ==
  ASSUME ScopesInv, NEW m \in states, ReceiveState(m)
  PROVE  ScopesInv' /\ ReplicasAdvance
<1> DEFINE i == m.scope.index
           d == Published(m)
           c == replicas[i]
<1>1. Types
  BY Zenon, Parts
<1>2. m \in StateMessage /\ i \in Indexes
  BY <1>1, MessageTypes
<1>3. /\ c \in ClientRecord /\ ReplicaOk(c) /\ records[i] \in ServerRecord
      /\ StateOk(m, epoch, records[i])
  BY SMTT(30), <1>1, <1>2, RecordTypes, Parts DEF ReplicasOk, StatesOk
<1>4. /\ m.scope.epoch = clientEpoch /\ ~Fenced(c, m.scope)
      /\ ~Contradicts(c, m.scope, m.state) /\ ~Superseded(c, m.scope, m.state)
  BY Zenon DEF ReceiveState, ApplyFull, Judge, Stale
<1>5. /\ replicas' = [replicas EXCEPT ![i] = d] /\ clientEpoch' = clientEpoch
      /\ receipts' = receipts \cup {m} /\ states' = states /\ down' = down /\ up' = up
      /\ UNCHANGED <<epoch, policy, records, nextSnapshot, resetRequired>>
      /\ world' = world
  BY Zenon DEF ReceiveState, ApplyFull, Published, serverVars, game
<1>6. /\ d \in ClientRecord /\ d.generation = m.scope.generation
      /\ d.scope = m.scope.scope /\ d.representation = m.scope.representation
      /\ d.closed = FALSE /\ d.destroyed = FALSE /\ d.state = m.state
  BY Zenon, <1>2 DEF Published, ClientRecord, StateMessage, Identity
<1>7. Advances(c, d)
  <2> HIDE DEF c
  <2> QED BY SMTT(30), <1>2, <1>3, <1>4, PublishAdvances
<1> HIDE DEF d
<1>8. ReplicaOk(d)
  BY SMTT(30), <1>3, <1>6 DEF ReplicaOk, StateOk
<1>9. epoch = clientEpoch => NotAhead(d, records[i])
  BY SMTT(30), <1>3, <1>4, <1>6 DEF NotAhead, StateOk, Issued
<1>10. ASSUME NEW n \in states, n.scope.epoch = clientEpoch, n.scope.index = i
       PROVE  StateFits(n, d)
  <2>1. Twins(n.scope, m.scope) => Alike(n.scope, m.scope) /\ Consistent(n.state, m.state)
    BY Zenon, Parts DEF StatesAgree
  <2> QED BY SMTT(30), <1>4, <1>6, <1>10, <2>1 DEF StateFits, Twins, Alike
<1>11. /\ replicas' \in [Indexes -> ClientRecord]
       /\ ReplicasOk' /\ ReplicasNotAhead' /\ StatesFit' /\ DecodedOk'
       /\ \A k \in DOMAIN up : up[k].scope.epoch = clientEpoch =>
            Past(replicas'[up[k].scope.index], up[k])
       /\ \A n \in receipts : n.scope.epoch = clientEpoch =>
            Reached(replicas'[n.scope.index], n)
       /\ \A j \in Indexes : epoch = clientEpoch /\ Known(j)
                             /\ Done(replicas[j], records[j]) =>
            Done(replicas'[j], records[j])
       /\ \A j \in Indexes : Have(j)' => Have(j) \/ (j = i /\ d.generation # 0)
  <2> HIDE DEF i
  <2> QED BY Zenon, <1>2, <1>5, <1>6, <1>7, <1>8, <1>9, <1>10, ReplicaStep
<1>12. replicas'[i] = d /\ \A j \in Indexes : j # i => replicas'[j] = replicas[j]
  BY Zenon, <1>1, <1>2, <1>5 DEF Types, ClientTypes
<1>13. Types'
  <2>1. receipts' \subseteq StateMessage
    BY Zenon, <1>1, <1>2, <1>5 DEF Types, NetTypes
  <2> QED BY SMTT(30), <1>1, <1>5, <1>11, <2>1 DEF Types, ServerTypes, ClientTypes, NetTypes
<1>14. ServerInv'
  BY Zenon, <1>5, Parts DEF ServerInv, RecordsOk, StatesOk, StatesAgree
<1>15. LaneInv'
  <2>1. LaneOk' /\ LaneOrder' /\ LaneResets'
    BY Zenon, <1>5, Parts DEF LaneOk, LaneOrder, LaneResets, IsFence
  <2>2. LaneAgrees'
    BY <1>5, Parts DEF LaneAgrees
  <2> QED BY Zenon, <2>1, <2>2 DEF LaneInv
<1>16. FencesFit'
  <2> SUFFICES ASSUME NEW k \in DOMAIN down, IsFence(k), down[k].scope.epoch = clientEpoch
               PROVE  FenceFits(down[k], replicas'[down[k].scope.index])
    BY Zenon, <1>5 DEF FencesFit, IsFence
  <2>1. CASE down[k].scope.index = i
    <3>1. down[k].kind = "exit" /\ Twins(down[k].scope, m.scope) =>
            Alike(down[k].scope, m.scope)
      BY Zenon, Parts DEF LaneAgrees
    <3>2. FenceFits(down[k], d)
      BY SMTT(30), <1>4, <1>6, <2>1, <3>1 DEF FenceFits, Twins, Alike
    <3> QED BY SMTT(30), <1>12, <2>1, <3>2
  <2>2. CASE down[k].scope.index # i
    <3>1. down[k].scope.index \in Indexes
      BY Zenon, <1>1, LaneTypes
    <3> QED BY SMTT(30), <1>12, <2>2, <3>1, Parts DEF FencesFit
  <2> QED BY Zenon, <2>1, <2>2
<1>17. AcksPast'
  BY Zenon, <1>5, <1>11, Parts DEF AcksPast
<1>18. ReceiptsReached'
  <2>1. Reached(d, m)
    BY <1>2, <1>6 DEF Reached, StateMessage, Numbered
  <2>2. m.scope.epoch <= clientEpoch
    BY <1>2, <1>4 DEF StateMessage, Identity
  <2> QED BY Zenon, <1>5, <1>11, <1>12, <2>1, <2>2, Parts DEF ReceiptsReached
<1>19. EndedOk'
  <2> SUFFICES ASSUME ~resetRequired, NEW j \in Indexes
               PROVE  SentOk(j)' /\ ForgottenOk(j)'
    BY Zenon, <1>5 DEF EndedOk
  <2>1. SentOk(j) /\ ForgottenOk(j) /\ OwnFence(j)' = OwnFence(j)
    BY Zenon, <1>5, Parts DEF EndedOk, OwnFence, ScopeOf
  <2>2. records[j].phase = "Leaving" => Known(j)
    BY Zenon, Parts DEF RecordsOk, RecordOk, Known
  <2>3. SentOk(j)'
    BY Zenon, <1>5, <1>11, <2>1, <2>2 DEF SentOk
  <2>4. ForgottenOk(j)'
    BY Zenon, <1>5, <1>11, <2>1 DEF ForgottenOk, Known
  <2> QED BY Zenon, <2>3, <2>4
<1>20. UsedOk'
  <2>1. i \in Used(clientEpoch)
    BY Zenon, <1>2, <1>4 DEF Used
  <2>2. \A e \in Nat : Used(e)' \subseteq Used(e)
    BY Zenon, <1>5, <1>11, <2>1 DEF Used, Known, IsFence
  <2> QED BY Zenon, <2>2, UsedLess, Parts
<1>21. ReplicasAdvance
  <2>1. \A j \in Indexes : replicas[j] \in ClientRecord
    BY SMTT(30), <1>1, RecordTypes
  <2> QED BY SMTT(30), <1>7, <1>12, <2>1, AdvancesSame DEF ReplicasAdvance
<1> QED BY SMTT(30), <1>11, <1>13, <1>14, <1>15, <1>16, <1>17, <1>18, <1>19, <1>20, <1>21
        DEF ScopesInv, ClientInv, AnswersInv

\* A fence f for index i is taken off its lane, and its replica advances to d.
FenceTaken(f, i, d) ==
  /\ down # <<>> /\ f = Head(down) /\ f.kind # "reset" /\ i = f.scope.index
  /\ replicas' = [replicas EXCEPT ![i] = d] /\ down' = Tail(down)
  /\ up' = up \/ (up' = Append(up, f) /\ f.scope.epoch = clientEpoch)
  /\ UNCHANGED <<epoch, policy, records, nextSnapshot, resetRequired, world>>
  /\ UNCHANGED <<clientEpoch, states, receipts>>
\* d is where the invariant allows the replica to be.
FenceLeaves(f, i, d) ==
  /\ Advances(replicas[i], d) /\ ReplicaOk(d)
  /\ epoch = clientEpoch => NotAhead(d, records[i])
  /\ \A m \in states : m.scope.epoch = clientEpoch /\ m.scope.index = i =>
       StateFits(m, d)
  /\ \A k \in DOMAIN down :
       /\ k # 1 /\ IsFence(k)
       /\ down[k].scope.epoch = clientEpoch /\ down[k].scope.index = i
       => FenceFits(down[k], d)
  /\ f.scope.epoch = clientEpoch => Past(d, f)
  /\ d.generation # 0 => i \in Used(clientEpoch)

LEMMA FenceStep ==
  ASSUME ScopesInv, NEW f, NEW i, NEW d \in ClientRecord,
         FenceTaken(f, i, d), FenceLeaves(f, i, d)
  PROVE  ScopesInv' /\ ReplicasAdvance
<1>a. /\ down # <<>> /\ f = Head(down) /\ f.kind # "reset" /\ i = f.scope.index
      /\ replicas' = [replicas EXCEPT ![i] = d] /\ down' = Tail(down)
      /\ up' = up \/ (up' = Append(up, f) /\ f.scope.epoch = clientEpoch)
  BY Zenon DEF FenceTaken
<1>b. /\ epoch' = epoch /\ policy' = policy /\ records' = records
      /\ nextSnapshot' = nextSnapshot /\ resetRequired' = resetRequired
      /\ world' = world /\ clientEpoch' = clientEpoch /\ states' = states
      /\ receipts' = receipts
  BY Zenon DEF FenceTaken
<1>1. /\ Types /\ epoch \in Nat /\ clientEpoch \in Nat /\ clientEpoch <= epoch
      /\ up \in Seq(FenceMessage)
  BY Zenon, Parts DEF Types, ServerTypes, ClientTypes, NetTypes
<1>2. /\ f = down[1] /\ 1 \in DOMAIN down /\ IsFence(1) /\ f \in FenceMessage
      /\ i \in Indexes /\ f.scope.epoch <= clientEpoch
  BY Zenon, <1>a, HeadFacts
<1>3. /\ down' \in Seq(FenceMessage \cup ResetMessage)
      /\ LaneOk' /\ LaneAgrees' /\ LaneOrder'
      /\ \A k \in DOMAIN down' : /\ k \in Nat \ {0} /\ k + 1 \in DOMAIN down
                                 /\ down'[k] = down[k + 1]
                                 /\ IsFence(k)' <=> IsFence(k + 1)
      /\ \A k \in DOMAIN down : /\ k \in Nat \ {0}
                                /\ k # 1 => /\ k - 1 \in DOMAIN down'
                                            /\ down'[k - 1] = down[k]
                                            /\ IsFence(k - 1)' <=> IsFence(k)
  BY Zenon, <1>a, <1>b, LaneShrinks
<1>4. /\ replicas' \in [Indexes -> ClientRecord]
      /\ ReplicasOk' /\ ReplicasNotAhead' /\ StatesFit' /\ DecodedOk'
      /\ \A k \in DOMAIN up : up[k].scope.epoch = clientEpoch =>
           Past(replicas'[up[k].scope.index], up[k])
      /\ \A m \in receipts : m.scope.epoch = clientEpoch =>
           Reached(replicas'[m.scope.index], m)
      /\ \A j \in Indexes : epoch = clientEpoch /\ Known(j)
                            /\ Done(replicas[j], records[j]) =>
           Done(replicas'[j], records[j])
      /\ \A j \in Indexes : Have(j)' => Have(j) \/ (j = i /\ d.generation # 0)
  <2>1. /\ Advances(replicas[i], d) /\ ReplicaOk(d)
        /\ epoch = clientEpoch => NotAhead(d, records[i])
        /\ \A m \in states : m.scope.epoch = clientEpoch /\ m.scope.index = i =>
             StateFits(m, d)
    BY Zenon DEF FenceLeaves
  <2> QED BY Zenon, <1>a, <1>b, <1>2, <2>1, ReplicaStep
<1>5. replicas'[i] = d /\ \A j \in Indexes : j # i => replicas'[j] = replicas[j]
  BY SMTT(30), <1>a, <1>1, <1>2 DEF Types, ClientTypes
<1>6. Types'
  <2>1. ServerTypes'
    BY Zenon, <1>b, <1>1 DEF Types, ServerTypes
  <2>2. ClientTypes'
    BY Zenon, <1>b, <1>1, <1>4 DEF Types, ClientTypes
  <2>3. up' \in Seq(FenceMessage)
    <3>1. Append(up, f) \in Seq(FenceMessage)
      BY Zenon, <1>1, <1>2, LaneAppend
    <3> QED BY Zenon, <1>a, <1>1, <3>1
  <2>4. NetTypes'
    BY SMTT(30), <1>b, <1>1, <1>3, <2>3 DEF Types, NetTypes
  <2> QED BY Zenon, <2>1, <2>2, <2>4 DEF Types
<1>7. ServerInv'
  BY SMTT(30), <1>b, Parts DEF ServerInv, RecordsOk, StatesOk, StatesAgree
<1>8. LaneResets'
  <2>1. ASSUME NEW k \in DOMAIN down', IsFence(k)', down'[k].scope.epoch > clientEpoch
        PROVE  \E j \in DOMAIN down' : /\ j < k /\ ~IsFence(j)'
                                       /\ down'[j].scope.epoch = down'[k].scope.epoch
    <3>1. /\ k + 1 \in DOMAIN down /\ IsFence(k + 1) /\ k \in Nat \ {0}
          /\ down[k + 1].scope.epoch > clientEpoch /\ down'[k] = down[k + 1]
      BY Zenon, <1>3, <2>1
    <3>2. PICK j \in DOMAIN down : /\ j < k + 1 /\ ~IsFence(j)
                                   /\ down[j].scope.epoch = down[k + 1].scope.epoch
      BY <3>1, Parts DEF LaneResets
    <3>3. j # 1 /\ j \in Nat \ {0}
      BY Zenon, <1>2, <1>3, <3>2
    <3>4. /\ j - 1 \in DOMAIN down' /\ ~IsFence(j - 1)' /\ down'[j - 1] = down[j]
      BY SMTT(30), <1>3, <3>2, <3>3
    <3>5. j - 1 < k
      BY SMTT(30), <3>1, <3>2, <3>3
    <3>6. down'[j - 1].scope.epoch = down'[k].scope.epoch
      BY SMTT(30), <3>1, <3>2, <3>4
    <3> QED BY SMTT(30), <3>4, <3>5, <3>6
  <2>2. ASSUME clientEpoch < epoch
        PROVE  \E k \in DOMAIN down' : ~IsFence(k)' /\ down'[k].scope.epoch = epoch
    <3>1. PICK k \in DOMAIN down : ~IsFence(k) /\ down[k].scope.epoch = epoch
      BY Zenon, <2>2, Parts DEF LaneResets
    <3>2. k # 1
      BY SMTT(30), <1>2, <3>1
    <3>3. /\ k - 1 \in DOMAIN down' /\ down'[k - 1] = down[k]
          /\ IsFence(k - 1)' <=> IsFence(k)
      BY SMTT(30), <1>3, <3>2
    <3> QED BY Zenon, <3>1, <3>3
  <2> QED BY SMTT(30), <1>b, <2>1, <2>2 DEF LaneResets
<1>9. FencesFit'
  <2> SUFFICES ASSUME NEW k \in DOMAIN down', IsFence(k)',
                      down'[k].scope.epoch = clientEpoch
               PROVE  FenceFits(down'[k], replicas'[down'[k].scope.index])
    BY Zenon, <1>b DEF FencesFit
  <2>1. /\ k + 1 \in DOMAIN down /\ IsFence(k + 1) /\ k + 1 # 1
        /\ down'[k] = down[k + 1] /\ down[k + 1].scope.epoch = clientEpoch
    <3>1. k \in Nat \ {0} /\ k + 1 \in DOMAIN down /\ down'[k] = down[k + 1]
      BY Zenon, <1>3
    <3>2. IsFence(k + 1)
      BY Zenon, <1>3
    <3> QED BY <3>1, <3>2
  <2>2. CASE down[k + 1].scope.index = i
    <3>1. FenceFits(down[k + 1], d)
      BY Zenon, <2>1, <2>2 DEF FenceLeaves
    <3> QED BY SMTT(30), <1>5, <2>1, <2>2, <3>1
  <2>3. CASE down[k + 1].scope.index # i
    <3>1. down[k + 1].scope.index \in Indexes
      BY SMTT(30), <1>1, <2>1, LaneTypes
    <3>2. FenceFits(down[k + 1], replicas[down[k + 1].scope.index])
      BY Zenon, <2>1, Parts DEF FencesFit
    <3> QED BY SMTT(30), <1>5, <2>1, <2>3, <3>1, <3>2
  <2> QED BY <2>2, <2>3
<1>10. AcksPast'
  <2>1. \A k \in DOMAIN up : up[k].scope.epoch <= clientEpoch
    BY Zenon, Parts DEF AcksPast
  <2>2. CASE up' = up
    BY Zenon, <1>b, <1>4, <2>1, <2>2 DEF AcksPast
  <2>3. CASE up' = Append(up, f) /\ f.scope.epoch = clientEpoch
    <3>1. PICK n : n = Len(up) + 1
      BY Zenon
    <3>2. /\ DOMAIN up' = DOMAIN up \cup {n} /\ up'[n] = f
          /\ \A k \in DOMAIN up : up'[k] = up[k]
      BY SMTT(30), <1>1, <1>2, <2>3, <3>1, LaneAppend
    <3>3. Past(replicas'[f.scope.index], f)
      BY Zenon, <1>a, <1>5, <2>3 DEF FenceLeaves
    <3> QED BY Zenon, <1>b, <1>2, <1>4, <2>1, <3>2, <3>3 DEF AcksPast
  <2> QED BY SMTT(30), <1>a, <2>2, <2>3
<1>11. ReceiptsReached'
  BY Zenon, <1>b, <1>4, Parts DEF ReceiptsReached
<1>12. EndedOk'
  <2> SUFFICES ASSUME ~resetRequired, NEW j \in Indexes
               PROVE  SentOk(j)' /\ ForgottenOk(j)'
    BY Zenon, <1>b DEF EndedOk
  <2>1. SentOk(j) /\ ForgottenOk(j) /\ OwnFence(j)' = OwnFence(j)
    BY SMTT(30), <1>b, Parts DEF EndedOk, OwnFence, ScopeOf
  <2>2. records[j].phase = "Leaving" => Known(j)
    BY SMTT(30), Parts DEF RecordsOk, RecordOk, Known
  <2>3. ASSUME f = OwnFence(j), Known(j)
        PROVE  epoch = clientEpoch /\ Done(replicas'[j], records[j])
    <3>1. /\ j = i /\ f.scope.epoch = epoch
          /\ f.scope.generation = records[j].generation
          /\ f.scope.scope = records[j].scope
      <4>1. f.scope = ScopeOf(j)
        BY Zenon, <2>3 DEF OwnFence
      <4> QED BY <1>a, <4>1 DEF ScopeOf
    <3>2. epoch = clientEpoch
      BY SMTT(30), <1>1, <1>2, <3>1
    <3>3. records[i] \in ServerRecord /\ records[i].generation # 0
      BY SMTT(30), <1>1, <1>2, <2>3, <3>1, RecordTypes DEF Known
    <3>4. NotAhead(d, records[i]) /\ Past(d, f)
      BY Zenon, <3>1, <3>2 DEF FenceLeaves
    <3>5. ReplicaOk(d)
      BY Zenon DEF FenceLeaves
    <3>6. Done(d, records[i])
      BY SMTT(30), <1>2, <3>1, <3>3, <3>4, <3>5, AckDone
    <3> QED BY SMTT(30), <1>5, <3>1, <3>2, <3>6
  <2>4. SentOk(j)'
    <3> SUFFICES ASSUME records[j].phase = "Leaving", records[j].exitSent
                 PROVE  \/ \E k \in DOMAIN down' : down'[k] = OwnFence(j)
                        \/ epoch = clientEpoch /\ Done(replicas'[j], records[j])
      BY Zenon, <1>b, <2>1 DEF SentOk
    <3>1. CASE \E k \in DOMAIN down : down[k] = OwnFence(j)
      <4>1. PICK k \in DOMAIN down : down[k] = OwnFence(j)
        BY Zenon, <3>1
      <4>2. CASE k = 1
        BY SMTT(30), <1>a, <1>2, <2>2, <2>3, <4>1, <4>2
      <4>3. CASE k # 1
        <5>1. k - 1 \in DOMAIN down' /\ down'[k - 1] = down[k]
          BY Zenon, <1>3, <4>3
        <5> QED BY Zenon, <4>1, <5>1
      <4> QED BY Zenon, <4>2, <4>3
    <3>2. CASE epoch = clientEpoch /\ Done(replicas[j], records[j])
      BY Zenon, <1>4, <2>2, <3>2
    <3> QED BY Zenon, <2>1, <3>1, <3>2 DEF SentOk
  <2>5. ForgottenOk(j)'
    BY Zenon, <1>b, <1>4, <2>1 DEF ForgottenOk, Known
  <2> QED BY Zenon, <2>4, <2>5
<1>13. UsedOk'
  <2> SUFFICES ASSUME NEW e \in Nat PROVE Used(e)' \subseteq Used(e)
    BY Zenon, UsedLess, Parts
  <2> SUFFICES ASSUME NEW j \in Used(e)' PROVE j \in Used(e)
    BY Zenon
  <2>1. j \in Indexes
    BY Zenon DEF Used
  <2>2. CASE \E k \in DOMAIN down' : /\ IsFence(k)' /\ down'[k].scope.epoch = e
                                     /\ down'[k].scope.index = j
    <3>1. PICK k \in DOMAIN down' : /\ IsFence(k)' /\ down'[k].scope.epoch = e
                                     /\ down'[k].scope.index = j
      BY Zenon, <2>2
    <3>2. /\ k + 1 \in DOMAIN down /\ down'[k] = down[k + 1]
          /\ IsFence(k)' <=> IsFence(k + 1)
      BY Zenon, <1>3
    <3> QED BY <2>1, <3>1, <3>2 DEF Used
  <2>3. CASE e = clientEpoch /\ Have(j)'
    <3>1. Have(j) \/ (j = i /\ d.generation # 0)
      BY Zenon, <1>4, <2>1, <2>3
    <3>2. CASE Have(j)
      BY <2>1, <2>3, <3>2 DEF Used
    <3>3. CASE j = i /\ d.generation # 0
      BY Zenon, <2>3, <3>3 DEF FenceLeaves
    <3> QED BY <3>1, <3>2, <3>3
  <2>4. CASE (\E m \in states : m.scope.epoch = e /\ m.scope.index = j)
             \/ (e = epoch /\ Known(j))
    BY Zenon, <2>1, <2>4 DEF Used
  <2> QED BY Zenon, <1>b, <2>2, <2>3, <2>4 DEF Used, Known
<1>14. ReplicasAdvance
  <2>1. \A j \in Indexes : replicas[j] \in ClientRecord
    BY <1>1, RecordTypes
  <2>2. Advances(replicas[i], d)
    BY Zenon DEF FenceLeaves
  <2> QED BY SMTT(30), <1>b, <1>5, <2>1, <2>2, AdvancesSame DEF ReplicasAdvance
<1>15. LaneInv' /\ ClientInv' /\ AnswersInv'
  BY Zenon, <1>3, <1>4, <1>8, <1>9, <1>10, <1>11 DEF LaneInv, ClientInv, AnswersInv
<1> QED BY SMTT(30), <1>4, <1>6, <1>7, <1>12, <1>13, <1>14, <1>15 DEF ScopesInv

\* apply_exit and apply_destroy, with their answers.
LEMMA ReceiveFenceInv ==
  ASSUME ScopesInv, ReceiveFence
  PROVE  ScopesInv' /\ ReplicasAdvance
<1>0. PICK f, i, c : f = Head(down) /\ i = f.scope.index /\ c = replicas[i]
  BY Zenon
<1>1. /\ down # <<>> /\ f.kind # "reset" /\ down' = Tail(down)
      /\ UNCHANGED <<epoch, policy, records, nextSnapshot, resetRequired, world>>
      /\ UNCHANGED <<states, receipts>>
  BY Zenon, <1>0 DEF ReceiveFence, serverVars, game
<1>2. /\ f = down[1] /\ 1 \in DOMAIN down /\ IsFence(1) /\ f \in FenceMessage
      /\ i \in Indexes /\ f.scope \in Identity /\ f.scope.epoch <= clientEpoch
      /\ FenceOk(f, epoch, records[i])
      /\ f.scope.epoch = clientEpoch =>
           FenceFits(f, replicas[i]) /\ i \in Used(clientEpoch)
  BY Zenon, <1>0, <1>1, HeadFacts
<1>3. Types /\ clientEpoch \in Nat /\ replicas \in [Indexes -> ClientRecord]
  BY Zenon, Parts DEF Types, ClientTypes
<1>4. /\ c \in ClientRecord /\ ReplicaOk(c) /\ records[i] \in ServerRecord
      /\ epoch = clientEpoch => NotAhead(c, records[i])
  BY Zenon, <1>0, <1>2, <1>3, RecordTypes, Parts DEF ReplicasOk, ReplicasNotAhead
<1>5. f.kind \in {"exit", "destroy"} /\ f.scope.generation # 0 /\ f.scope.scope # 0
  BY Zenon, <1>2 DEF FenceMessage, FenceOk
<1>6. ASSUME UNCHANGED clientVars, f.scope.epoch = clientEpoch => Past(c, f),
             up' = up \/ (up' = Append(up, f) /\ f.scope.epoch = clientEpoch)
      PROVE  ScopesInv' /\ ReplicasAdvance
  <2>1. replicas' = [replicas EXCEPT ![i] = c] /\ UNCHANGED <<clientEpoch, states, receipts>>
    BY SMTT(30), <1>0, <1>1, <1>2, <1>3, <1>6 DEF clientVars
  <2>2. Advances(replicas[i], c)
    BY Zenon, <1>0, <1>4, AdvancesSame
  <2>3. \A m \in states : m.scope.epoch = clientEpoch /\ m.scope.index = i =>
          StateFits(m, c)
    BY Zenon, <1>0, Parts DEF StatesFit
  <2>4. \A k \in DOMAIN down :
          /\ k # 1 /\ IsFence(k)
          /\ down[k].scope.epoch = clientEpoch /\ down[k].scope.index = i
          => FenceFits(down[k], c)
    BY Zenon, <1>0, Parts DEF FencesFit
  <2>5. c.generation # 0 => i \in Used(clientEpoch)
    BY Zenon, <1>0, <1>2 DEF Used, Have
  <2>6. FenceTaken(f, i, c)
    BY SMTT(30), <1>0, <1>1, <1>6, <2>1 DEF FenceTaken
  <2>7. FenceLeaves(f, i, c)
    BY Zenon, <1>4, <1>6, <2>2, <2>3, <2>4, <2>5 DEF FenceLeaves
  <2> QED BY Zenon, <1>4, <2>6, <2>7, FenceStep
<1>7. ASSUME NEW d \in ClientRecord, Close(i, d), up' = Append(up, f),
             f.scope.epoch = clientEpoch, Advances(c, d), ReplicaOk(d),
             epoch = clientEpoch => NotAhead(d, records[i]), Past(d, f),
             \A m \in states : m.scope.epoch = clientEpoch /\ m.scope.index = i =>
               StateFits(m, d),
             \A k \in DOMAIN down :
               /\ k # 1 /\ IsFence(k)
               /\ down[k].scope.epoch = clientEpoch /\ down[k].scope.index = i
               => FenceFits(down[k], d)
      PROVE  ScopesInv' /\ ReplicasAdvance
  <2>1. /\ replicas' = [replicas EXCEPT ![i] = d]
        /\ UNCHANGED <<clientEpoch, states, receipts>>
    BY Zenon, <1>1, <1>7 DEF Close
  <2>2. Advances(replicas[i], d) /\ i \in Used(clientEpoch)
    BY Zenon, <1>0, <1>2, <1>7
  <2>3. FenceTaken(f, i, d)
    BY Zenon, <1>0, <1>1, <1>7, <2>1 DEF FenceTaken
  <2>4. FenceLeaves(f, i, d)
    BY Zenon, <1>7, <2>2 DEF FenceLeaves
  <2> QED BY <2>3, <2>4, FenceStep
<1>8. CASE ~Answered(f) /\ UNCHANGED <<clientVars, up>>
  <2>1. f.scope.epoch # clientEpoch
    BY Zenon, <1>0, <1>1, <1>8, NeverConflicts DEF ClientNeverConflicts
  <2> QED BY Zenon, <1>6, <1>8, <2>1
<1>9. CASE /\ Answered(f) /\ f.kind = "exit" /\ ApplyExit(i, f.scope)
           /\ up' = Append(up, f)
  <2>1. f.scope.epoch = clientEpoch
    BY Zenon, <1>0, <1>9 DEF Answered, JudgeExit, Stale
  <2>2. CASE JudgeExit(i, f.scope) = "Past" /\ UNCHANGED clientVars
    <3>1. \/ f.scope.generation < c.generation
          \/ f.scope.generation = c.generation /\ f.scope.scope < c.scope
          \/ f.scope.generation = c.generation /\ c.destroyed
      BY Zenon, <1>0, <2>2 DEF JudgeExit
    <3>2. Past(c, f)
      BY Zenon, <1>2, <1>4, <1>9, <3>1 DEF Past, ClientRecord, Identity
    <3> QED BY SMTT(30), <1>6, <1>9, <2>1, <2>2, <3>2
  <2>3. CASE JudgeExit(i, f.scope) = "Close" /\ Close(i, Closed(f.scope))
    <3>0. PICK d : d = Closed(f.scope)
      BY Zenon
    <3>1. /\ d \in ClientRecord /\ d.generation = f.scope.generation
          /\ d.scope = f.scope.scope /\ d.representation = f.scope.representation
          /\ d.closed = TRUE /\ d.destroyed = FALSE /\ d.state = NoPublication
      BY Zenon, <1>2, <3>0 DEF Closed, ClientRecord, Identity, NoPublication, Numbered
    <3>2. /\ ~(f.scope.generation < c.generation)
          /\ ~(f.scope.generation = c.generation /\ f.scope.scope < c.scope)
          /\ ~(f.scope.generation = c.generation /\ c.destroyed)
      BY Zenon, <1>0, <2>3 DEF JudgeExit
    <3>3. Advances(c, d)
      <4>1. /\ f.scope.generation >= c.generation
            /\ f.scope.generation = c.generation => f.scope.scope >= c.scope /\ ~c.destroyed
        <5>1. /\ c.generation \in Nat /\ c.scope \in Nat /\ f.scope.generation \in Nat
              /\ f.scope.scope \in Nat
          BY Zenon, <1>2, <1>4 DEF ClientRecord, Identity
        <5>2. f.scope.generation >= c.generation
          BY SMTT(30), <3>2, <5>1
        <5>3. f.scope.generation = c.generation => f.scope.scope >= c.scope
          BY SMTT(30), <3>2, <5>1
        <5> QED BY SMTT(30), <3>2, <5>2, <5>3
      <4> QED BY Zenon, <1>2, <1>4, <3>0, <4>1, ExitAdvances
    <3>4. ReplicaOk(d)
      BY Zenon, <1>5, <3>1 DEF ReplicaOk
    <3>5. epoch = clientEpoch => NotAhead(d, records[i])
      BY Zenon, <1>2, <1>9, <2>1, <3>1 DEF NotAhead, FenceOk, Issued
    <3>6. Past(d, f)
      BY Zenon, <1>9, <3>1 DEF Past
    <3>7. ASSUME NEW m \in states, m.scope.epoch = clientEpoch, m.scope.index = i
          PROVE  StateFits(m, d)
      <4>1. Twins(f.scope, m.scope) => Alike(f.scope, m.scope)
        BY Zenon, <1>2, <1>9, Parts DEF LaneAgrees
      <4> QED BY SMTT(30), <1>0, <2>1, <3>1, <3>7, <4>1 DEF StateFits, Twins, Alike
    <3>8. ASSUME NEW k \in DOMAIN down, IsFence(k), down[k].scope.epoch = clientEpoch,
                 down[k].scope.index = i
          PROVE  FenceFits(down[k], d)
      <4>1. down[k].kind = "exit" /\ Twins(f.scope, down[k].scope) =>
              Alike(f.scope, down[k].scope)
        BY Zenon, <1>2, <1>9, Parts DEF LaneAgrees
      <4> QED BY Zenon, <1>0, <2>1, <3>1, <3>8, <4>1 DEF FenceFits, Twins, Alike
    <3>9. Close(i, d)
      BY Zenon, <2>3, <3>0
    <3> QED BY Zenon, <1>7, <1>9, <2>1, <3>1, <3>3, <3>4, <3>5, <3>6, <3>7, <3>8, <3>9
  <2> QED BY Zenon, <1>9, <2>2, <2>3 DEF ApplyExit, Closed
<1>10. CASE /\ Answered(f) /\ f.kind = "destroy" /\ up' = Append(up, f)
            /\ ApplyDestroy(i, f.scope.epoch, f.scope.generation)
  <2>1. f.scope.epoch = clientEpoch
    BY Zenon, <1>10 DEF ApplyDestroy
  <2>2. CASE c.generation > f.scope.generation /\ UNCHANGED clientVars
    <3>1. Past(c, f)
      BY Zenon, <2>2 DEF Past
    <3> QED BY Zenon, <1>6, <1>10, <2>1, <2>2, <3>1
  <2>3. CASE ~(c.generation > f.scope.generation)
             /\ Close(i, Destroyed(f.scope.generation))
    <3>0. PICK d : d = Destroyed(f.scope.generation)
      BY Zenon
    <3>1. /\ d \in ClientRecord /\ d.generation = f.scope.generation /\ d.scope = 1
          /\ d.closed = TRUE /\ d.destroyed = TRUE /\ d.state = NoPublication
      BY Zenon, <1>2, <3>0 DEF Destroyed, ClientRecord, Identity, NoPublication, Numbered
    <3>2. Advances(c, d)
      <4>1. f.scope.generation \in Nat /\ f.scope.generation >= c.generation
        <5>1. f.scope.generation \in Nat /\ c.generation \in Nat
          BY Zenon, <1>2, <1>4 DEF ClientRecord, Identity
        <5> QED BY SMTT(30), <2>3, <5>1
      <4> QED BY Zenon, <1>4, <3>0, <4>1, DestroyAdvances
    <3>3. ReplicaOk(d)
      BY <1>5, <3>1 DEF ReplicaOk
    <3>4. epoch = clientEpoch => NotAhead(d, records[i])
      BY Zenon, <1>2, <1>10, <2>1, <3>1 DEF NotAhead, FenceOk, Issued
    <3>5. Past(d, f)
      BY Zenon, <3>1 DEF Past
    <3>6. \A m \in states : StateFits(m, d)
      BY Zenon, <3>1 DEF StateFits
    <3>7. ASSUME NEW k \in DOMAIN down, k # 1, IsFence(k),
                 down[k].scope.epoch = clientEpoch, down[k].scope.index = i
          PROVE  FenceFits(down[k], d)
      <4>1. 1 < k
        BY SMTT(30), <1>3, <3>7, LaneTypes
      <4>2. down[k].scope.generation > f.scope.generation
        BY Zenon, <1>0, <1>2, <1>10, <2>1, <3>7, <4>1, Parts DEF LaneOrder
      <4> QED BY Zenon, <3>1, <4>2 DEF FenceFits
    <3>8. Close(i, d)
      BY Zenon, <2>3, <3>0
    <3> QED BY Zenon, <1>7, <1>10, <2>1, <3>1, <3>2, <3>3, <3>4, <3>5, <3>6, <3>7, <3>8
  <2> QED BY Zenon, <1>0, <1>10, <2>2, <2>3 DEF ApplyDestroy, Destroyed
<1> QED BY SMTT(30), <1>0, <1>8, <1>9, <1>10 DEF ReceiveFence

\* The client starts over under a new connection epoch.
LEMMA ReceiveResetInv ==
  ASSUME ScopesInv, ReceiveReset
  PROVE  ScopesInv' /\ ReplicasAdvance
<1>0. PICK e : e = Head(down).scope.epoch
  BY Zenon
<1>1. /\ down # <<>> /\ Head(down).kind = "reset" /\ down' = Tail(down)
      /\ clientEpoch' = e /\ e > clientEpoch
      /\ replicas' = [i \in Indexes |-> NoReplica]
      /\ UNCHANGED <<epoch, policy, records, nextSnapshot, resetRequired, world>>
      /\ UNCHANGED <<states, receipts, up>>
  BY Zenon, <1>0 DEF ReceiveReset, ClientReset, serverVars, game
<1>2. /\ Types /\ epoch \in Nat /\ clientEpoch \in Nat /\ clientEpoch <= epoch
  BY Zenon, Parts DEF Types, ServerTypes, ClientTypes
<1>3. /\ down' \in Seq(FenceMessage \cup ResetMessage)
      /\ LaneOk' /\ LaneAgrees' /\ LaneOrder'
      /\ 1 \in DOMAIN down /\ Head(down) = down[1]
      /\ \A k \in DOMAIN down' : /\ k \in Nat \ {0} /\ k + 1 \in DOMAIN down
                                 /\ down'[k] = down[k + 1]
                                 /\ IsFence(k)' <=> IsFence(k + 1)
      /\ \A k \in DOMAIN down : /\ k \in Nat \ {0}
                                /\ k # 1 => /\ k - 1 \in DOMAIN down'
                                            /\ down'[k - 1] = down[k]
                                            /\ IsFence(k - 1)' <=> IsFence(k)
  BY Zenon, <1>1, LaneShrinks
<1>4. ~IsFence(1) /\ down[1].scope.epoch = e /\ e \in Nat /\ e <= epoch
      /\ clientEpoch < epoch
  <2>1. ~IsFence(1) /\ down[1].scope.epoch = e /\ e \in Nat
    BY Zenon, <1>0, <1>1, <1>2, <1>3, LaneTypes DEF IsFence
  <2>2. e <= epoch
    BY Zenon, <1>3, <2>1, Parts DEF LaneOk
  <2> QED BY SMTT(30), <1>1, <1>2, <2>1, <2>2
<1>5. /\ NoReplica \in ClientRecord /\ NoReplica.generation = 0 /\ NoReplica.closed = TRUE
      /\ NoReplica.destroyed = FALSE /\ NoReplica.state = NoPublication
  BY Zenon DEF NoReplica, ClientRecord, NoPublication, Numbered
<1>6. \A i \in Indexes : replicas'[i] = NoReplica /\ ~Have(i)'
  BY Zenon, <1>1, <1>5 DEF Have
<1>7. Types'
  <2>1. ServerTypes'
    BY Zenon, <1>1, <1>2 DEF Types, ServerTypes
  <2>2. replicas' \in [Indexes -> ClientRecord]
    BY Zenon, <1>1, <1>5
  <2>3. ClientTypes'
    BY Zenon, <1>1, <1>4, <2>2 DEF ClientTypes
  <2>4. NetTypes'
    BY Zenon, <1>1, <1>2, <1>3 DEF Types, NetTypes
  <2> QED BY Zenon, <2>1, <2>3, <2>4 DEF Types
<1>8. ServerInv'
  BY Zenon, <1>1, Parts DEF ServerInv, RecordsOk, StatesOk, StatesAgree
<1>9. LaneResets'
  <2>1. ASSUME NEW k \in DOMAIN down', IsFence(k)', down'[k].scope.epoch > e
        PROVE  \E j \in DOMAIN down' : /\ j < k /\ ~IsFence(j)'
                                       /\ down'[j].scope.epoch = down'[k].scope.epoch
    <3>1. /\ k + 1 \in DOMAIN down /\ IsFence(k + 1) /\ k \in Nat \ {0}
          /\ down[k + 1].scope.epoch > e /\ down'[k] = down[k + 1]
      BY Zenon, <1>3, <2>1
    <3>2. down[k + 1].scope.epoch > clientEpoch
      BY SMTT(30), <1>1, <1>2, <1>4, <3>1, LaneTypes
    <3>3. PICK j \in DOMAIN down : /\ j < k + 1 /\ ~IsFence(j)
                                   /\ down[j].scope.epoch = down[k + 1].scope.epoch
      BY Zenon, <3>1, <3>2, Parts DEF LaneResets
    <3>4. j # 1 /\ j \in Nat \ {0}
      BY SMTT(30), <1>3, <1>4, <3>1, <3>3
    <3>5. /\ j - 1 \in DOMAIN down' /\ ~IsFence(j - 1)' /\ j - 1 < k
          /\ down'[j - 1] = down[j]
      BY SMTT(30), <1>3, <3>1, <3>3, <3>4
    <3> QED BY Zenon, <3>1, <3>3, <3>5
  <2>2. ASSUME e < epoch
        PROVE  \E k \in DOMAIN down' : ~IsFence(k)' /\ down'[k].scope.epoch = epoch
    <3>1. PICK k \in DOMAIN down : ~IsFence(k) /\ down[k].scope.epoch = epoch
      BY Zenon, <1>4, Parts DEF LaneResets
    <3>2. k # 1
      BY SMTT(30), <1>4, <2>2, <3>1
    <3> QED BY Zenon, <1>3, <3>1, <3>2
  <2> QED BY Zenon, <1>1, <2>1, <2>2 DEF LaneResets
<1>10. ClientInv'
  <2>1. ReplicasOk' /\ ReplicasNotAhead'
    BY Zenon, <1>5, <1>6 DEF ReplicasOk, ReplicaOk, ReplicasNotAhead, NotAhead
  <2>2. StatesFit'
    <3>1. \A m \in states : m.scope.index \in Indexes
      BY Zenon, <1>2, MessageTypes
    <3> QED BY Zenon, <1>1, <1>5, <1>6, <3>1 DEF StatesFit, StateFits
  <2>3. FencesFit'
    <3>1. \A k \in DOMAIN down : IsFence(k) => down[k].scope.index \in Indexes
      BY Zenon, <1>2, LaneTypes
    <3>2. \A k \in DOMAIN down' : IsFence(k)' => down'[k].scope.index \in Indexes
      BY Zenon, <1>3, <3>1
    <3> QED BY Zenon, <1>5, <1>6, <3>2 DEF FencesFit, FenceFits
  <2> QED BY Zenon, <2>1, <2>2, <2>3 DEF ClientInv
<1>11. AnswersInv'
  <2>1. \A k \in DOMAIN up : up[k].scope.epoch \in Nat /\ up[k].scope.epoch <= clientEpoch
    BY Zenon, <1>2, AnswerTypes, Parts DEF AcksPast, FenceMessage, Identity
  <2>2. \A m \in receipts : m.scope.epoch \in Nat /\ m.scope.epoch <= clientEpoch
    BY Zenon, <1>2, MessageTypes, Parts DEF ReceiptsReached, StateMessage, Identity
  <2>3. AcksPast'
    BY SMTT(30), <1>1, <1>2, <1>4, <2>1 DEF AcksPast
  <2>4. ReceiptsReached'
    BY SMTT(30), <1>1, <1>2, <1>4, <2>2 DEF ReceiptsReached
  <2> QED BY Zenon, <2>3, <2>4 DEF AnswersInv
<1>12. EndedOk'
  <2> SUFFICES ASSUME ~resetRequired, NEW j \in Indexes
               PROVE  SentOk(j)' /\ ForgottenOk(j)'
    BY Zenon, <1>1 DEF EndedOk
  <2>1. SentOk(j) /\ ForgottenOk(j) /\ OwnFence(j)' = OwnFence(j)
    BY Zenon, <1>1, Parts DEF EndedOk, OwnFence, ScopeOf
  <2>2. OwnFence(j).kind # "reset" /\ epoch # clientEpoch
    BY <1>2, <1>4 DEF OwnFence
  <2>3. SentOk(j)'
    <3>1. \A k \in DOMAIN down : down[k] = OwnFence(j) => k # 1
      BY Zenon, <1>4, <2>2 DEF IsFence
    <3>2. \A k \in DOMAIN down : down[k] = OwnFence(j) =>
            k - 1 \in DOMAIN down' /\ down'[k - 1] = OwnFence(j)
      BY Zenon, <1>3, <3>1
    <3>3. (\E k \in DOMAIN down : down[k] = OwnFence(j)) =>
            \E k \in DOMAIN down' : down'[k] = OwnFence(j)
      BY Zenon, <3>2
    <3> QED BY Zenon, <1>1, <2>1, <2>2, <3>3 DEF SentOk
  <2>4. ForgottenOk(j)'
    BY Zenon, <1>1, <2>1, <2>2 DEF ForgottenOk, Known
  <2> QED BY Zenon, <2>3, <2>4
<1>13. DecodedOk'
  <2>1. epoch # clientEpoch
    BY SMTT(30), <1>2, <1>4
  <2> QED BY Zenon, <1>1, <2>1, Parts DEF DecodedOk
<1>14. UsedOk'
  <2>1. \A n \in Nat : Used(n)' \subseteq Used(n)
    <3> SUFFICES ASSUME NEW n \in Nat, NEW j \in Used(n)' PROVE j \in Used(n)
      BY Zenon
    <3>1. j \in Indexes /\ ~Have(j)'
      BY Zenon, <1>6 DEF Used
    <3>2. CASE \E k \in DOMAIN down' : /\ IsFence(k)' /\ down'[k].scope.epoch = n
                                       /\ down'[k].scope.index = j
      <4>1. PICK k \in DOMAIN down' : /\ IsFence(k)' /\ down'[k].scope.epoch = n
                                       /\ down'[k].scope.index = j
        BY Zenon, <3>2
      <4>2. /\ k + 1 \in DOMAIN down /\ down'[k] = down[k + 1]
            /\ IsFence(k)' <=> IsFence(k + 1)
        BY Zenon, <1>3
      <4> QED BY Zenon, <3>1, <4>1, <4>2 DEF Used
    <3>3. CASE (\E m \in states : m.scope.epoch = n /\ m.scope.index = j)
               \/ (n = epoch /\ Known(j))
      BY Zenon, <3>1, <3>3 DEF Used
    <3> QED BY Zenon, <1>1, <3>1, <3>2, <3>3 DEF Used, Known
  <2> QED BY Zenon, <2>1, UsedLess, Parts
<1>15. ReplicasAdvance
  BY SMTT(30), <1>1, <1>2, <1>4 DEF ReplicasAdvance
<1> QED BY SMTT(30), <1>3, <1>7, <1>8, <1>9, <1>10, <1>11, <1>12, <1>13, <1>14, <1>15
        DEF ScopesInv, LaneInv

-----------------------------------------------------------------------------
(* The invariant holds at the start and is kept by every step.              *)

LEMMA ScopesStart ==
  ASSUME Init
  PROVE  ScopesInv
<1>1. /\ epoch = 1 /\ policy = 1 /\ nextSnapshot = 1 /\ resetRequired = FALSE
      /\ records = [i \in Indexes |-> NoDelivery] /\ clientEpoch = 1
      /\ replicas = [i \in Indexes |-> NoReplica]
      /\ world = [i \in Indexes |-> [generation |-> 1, version |-> 1, alive |-> TRUE]]
      /\ states = {} /\ receipts = {} /\ down = <<>> /\ up = <<>>
  BY Zenon DEF Init, ServerInit, ClientInit
<1>2. /\ NoDelivery \in ServerRecord /\ NoDelivery.generation = 0
      /\ NoDelivery.phase = "Forgotten"
  BY Zenon DEF NoDelivery, ServerRecord, NoPublication, Numbered, Phases
<1>3. /\ NoReplica \in ClientRecord /\ NoReplica.generation = 0
      /\ NoReplica.closed = TRUE /\ NoReplica.destroyed = FALSE
      /\ NoReplica.state = NoPublication
  BY Zenon DEF NoReplica, ClientRecord, NoPublication, Numbered
<1>4. \A i \in Indexes : /\ records[i] = NoDelivery /\ ~Known(i)
                         /\ replicas[i] = NoReplica /\ ~Have(i)
  BY Zenon, <1>1, <1>2, <1>3 DEF Known, Have
<1>5. DOMAIN down = {} /\ DOMAIN up = {}
  BY <1>1
<1>6. Types
  <2>1. resetRequired \in BOOLEAN
    BY Zenon, <1>1
  <2>2. records \in [Indexes -> ServerRecord] /\ replicas \in [Indexes -> ClientRecord]
    BY Zenon, <1>1, <1>2, <1>3
  <2>3. world \in [Indexes -> [generation : Nat \ {0}, version : Nat, alive : BOOLEAN]]
    BY <1>1
  <2>4. ServerTypes
    BY SMTT(30), <1>1, <2>1, <2>2, <2>3 DEF ServerTypes
  <2>5. ClientTypes
    BY SMTT(30), <1>1, <2>2 DEF ClientTypes
  <2>6. NetTypes
    BY <1>1 DEF NetTypes
  <2> QED BY Zenon, <2>4, <2>5, <2>6 DEF Types
<1>7. ServerInv
  BY Zenon, <1>1, <1>2, <1>4 DEF ServerInv, RecordsOk, RecordOk, Open, StatesOk, StatesAgree
<1>8. LaneInv
  <2>1. LaneOk /\ LaneAgrees /\ LaneOrder
    BY Zenon, <1>5 DEF LaneOk, LaneAgrees, LaneOrder
  <2>2. LaneResets
    BY <1>1, <1>5 DEF LaneResets
  <2> QED BY Zenon, <2>1, <2>2 DEF LaneInv
<1>9. ClientInv
  <2>1. ReplicasOk /\ ReplicasNotAhead
    BY Zenon, <1>3, <1>4 DEF ReplicasOk, ReplicaOk, ReplicasNotAhead, NotAhead
  <2>2. StatesFit /\ FencesFit
    BY Zenon, <1>1, <1>5 DEF StatesFit, FencesFit
  <2> QED BY Zenon, <2>1, <2>2 DEF ClientInv
<1>10. AnswersInv
  BY Zenon, <1>1, <1>5 DEF AnswersInv, AcksPast, ReceiptsReached
<1>11. EndedOk /\ DecodedOk
  BY Zenon, <1>2, <1>4 DEF EndedOk, SentOk, ForgottenOk, DecodedOk, Open
<1>12. UsedOk
  <2>1. \A e \in Nat : Used(e) = {}
    BY Zenon, <1>1, <1>4, <1>5 DEF Used
  <2>2. Cardinality({}) = 0 /\ KnownEntities \in Nat
    BY Zenon, FS_EmptySet, ScopeLimitsAssumption
  <2> QED BY <2>1, <2>2 DEF UsedOk
<1> QED BY SMTT(30), <1>6, <1>7, <1>8, <1>9, <1>10, <1>11, <1>12 DEF ScopesInv

\* Replicas that a step leaves alone do not retreat.
LEMMA StillAdvance ==
  ASSUME ScopesInv, replicas' = replicas
  PROVE  ReplicasAdvance
<1>1. \A i \in Indexes : replicas[i] \in ClientRecord
  BY Zenon, RecordTypes, Parts
<1> QED BY Zenon, <1>1, AdvancesSame DEF ReplicasAdvance

\* The game changes an entity.
LEMMA GameInv ==
  ASSUME ScopesInv, NEW i \in Indexes, Mutate(i) \/ Despawn(i) \/ Respawn(i)
  PROVE  ScopesInv' /\ replicas' = replicas
<1> DEFINE W == [generation : Nat \ {0}, version : Nat, alive : BOOLEAN]
<1>1. world \in [Indexes -> W] /\ world[i] \in W
  BY Zenon, Parts DEF Types, ServerTypes
<1>2. UNCHANGED <<serverVars, clientVars, netVars>>
  BY Zenon DEF Mutate, Despawn, Respawn
<1>3. /\ UNCHANGED <<epoch, policy, records, nextSnapshot, resetRequired>>
      /\ clientEpoch' = clientEpoch /\ replicas' = replicas /\ down' = down
      /\ states' \subseteq states /\ receipts' \subseteq receipts /\ up' = up
  BY Zenon, <1>2 DEF serverVars, clientVars, netVars
<1>4. world' \in [Indexes -> W]
  <2>1. CASE Mutate(i)
    <3>1. PICK w : w = [world[i] EXCEPT !.version = @ + 1]
      BY Zenon
    <3>2. w \in W
      BY <1>1, <3>1
    <3>3. world' = [world EXCEPT ![i] = w]
      BY Zenon, <2>1, <3>1 DEF Mutate
    <3> HIDE DEF W
    <3> QED BY Zenon, <1>1, <3>2, <3>3
  <2>2. CASE Despawn(i)
    <3>1. PICK w : w = [world[i] EXCEPT !.alive = FALSE]
      BY Zenon
    <3>2. w \in W
      BY Zenon, <1>1, <3>1
    <3>3. world' = [world EXCEPT ![i] = w]
      BY Zenon, <2>2, <3>1 DEF Despawn
    <3> HIDE DEF W
    <3> QED BY Zenon, <1>1, <3>2, <3>3
  <2>3. CASE Respawn(i)
    <3>1. PICK w : w = [generation |-> world[i].generation + 1, version |-> 1,
                        alive |-> TRUE]
      BY Zenon
    <3>2. w \in W
      BY SMTT(30), <1>1, <3>1
    <3>3. world' = [world EXCEPT ![i] = w]
      BY Zenon, <2>3, <3>1 DEF Respawn
    <3> HIDE DEF W
    <3> QED BY Zenon, <1>1, <3>2, <3>3
  <2> QED BY Zenon, <2>1, <2>2, <2>3
<1> QED BY Zenon, <1>3, <1>4, QuietInv

LEMMA ScopesStep ==
  ASSUME ScopesInv, [Next \/ Lose]_vars
  PROVE  ScopesInv' /\ ReplicasAdvance
<1>1. CASE UNCHANGED vars
  <2>1. world \in [Indexes -> [generation : Nat \ {0}, version : Nat, alive : BOOLEAN]]
    BY Zenon, Parts DEF Types, ServerTypes
  <2>2. /\ UNCHANGED <<epoch, policy, records, nextSnapshot, resetRequired>>
        /\ clientEpoch' = clientEpoch /\ replicas' = replicas /\ down' = down
        /\ world' = world /\ states' = states /\ receipts' = receipts /\ up' = up
    BY Zenon, <1>1 DEF vars, serverVars, clientVars, game, netVars
  <2> QED BY Zenon, <2>1, <2>2, QuietInv, StillAdvance
<1>2. CASE Lose
  <2>1. world \in [Indexes -> [generation : Nat \ {0}, version : Nat, alive : BOOLEAN]]
    BY Zenon, Parts DEF Types, ServerTypes
  <2>2. /\ UNCHANGED <<epoch, policy, records, nextSnapshot, resetRequired>>
        /\ clientEpoch' = clientEpoch /\ replicas' = replicas /\ down' = down
        /\ world' = world /\ up' = up
    BY Zenon, <1>2 DEF Lose, serverVars, clientVars, game
  <2>3. states' \subseteq states /\ receipts' \subseteq receipts
    BY Zenon, <1>2 DEF Lose
  <2> QED BY SMTT(30), <2>1, <2>2, <2>3, QuietInv, StillAdvance
<1>3. ASSUME NEW i \in Indexes, Mutate(i) \/ Despawn(i) \/ Respawn(i)
      PROVE  ScopesInv' /\ ReplicasAdvance
  BY Zenon, <1>3, GameInv, StillAdvance
<1>4. ASSUME NEW i \in Indexes, OfferStep(i) PROVE ScopesInv' /\ ReplicasAdvance
  <2>1. replicas' = replicas
    BY Zenon, <1>4 DEF OfferStep, clientVars
  <2> QED BY Zenon, <1>4, <2>1, OfferInv, StillAdvance
<1>5. ASSUME NEW i \in Indexes, ExitStep(i) PROVE ScopesInv' /\ ReplicasAdvance
  <2>1. CloseScope(i, FALSE) /\ UNCHANGED <<clientVars, world, netVars>>
    BY Zenon, <1>5 DEF ExitStep, Exit, game
  <2>2. replicas' = replicas
    BY Zenon, <2>1 DEF clientVars
  <2> QED BY Zenon, <2>1, <2>2, CloseInv, StillAdvance
<1>6. ASSUME NEW i \in Indexes, DestroyStep(i) PROVE ScopesInv' /\ ReplicasAdvance
  <2>1. CloseScope(i, TRUE) /\ UNCHANGED <<clientVars, world, netVars>>
    BY Zenon, <1>6 DEF DestroyStep, Destroy, game
  <2>2. replicas' = replicas
    BY SMTT(30), <2>1 DEF clientVars
  <2> QED BY Zenon, <2>1, <2>2, CloseInv, StillAdvance
<1>7. ASSUME NEW i \in Indexes, TransmitStep(i) PROVE ScopesInv' /\ ReplicasAdvance
  <2>1. replicas' = replicas
    BY SMTT(30), <1>7 DEF TransmitStep, clientVars
  <2> QED BY Zenon, <1>7, <2>1, TransmitInv, StillAdvance
<1>8. ASSUME NEW i \in Indexes, SendFence(i) PROVE ScopesInv' /\ ReplicasAdvance
  <2>1. replicas' = replicas
    BY Zenon, <1>8 DEF SendFence, clientVars
  <2> QED BY Zenon, <1>8, <2>1, SendFenceInv, StillAdvance
<1>9. CASE BarrierStep
  <2>1. replicas' = replicas
    BY SMTT(30), <1>9 DEF BarrierStep, clientVars
  <2> QED BY Zenon, <1>9, <2>1, BarrierInv, StillAdvance
<1>10. CASE ResetStep
  <2>1. replicas' = replicas
    BY Zenon, <1>10 DEF ResetStep, clientVars
  <2> QED BY Zenon, <1>10, <2>1, ResetInv, StillAdvance
<1>11. ASSUME NEW m \in states, ReceiveState(m) PROVE ScopesInv' /\ ReplicasAdvance
  BY Zenon, <1>11, ReceiveStateInv
<1>12. ASSUME NEW m \in receipts, ReceiveReceipt(m) PROVE ScopesInv' /\ ReplicasAdvance
  <2>1. replicas' = replicas
    BY Zenon, <1>12 DEF ReceiveReceipt, clientVars
  <2> QED BY Zenon, <1>12, <2>1, ReceiptInv, StillAdvance
<1>13. CASE ReceiveFence
  BY Zenon, <1>13, ReceiveFenceInv
<1>14. CASE ReceiveReset
  BY SMTT(30), <1>14, ReceiveResetInv
<1>15. CASE ReceiveAck
  <2>1. replicas' = replicas
    BY Zenon, <1>15 DEF ReceiveAck, clientVars
  <2> QED BY Zenon, <1>15, <2>1, AckInv, StillAdvance
<1> QED
  BY Zenon, <1>1, <1>2, <1>3, <1>4, <1>5, <1>6, <1>7, <1>8, <1>9, <1>10, <1>11, <1>12, <1>13,
     <1>14, <1>15 DEF Next

-----------------------------------------------------------------------------
(* What follows from the invariant.                                         *)

\* While the policy revision is the first one, what the server has ended is
\* withdrawn.
LEMMA RevocationKept ==
  ASSUME ScopesInv, policy = 1
  PROVE  RevocationNotLost
<1> SUFFICES ASSUME NEW i \in Indexes, Holds(i), epoch = clientEpoch, ~resetRequired,
                    ~Live(i), ~UnsentFence(i)
             PROVE  FenceUnderWay(i)
  BY Zenon DEF RevocationNotLost, FenceUnderWay
<1> DEFINE c == replicas[i]
           r == records[i]
<1>1. /\ c \in ClientRecord /\ r \in ServerRecord
      /\ ReplicaOk(c) /\ NotAhead(c, r)
  BY Zenon, RecordTypes, Parts DEF ReplicasOk, ReplicasNotAhead
<1>2. ~c.closed /\ ~c.destroyed /\ c.generation # 0
  BY Zenon, <1>1 DEF Holds, ReplicaOk
<1>3. c.generation <= r.generation /\ c.scope <= r.scope
  BY Zenon, <1>1, <1>2 DEF NotAhead, Issued
<1>4. Known(i)
  BY SMTT(30), <1>1, <1>2, <1>3 DEF Known, ClientRecord, ServerRecord
<1>5. SentOk(i) /\ ForgottenOk(i) /\ ~Done(c, r)
  BY Zenon, <1>2, Parts DEF EndedOk, Done
<1>6. r.phase = "Leaving" /\ r.exitSent
  <2>1. r.phase = "Leaving" \/ r.phase = "Forgotten"
    BY Zenon, <1>1 DEF Live, ServerRecord, Phases
  <2>2. r.phase # "Forgotten"
    BY SMTT(30), <1>4, <1>5 DEF ForgottenOk
  <2> QED BY Zenon, <2>1, <2>2 DEF UnsentFence
<1>7. PICK k \in DOMAIN down : down[k] = OwnFence(i)
  BY Zenon, <1>5, <1>6 DEF SentOk
<1>8. /\ down[k].scope.index = i /\ down[k].scope.epoch = epoch
      /\ down[k].scope.generation = r.generation /\ down[k].scope.scope = r.scope
  BY SMTT(30), <1>7 DEF OwnFence, ScopeOf
<1>9. r.generation >= c.generation /\ r.scope >= c.scope
  BY Zenon, <1>1, <1>3 DEF ClientRecord, ServerRecord
<1> QED BY Zenon, <1>8, <1>9 DEF FenceUnderWay

\* What the server holds as decoded is shown.
LEMMA DecodedShown ==
  ASSUME ScopesInv
  PROVE  DecodedIsShown
<1> SUFFICES ASSUME NEW i \in Indexes, Live(i), epoch = clientEpoch,
                    records[i].decoded # NoPublication
             PROVE  /\ HeldScope(i) = ScopeOf(i)
                    /\ replicas[i].state.snapshot >= records[i].decoded.snapshot
                    /\ records[i].phase = "DormantKnown" =>
                         replicas[i].state = records[i].desired
  BY Zenon DEF DecodedIsShown
<1> DEFINE c == replicas[i]
           r == records[i]
<1>1. /\ c \in ClientRecord /\ r \in ServerRecord /\ NotAhead(c, r)
      /\ RecordOk(r, nextSnapshot) /\ Open(r)
  BY Zenon, RecordTypes, Parts DEF ReplicasNotAhead, RecordsOk, Live, Open
<1>2. Showing(c, r)
  BY Zenon, <1>1, Parts DEF DecodedOk
<1>3. c.generation # 0
  BY Zenon, <1>1, <1>2 DEF RecordOk, Open, Showing
<1>4. Issued(c, r) /\ NoNewer(c.state, r.desired)
  BY Zenon, <1>1, <1>2, <1>3 DEF NotAhead, Showing
<1>5. HeldScope(i) = ScopeOf(i)
  BY Zenon, <1>2, <1>4 DEF HeldScope, ScopeOf, Showing, Issued
<1>6. c.state.snapshot >= r.decoded.snapshot
  BY Zenon, <1>2 DEF Showing
<1>7. ASSUME r.phase = "DormantKnown" PROVE c.state = r.desired
  <2>1. r.decoded = r.desired
    BY Zenon, <1>1, <1>7 DEF RecordOk
  <2>2. c.state \in Numbered /\ r.desired \in Numbered
    BY Zenon, <1>1 DEF ClientRecord, ServerRecord
  <2>3. c.state.snapshot = r.desired.snapshot
    BY SMTT(30), <1>4, <1>6, <2>1, <2>2 DEF NoNewer, Numbered
  <2> QED BY Zenon, <1>4, <2>3 DEF NoNewer
<1> QED BY Zenon, <1>5, <1>6, <1>7

-----------------------------------------------------------------------------

\* The records of the server, the replicas of the client and everything under
\* way between `offer`, `mark_sent`, `apply_full`, `apply_exit`, `apply_destroy`
\* and the acknowledgements stay in the relation that the invariant states,
\* whatever is lost, repeated or reordered.
THEOREM ScopesStayInOrder == LossySpec => []ScopesInv
<1>1. ScopesInv /\ [Next \/ Lose]_vars => ScopesInv'
  BY Zenon, ScopesStep
<1> QED BY ScopesStart, <1>1, PTL DEF LossySpec

\* No message that `apply_full`, `apply_exit` or `apply_destroy` accepts moves a
\* fence or a publication of the client back within a connection epoch.
THEOREM FencesNeverRetreat == LossySpec => FencesOnlyAdvance
<1>1. ScopesInv /\ [Next \/ Lose]_vars => [ReplicasAdvance]_vars
  BY Zenon, ScopesStep
<1> QED BY ScopesStayInOrder, <1>1, PTL DEF LossySpec, FencesOnlyAdvance

\* Nothing the server sends is a conflict to `apply_full` or `apply_exit`, and
\* the client has room to answer every fence of its epoch.
THEOREM NothingConflicts == LossySpec => []ClientNeverConflicts
<1>1. ScopesInv => ClientNeverConflicts
  BY Zenon, NeverConflicts
<1> QED BY ScopesStayInOrder, <1>1, PTL

\* Under one policy revision, which is how the game's server runs, server and
\* client agree on what the client may hold: besides that nothing conflicts,
\* every replica of a scope that `exit` or `destroy` ended is going to be
\* withdrawn.
THEOREM ScopesAlwaysAgree == LossySpec => [](policy = 1 => ScopesAgree)
<1>1. ScopesInv => (policy = 1 => ScopesAgree)
  BY SMTT(30), NeverConflicts, RevocationKept DEF ScopesAgree
<1> QED BY ScopesStayInOrder, <1>1, PTL

\* What `acknowledge` recorded as decoded is shown by the client, and exactly
\* the desired publication of a scope that `refresh_phase` made dormant.
THEOREM DecodedStaysShown == LossySpec => []DecodedIsShown
<1>1. ScopesInv => DecodedIsShown
  BY Zenon, DecodedShown
<1> QED BY ScopesStayInOrder, <1>1, PTL

=============================================================================
