-------------------------- MODULE EventJournalProofs --------------------------
(***************************************************************************)
(* Proofs about EventJournal, for every set of keys, deliveries, limits and *)
(* bounds: what a consumer displays and plays is what the journal says, and *)
(* a decision about an event is final.                                      *)
(*                                                                         *)
(* The argument follows the code.  A transaction takes each entry through a *)
(* pipeline (Advanced, Entered, Corrected, Withdrawn, Cancel, Confirmed),   *)
(* and StageOK relates what the pipeline holds to the state it started      *)
(* from.  Each stage of the pipeline keeps StageOK, and a commit of stages  *)
(* that satisfy it restores the inductive invariant JournalInv.             *)
(***************************************************************************)
EXTENDS EventJournal, FiniteSetTheorems, WellFoundedInduction, TLAPS

Phases == {"Absent", "Unseen", "Live", "ReplayAbsent", "Expired", "Rejected"}
Decisions == {"Unresolved", "Accepted", "Rejected"}
EntryType == [phase : Phases, decision : Decisions, delivered : BOOLEAN,
              payload : Payloads \cup {None},
              binding : (Indexes \X (1..MaxGeneration)) \cup {None}]
Shows == {"Create", "Update", "Cancel"}
ChangeType == [kind : Shows \cup {"Confirm", "Bind", "BindRetired"}, payload : Payloads \cup {None}]
StageType == [entry : EntryType, changes : Seq(ChangeType)]

\* What is on display for an entry.
Visible(e) == IF e.phase = "Live" THEN e.payload ELSE None

\* The entry can still be, or become, live.
Open(e) == e.phase \in {"Unseen", "Live"}

\* A stage of the pipeline of key k: its changes lead the consumer to its entry,
\* and it has taken nothing back of what the entry had decided.
StageOK(s, k) ==
  /\ s \in StageType
  /\ Delivery(k) # "OneShot" => Displayed(visuals[k], s.changes) = Visible(s.entry)
  /\ Delivery(k) = "OneShot" =>
       /\ plays[k] + Creations(s.changes) <= 1
       /\ s.entry.delivered = FALSE /\ Command(k) > retired => plays[k] + Creations(s.changes) = 0
  /\ s.entry.phase = "Absent" => s.entry = NoEntry
  /\ Command(k) <= retired => s.entry.phase = "Absent"
  /\ s.entry.decision = "Accepted" => Command(k) \notin rejected
  /\ s.entry.binding # None => s.entry.decision = "Accepted"
  /\ Over(entries[k]) => Over(s.entry)
  /\ entries[k].decision # "Unresolved" => s.entry.decision = entries[k].decision

\* The binding of an open entry was there, on an open entry, before.
Keeps(s, k) ==
  s.entry.binding # None /\ Open(s.entry) => entries[k].binding = s.entry.binding /\ Open(entries[k])

\* What the committed state says of key k.
KeyOK(k) ==
  /\ visuals[k] = IF Delivery(k) # "OneShot" THEN Visible(entries[k]) ELSE None
  /\ Delivery(k) = "OneShot" =>
       plays[k] <= 1 /\ (entries[k].delivered = FALSE /\ Command(k) > retired => plays[k] = 0)
  /\ entries[k].phase = "Absent" => entries[k] = NoEntry
  /\ Command(k) <= retired => entries[k].phase = "Absent"
  /\ entries[k].decision = "Accepted" => Command(k) \notin rejected
  /\ entries[k].binding # None => entries[k].decision = "Accepted"

\* The newest binding of an index is that of the open entry bound to it.
BindingOK(k) ==
  entries[k].binding # None /\ Open(entries[k]) => bindings[entries[k].binding[1]].key = k

\* The inductive invariant.
JournalInv ==
  /\ TypeOK /\ plays \in [Keys -> Nat] /\ IsFiniteSet(rejected)
  /\ \A k \in Keys : KeyOK(k) /\ BindingOK(k)

-----------------------------------------------------------------------------
(* The consumer.                                                            *)

\* A nonempty set of positions of a sequence has a last one.
LEMMA LastPosition ==
  ASSUME NEW n \in Nat, NEW T, T \subseteq 1..n, T # {}
  PROVE  \E i \in T : \A j \in T : j <= i
<1> DEFINE D == {n - i : i \in T}
<1>1. D \subseteq Nat /\ D # {}
  <2>1. PICK i \in T : TRUE
    BY Zenon
  <2>2. n - i \in D
    BY Zenon
  <2>3. \A j \in T : n - j \in Nat
    OBVIOUS
  <2> QED BY Zenon, <2>2, <2>3
<1>2. PICK d \in D : \A e \in D : ~(<<e, d>> \in OpToRel(<, Nat))
  <2> HIDE DEF D
  <2> QED BY Zenon, <1>1, NatLessThanWellFounded, WFMin
<1>3. PICK i \in T : d = n - i
  BY Zenon, <1>2
<1>4. ASSUME NEW j \in T PROVE j <= i
  <2>1. n - j \in D
    BY Zenon
  <2>2. n - j \in Nat /\ d \in Nat /\ ~(n - j < d)
    BY Zenon, <1>1, <1>2, <2>1 DEF OpToRel
  <2> QED BY <1>3, <2>2
<1> QED BY Zenon, <1>4

\* The positions of the changes of a sequence whose kind is in K.
Positions(changes, K) == {i \in DOMAIN changes : changes[i].kind \in K}

\* Positions of a sequence with one change appended.
LEMMA AppendedPositions ==
  ASSUME NEW c \in Seq(ChangeType), NEW x \in ChangeType, NEW K
  PROVE  /\ Append(c, x) \in Seq(ChangeType)
         /\ Positions(c, K) \subseteq 1..Len(c)
         /\ Positions(Append(c, x), K) = IF x.kind \in K THEN Positions(c, K) \cup {Len(c) + 1}
                                                       ELSE Positions(c, K)
         /\ \A i \in 1..Len(c) : Append(c, x)[i] = c[i]
         /\ Append(c, x)[Len(c) + 1] = x
<1>1. /\ Append(c, x) \in Seq(ChangeType) /\ Len(c) \in Nat
      /\ DOMAIN c = 1..Len(c) /\ DOMAIN Append(c, x) = 1..(Len(c) + 1)
      /\ \A i \in 1..Len(c) : Append(c, x)[i] = c[i]
      /\ Append(c, x)[Len(c) + 1] = x
  OBVIOUS
<1>2. 1..(Len(c) + 1) = (1..Len(c)) \cup {Len(c) + 1}
  BY <1>1
<1> QED BY Zenon, <1>1, <1>2 DEF Positions

\* An appended change decides what is displayed, if it concerns the display.
LEMMA AppendedDisplay ==
  ASSUME NEW c \in Seq(ChangeType), NEW x \in ChangeType, NEW v
  PROVE  Displayed(v, Append(c, x)) = IF x.kind \in Shows THEN x.payload ELSE Displayed(v, c)
<1> DEFINE A == Positions(c, Shows)
           B == Positions(Append(c, x), Shows)
           Last(T) == CHOOSE i \in T : \A j \in T : j <= i
<1>1. /\ Displayed(v, c) = IF A = {} THEN v ELSE c[Last(A)].payload
      /\ Displayed(v, Append(c, x)) = IF B = {} THEN v ELSE Append(c, x)[Last(B)].payload
  BY Zenon DEF Displayed, Positions, Shows
<1>2. /\ Len(c) \in Nat
      /\ A \subseteq 1..Len(c)
      /\ B = IF x.kind \in Shows THEN A \cup {Len(c) + 1} ELSE A
      /\ \A i \in 1..Len(c) : Append(c, x)[i] = c[i]
      /\ Append(c, x)[Len(c) + 1] = x
  BY AppendedPositions
<1> HIDE DEF A, B
<1>3. CASE x.kind \in Shows
  <2>1. Len(c) + 1 \in B /\ \A j \in B : j \in Int /\ j <= Len(c) + 1
    BY <1>2, <1>3
  <2>2. Last(B) = Len(c) + 1
    BY <2>1
  <2> HIDE DEF Last
  <2> QED BY Zenon, <1>1, <1>2, <1>3, <2>1, <2>2
<1>4. CASE x.kind \notin Shows /\ A # {}
  <2>1. \E i \in A : \A j \in A : j <= i
    BY Zenon, <1>2, <1>4, LastPosition
  <2>2. Last(A) \in A
    BY Zenon, <2>1
  <2> HIDE DEF Last
  <2> QED BY Zenon, <1>1, <1>2, <1>4, <2>2
<1>5. CASE x.kind \notin Shows /\ A = {}
  BY Zenon, <1>1, <1>2, <1>5
<1> QED BY Zenon, <1>3, <1>4, <1>5

\* An appended change plays a cue if it creates it.
LEMMA AppendedCreations ==
  ASSUME NEW c \in Seq(ChangeType), NEW x \in ChangeType
  PROVE  /\ Creations(c) \in Nat
         /\ Creations(Append(c, x)) = IF x.kind = "Create" THEN Creations(c) + 1 ELSE Creations(c)
<1> DEFINE K == {"Create"}
           A == Positions(c, K)
           B == Positions(Append(c, x), K)
<1>1. Creations(c) = Cardinality(A) /\ Creations(Append(c, x)) = Cardinality(B)
  BY Zenon DEF Creations, Positions
<1>2. /\ Len(c) \in Nat
      /\ A \subseteq 1..Len(c)
      /\ B = IF x.kind \in K THEN A \cup {Len(c) + 1} ELSE A
  <2> HIDE DEF K
  <2> QED BY AppendedPositions
<1> HIDE DEF A, B
<1>3. IsFiniteSet(A) /\ Cardinality(A) \in Nat
  <2>1. IsFiniteSet(1..Len(c))
    BY <1>2, FS_Interval
  <2>2. IsFiniteSet(A)
    BY Zenon, <1>2, <2>1, FS_Subset
  <2> QED BY Zenon, <2>2, FS_CardinalityType
<1>4. Len(c) + 1 \notin A
  BY <1>2
<1>5. Cardinality(A \cup {Len(c) + 1}) = Cardinality(A) + 1
  BY Zenon, <1>3, <1>4, FS_AddElement
<1> QED BY Zenon, <1>1, <1>2, <1>3, <1>5

\* Without changes nothing is displayed or played anew.
LEMMA NoChanges ==
  ASSUME NEW v
  PROVE  <<>> \in Seq(ChangeType) /\ Displayed(v, <<>>) = v /\ Creations(<<>>) = 0
<1>1. {i \in DOMAIN <<>> : <<>>[i].kind = "Create"} = {}
  OBVIOUS
<1>2. {i \in DOMAIN <<>> : <<>>[i].kind \in {"Create", "Update", "Cancel"}} = {}
  OBVIOUS
<1> QED BY <1>1, <1>2, FS_EmptySet DEF Displayed, Creations

-----------------------------------------------------------------------------
(* The stages of the pipeline.                                              *)

\* A stage with one more change is a stage; the change decides what it shows.
LEMMA EmitFacts ==
  ASSUME NEW s \in StageType, NEW x \in ChangeType
  PROVE  LET t == Emit(s, x.kind, x.payload) IN
         /\ t \in StageType /\ t.entry = s.entry
         /\ \A v : Displayed(v, t.changes) = IF x.kind \in Shows THEN x.payload ELSE Displayed(v, s.changes)
         /\ Creations(s.changes) \in Nat
         /\ Creations(t.changes) = IF x.kind = "Create" THEN Creations(s.changes) + 1 ELSE Creations(s.changes)
<1> DEFINE t == Emit(s, x.kind, x.payload)
<1>1. s.entry \in EntryType /\ s.changes \in Seq(ChangeType)
  BY Zenon DEF StageType
<1>2. x = [kind |-> x.kind, payload |-> x.payload]
  BY Zenon DEF ChangeType
<1>3. t = [s EXCEPT !.changes = Append(s.changes, x)]
  BY Zenon, <1>2 DEF Emit
<1>4. Append(s.changes, x) \in Seq(ChangeType)
  BY <1>1
<1>5. t \in StageType /\ t.entry = s.entry /\ t.changes = Append(s.changes, x)
  BY Zenon, <1>1, <1>3, <1>4 DEF StageType
<1> HIDE DEF t
<1>6. \A v : Displayed(v, t.changes) = IF x.kind \in Shows THEN x.payload ELSE Displayed(v, s.changes)
  BY <1>1, <1>5, AppendedDisplay
<1>7. /\ Creations(s.changes) \in Nat
      /\ Creations(t.changes) = IF x.kind = "Create" THEN Creations(s.changes) + 1 ELSE Creations(s.changes)
  BY <1>1, <1>5, AppendedCreations
<1> QED BY Zenon, <1>5, <1>6, <1>7 DEF t

\* The parts of a stage.
LEMMA StageParts ==
  ASSUME NEW s \in StageType
  PROVE  /\ s.entry \in EntryType /\ s.changes \in Seq(ChangeType)
         /\ s.entry.phase \in Phases /\ s.entry.decision \in Decisions
         /\ s.entry.delivered \in BOOLEAN /\ s.entry.payload \in Payloads \cup {None}
         /\ s.entry.binding \in (Indexes \X (1..MaxGeneration)) \cup {None}
  BY Zenon DEF StageType, EntryType

\* cancel ends the presentation, keeps what was decided and delivered, and
\* withdraws the display of what was live.
LEMMA CancelFacts ==
  ASSUME NEW k \in Keys, NEW s \in StageType, NEW phase \in Phases
  PROVE  LET t == Cancel(s, k, phase) IN
         /\ t \in StageType
         /\ t.entry.phase = phase /\ t.entry.payload = None
         /\ t.entry.decision = s.entry.decision /\ t.entry.delivered = s.entry.delivered
         /\ t.entry.binding = s.entry.binding
         /\ \A v : Displayed(v, t.changes) = IF s.entry.phase = "Live" /\ Delivery(k) # "OneShot"
                                            THEN None ELSE Displayed(v, s.changes)
         /\ Creations(t.changes) = Creations(s.changes)
<1> DEFINE x == [kind |-> "Cancel", payload |-> None]
           ends == s.entry.phase = "Live" /\ Delivery(k) # "OneShot"
           u == IF ends THEN Emit(s, x.kind, x.payload) ELSE s
           t == Cancel(s, k, phase)
<1>1. x \in ChangeType /\ x.kind = "Cancel" /\ x.payload = None
  BY Zenon DEF ChangeType, Shows
<1>2. t = [u EXCEPT !.entry.phase = phase, !.entry.payload = None]
  BY Zenon DEF Cancel
<1>3. /\ u \in StageType /\ u.entry = s.entry
      /\ \A v : Displayed(v, u.changes) = IF ends THEN None ELSE Displayed(v, s.changes)
      /\ Creations(u.changes) = Creations(s.changes)
  <2> HIDE DEF x, ends
  <2>1. CASE ends
    <3>1. u = Emit(s, x.kind, x.payload)
      BY Zenon, <2>1
    <3> HIDE DEF u
    <3> QED BY <1>1, <2>1, <3>1, EmitFacts DEF Shows
  <2>2. CASE ~ends
    <3>1. u = s
      BY Zenon, <2>2
    <3> HIDE DEF u
    <3> QED BY Zenon, <2>2, <3>1
  <2> QED BY Zenon, <2>1, <2>2
<1> HIDE DEF u, t
<1>4. u.entry \in EntryType /\ u.changes \in Seq(ChangeType)
  BY Zenon, <1>3, StageParts
<1>5. /\ t = [u EXCEPT !.entry = [u.entry EXCEPT !.phase = phase, !.payload = None]]
      /\ [u.entry EXCEPT !.phase = phase, !.payload = None] \in EntryType
  <2>1. [u.entry EXCEPT !.phase = phase, !.payload = None] \in EntryType
    BY Zenon, <1>4 DEF EntryType
  <2> QED BY Zenon, <1>2, <1>3, <2>1 DEF StageType, EntryType
<1>6. /\ t \in StageType /\ t.changes = u.changes
      /\ t.entry = [u.entry EXCEPT !.phase = phase, !.payload = None]
  BY Zenon, <1>3, <1>4, <1>5 DEF StageType
<1>7. /\ t.entry.phase = phase /\ t.entry.payload = None
      /\ t.entry.decision = s.entry.decision /\ t.entry.delivered = s.entry.delivered
      /\ t.entry.binding = s.entry.binding
  BY Zenon, <1>3, <1>4, <1>6 DEF EntryType
<1> QED BY Zenon, <1>3, <1>6, <1>7 DEF t

\* cancel keeps StageOK of an entry that exists.
LEMMA CancelOK ==
  ASSUME NEW k \in Keys, NEW s, StageOK(s, k), s.entry.phase # "Absent", NEW phase,
         phase \in {"Expired", "Rejected"} \/ (phase = "ReplayAbsent" /\ s.entry.phase = "Live")
  PROVE  /\ StageOK(Cancel(s, k, phase), k) /\ Keeps(Cancel(s, k, phase), k)
         /\ Cancel(s, k, phase).entry.phase = phase
         /\ Cancel(s, k, phase).entry.decision = s.entry.decision
<1> DEFINE t == Cancel(s, k, phase)
<1>1. s \in StageType /\ phase \in Phases
  BY Zenon DEF StageOK, Phases
<1>2. /\ t \in StageType
      /\ t.entry.phase = phase /\ t.entry.payload = None
      /\ t.entry.decision = s.entry.decision /\ t.entry.delivered = s.entry.delivered
      /\ t.entry.binding = s.entry.binding
      /\ Displayed(visuals[k], t.changes) = IF s.entry.phase = "Live" /\ Delivery(k) # "OneShot"
                                            THEN None ELSE Displayed(visuals[k], s.changes)
      /\ Creations(t.changes) = Creations(s.changes)
  BY <1>1, CancelFacts
<1> HIDE DEF t
<1>3. Delivery(k) # "OneShot" => Displayed(visuals[k], t.changes) = Visible(t.entry)
  BY Zenon, <1>2 DEF StageOK, Visible
<1>4. Over(entries[k]) => Over(t.entry)
  BY Zenon, <1>2 DEF StageOK, Over
<1>5. StageOK(t, k)
  BY Zenon, <1>2, <1>3, <1>4 DEF StageOK
<1>6. Keeps(t, k)
  BY Zenon, <1>2 DEF Keeps, Open
<1> QED BY Zenon, <1>2, <1>5, <1>6 DEF t

\* Replacing the entry of a stage.
LEMMA EntryReplaced ==
  ASSUME NEW s \in StageType, NEW e \in EntryType
  PROVE  LET t == [s EXCEPT !.entry = e] IN
         t \in StageType /\ t.entry = e /\ t.changes = s.changes
  BY Zenon DEF StageType

\* A pending entry whose action is rejected.
LEMMA RejectedOK ==
  ASSUME NEW k \in Keys, NEW s, StageOK(s, k), s.entry.phase # "Absent", s.entry.decision # "Accepted"
  PROVE  LET t == [s EXCEPT !.entry.decision = "Rejected"] IN
         StageOK(t, k) /\ t.entry.phase = s.entry.phase /\ t.entry.decision = "Rejected"
<1> DEFINE e == [s.entry EXCEPT !.decision = "Rejected"]
           t == [s EXCEPT !.entry.decision = "Rejected"]
<1>1. s \in StageType
  BY Zenon DEF StageOK
<1>2. s.entry \in EntryType /\ s.entry.decision \in Decisions
  BY Zenon, <1>1, StageParts
<1>3. /\ e \in EntryType /\ e.decision = "Rejected" /\ e.phase = s.entry.phase
      /\ e.payload = s.entry.payload /\ e.delivered = s.entry.delivered
      /\ e.binding = s.entry.binding
  BY Zenon, <1>2 DEF EntryType, Decisions
<1>4. t = [s EXCEPT !.entry = e]
  BY Zenon, <1>1, <1>2 DEF StageType, EntryType
<1> HIDE DEF e, t
<1>5. t \in StageType /\ t.entry = e /\ t.changes = s.changes
  BY Zenon, <1>1, <1>3, <1>4, EntryReplaced
<1>6. Delivery(k) # "OneShot" => Displayed(visuals[k], t.changes) = Visible(t.entry)
  BY Zenon, <1>3, <1>5 DEF StageOK, Visible
<1>7. Over(entries[k]) => Over(t.entry)
  BY Zenon, <1>3, <1>5 DEF StageOK, Over
<1>8. entries[k].decision # "Unresolved" => t.entry.decision = entries[k].decision
  BY Zenon, <1>2, <1>3, <1>5 DEF StageOK, Decisions
<1>9. StageOK(t, k)
  BY Zenon, <1>3, <1>5, <1>6, <1>7, <1>8 DEF StageOK
<1> QED BY Zenon, <1>3, <1>5, <1>9 DEF t

\* Rejecting an entry and cancelling it.
LEMMA TurnedDown ==
  ASSUME NEW k \in Keys, NEW s, StageOK(s, k), s.entry.phase # "Absent", s.entry.decision # "Accepted"
  PROVE  LET t == Cancel([s EXCEPT !.entry.decision = "Rejected"], k, "Rejected") IN
         /\ StageOK(t, k) /\ Keeps(t, k)
         /\ t.entry.phase = "Rejected" /\ t.entry.decision = "Rejected"
<1> DEFINE u == [s EXCEPT !.entry.decision = "Rejected"]
<1>1. StageOK(u, k) /\ u.entry.phase # "Absent" /\ u.entry.decision = "Rejected"
  BY Zenon, RejectedOK
<1> HIDE DEF u
<1>2. /\ StageOK(Cancel(u, k, "Rejected"), k) /\ Keeps(Cancel(u, k, "Rejected"), k)
      /\ Cancel(u, k, "Rejected").entry.phase = "Rejected"
      /\ Cancel(u, k, "Rejected").entry.decision = "Rejected"
  BY <1>1, CancelOK
<1> QED BY Zenon, <1>2 DEF u

\* entry: an identity that is not retired gets a record.
LEMMA EnteredOK ==
  ASSUME NEW k \in Keys, NEW s, StageOK(s, k), Keeps(s, k), Command(k) > retired,
         Command(k) \in Nat, retired \in Nat
  PROVE  /\ StageOK(Entered(s), k) /\ Keeps(Entered(s), k)
         /\ Entered(s).entry.phase # "Absent"
         /\ Entered(s).entry.decision = s.entry.decision
         /\ s.entry.phase # "Absent" => Entered(s) = s
<1> DEFINE t == Entered(s)
<1>1. s \in StageType
  BY Zenon DEF StageOK
<1>2. CASE s.entry.phase = "Absent"
  <2>1. /\ Unseen \in EntryType /\ Unseen.phase = "Unseen" /\ Unseen.decision = "Unresolved"
        /\ Unseen.delivered = FALSE /\ Unseen.payload = None /\ Unseen.binding = None
    BY Zenon DEF Unseen, NoEntry, EntryType, Phases, Decisions
  <2>2. t = [s EXCEPT !.entry = Unseen]
    BY Zenon, <1>2 DEF Entered
  <2> HIDE DEF t
  <2>3. t \in StageType /\ t.entry = Unseen /\ t.changes = s.changes
    BY Zenon, <1>1, <2>1, <2>2, EntryReplaced
  <2>4. s.entry.phase = "Absent" /\ s.entry.decision = "Unresolved" /\ s.entry.delivered = FALSE
    BY <1>2 DEF StageOK, NoEntry
  <2>5. Delivery(k) # "OneShot" => Displayed(visuals[k], t.changes) = Visible(t.entry)
    BY Zenon, <2>1, <2>3, <2>4 DEF StageOK, Visible
  <2>6. Over(entries[k]) => Over(t.entry)
    BY Zenon, <2>4 DEF StageOK, Over
  <2>7. ~(Command(k) <= retired)
    OBVIOUS
  <2>8. StageOK(t, k)
    BY Zenon, <2>1, <2>3, <2>4, <2>5, <2>6, <2>7 DEF StageOK
  <2>9. Keeps(t, k)
    BY Zenon, <2>1, <2>3 DEF Keeps
  <2> QED BY Zenon, <1>2, <2>1, <2>3, <2>4, <2>8, <2>9 DEF t
<1>3. CASE s.entry.phase # "Absent"
  <2>1. t = s
    BY Zenon, <1>3 DEF Entered
  <2> HIDE DEF t
  <2> QED BY Zenon, <1>3, <2>1 DEF t
<1> QED BY Zenon, <1>2, <1>3

\* The part of reconcile that withdraws.
LEMMA WithdrawnOK ==
  ASSUME NEW k \in Keys, NEW s, StageOK(s, k), Keeps(s, k), NEW first, NEW last
  PROVE  StageOK(Withdrawn(s, k, first, last), k) /\ Keeps(Withdrawn(s, k, first, last), k)
<1>1. CASE s.entry.phase = "Live" /\ s.entry.decision # "Accepted" /\ Origin(k) \in first..last
  <2>1. Withdrawn(s, k, first, last) = Cancel(s, k, "ReplayAbsent")
    BY Zenon, <1>1 DEF Withdrawn
  <2> QED BY <1>1, <2>1, CancelOK
<1>2. CASE ~(s.entry.phase = "Live" /\ s.entry.decision # "Accepted" /\ Origin(k) \in first..last)
  <2>1. Withdrawn(s, k, first, last) = s
    BY Zenon, <1>2 DEF Withdrawn
  <2> QED BY Zenon, <2>1
<1> QED BY Zenon, <1>1, <1>2

\* resolve confirms an entry once.
LEMMA ConfirmedOK ==
  ASSUME NEW k \in Keys, NEW s, StageOK(s, k), Keeps(s, k), s.entry.phase # "Absent",
         s.entry.decision # "Rejected", Command(k) \notin rejected
  PROVE  LET t == Confirmed(s) IN
         /\ StageOK(t, k) /\ Keeps(t, k) /\ t.entry.decision = "Accepted"
         /\ t.entry.phase = s.entry.phase /\ t.entry.binding = s.entry.binding
<1>1. s \in StageType
  BY Zenon DEF StageOK
<1>2. CASE s.entry.decision = "Accepted"
  <2>1. Confirmed(s) = s
    BY Zenon, <1>2 DEF Confirmed
  <2> QED BY Zenon, <1>2, <2>1
<1>3. CASE s.entry.decision # "Accepted"
  <2> DEFINE e == [s.entry EXCEPT !.decision = "Accepted"]
             u == [s EXCEPT !.entry = e]
             x == [kind |-> "Confirm", payload |-> None]
             t == Emit(u, x.kind, x.payload)
  <2>1. s.entry \in EntryType /\ s.entry.decision \in Decisions
    BY Zenon, <1>1, StageParts
  <2>2. /\ e \in EntryType /\ e.decision = "Accepted" /\ e.phase = s.entry.phase
        /\ e.payload = s.entry.payload /\ e.delivered = s.entry.delivered
        /\ e.binding = s.entry.binding
    BY Zenon, <2>1 DEF EntryType, Decisions
  <2>3. u = [s EXCEPT !.entry.decision = "Accepted"]
    BY Zenon, <1>1, <2>1 DEF StageType, EntryType
  <2>4. Confirmed(s) = t
    BY Zenon, <1>3, <2>3 DEF Confirmed
  <2>5. x \in ChangeType /\ x.kind = "Confirm"
    BY Zenon DEF ChangeType
  <2> HIDE DEF e, x
  <2>6. u \in StageType /\ u.entry = e /\ u.changes = s.changes
    BY Zenon, <1>1, <2>2, EntryReplaced
  <2> HIDE DEF u
  <2>7. /\ t \in StageType /\ t.entry = e
        /\ Displayed(visuals[k], t.changes) = Displayed(visuals[k], s.changes)
        /\ Creations(t.changes) = Creations(s.changes)
    BY <2>5, <2>6, EmitFacts DEF Shows
  <2> HIDE DEF t
  <2>8. Delivery(k) # "OneShot" => Displayed(visuals[k], t.changes) = Visible(t.entry)
    BY Zenon, <2>2, <2>7 DEF StageOK, Visible
  <2>9. Over(entries[k]) => Over(t.entry)
    BY Zenon, <2>2, <2>7 DEF StageOK, Over
  <2>10. entries[k].decision # "Unresolved" => t.entry.decision = entries[k].decision
    BY Zenon, <1>3, <2>1 DEF StageOK, Decisions
  <2>11. StageOK(t, k)
    BY Zenon, <2>2, <2>7, <2>8, <2>9, <2>10 DEF StageOK
  <2>12. Keeps(t, k)
    BY Zenon, <2>2, <2>7 DEF Keeps, Open
  <2> QED BY Zenon, <2>2, <2>4, <2>7, <2>11, <2>12
<1> QED BY Zenon, <1>2, <1>3

\* The part of reconcile that applies a corrected record: a confirmed live event
\* stays live.
LEMMA CorrectedOK ==
  ASSUME NEW k \in Keys, NEW s, StageOK(s, k), Keeps(s, k), s.entry.phase # "Absent",
         Command(k) > retired, Command(k) \in Nat, retired \in Nat, plays[k] \in Nat,
         NEW payload \in Payloads, NEW n
  PROVE  LET t == Corrected(s, k, payload, n) IN
         /\ StageOK(t, k) /\ Keeps(t, k)
         /\ s.entry.phase = "Live" /\ s.entry.decision = "Accepted" => t.entry.phase = "Live"
<1> DEFINE e == [s.entry EXCEPT !.phase = "Live", !.delivered = TRUE, !.payload = payload]
           live == [s EXCEPT !.entry = e]
           t == Corrected(s, k, payload, n)
<1>1. s \in StageType
  BY Zenon DEF StageOK
<1>2. CASE Command(k) \in rejected
  <2>1. s.entry.decision # "Accepted"
    BY Zenon, <1>2 DEF StageOK
  <2>2. t = Cancel([s EXCEPT !.entry.decision = "Rejected"], k, "Rejected")
    BY Zenon, <1>2 DEF Corrected
  <2> HIDE DEF t
  <2>3. StageOK(t, k) /\ Keeps(t, k)
    BY Zenon, <2>1, <2>2, TurnedDown
  <2> QED BY Zenon, <2>1, <2>3 DEF t
<1>3. CASE Command(k) \notin rejected /\ Over(s.entry)
  <2>1. t = s
    BY Zenon, <1>3 DEF Corrected
  <2> HIDE DEF t
  <2> QED BY Zenon, <2>1 DEF t
<1>4. CASE /\ Command(k) \notin rejected /\ ~Over(s.entry)
           /\ Delivery(k) # "SimulationOwned" /\ Expires(k) <= n /\ s.entry.phase # "Live"
  <2>1. t = Cancel(s, k, "Expired")
    BY Zenon, <1>4 DEF Corrected
  <2> HIDE DEF t
  <2>2. StageOK(t, k) /\ Keeps(t, k)
    BY Zenon, <2>1, CancelOK
  <2> QED BY Zenon, <1>4, <2>2 DEF t
<1>5. CASE /\ Command(k) \notin rejected /\ ~Over(s.entry)
           /\ ~(Delivery(k) # "SimulationOwned" /\ Expires(k) <= n /\ s.entry.phase # "Live")
  <2>1. /\ s.entry \in EntryType /\ s.entry.phase \in Phases
        /\ s.entry.delivered \in BOOLEAN /\ s.entry.decision \in Decisions
    BY Zenon, <1>1, StageParts
  <2>2. /\ e \in EntryType /\ e.phase = "Live" /\ e.delivered = TRUE /\ e.payload = payload
        /\ e.decision = s.entry.decision /\ e.binding = s.entry.binding
    BY Zenon, <2>1 DEF EntryType, Phases
  <2> HIDE DEF e
  <2>3. live \in StageType /\ live.entry = e /\ live.changes = s.changes
    BY Zenon, <1>1, <2>2, EntryReplaced
  <2>4. ~Over(entries[k])
    BY Zenon, <1>5 DEF StageOK
  <2> DEFINE Shown(u) == Delivery(k) # "OneShot" => Displayed(visuals[k], u.changes) = payload
             Once(u) == Delivery(k) = "OneShot" => plays[k] + Creations(u.changes) <= 1
  <2>5. ASSUME NEW u \in StageType, u.entry = e, Shown(u), Once(u)
        PROVE  StageOK(u, k) /\ Keeps(u, k) /\ u.entry.phase = "Live"
    <3>1. Delivery(k) # "OneShot" => Displayed(visuals[k], u.changes) = Visible(u.entry)
      BY Zenon, <2>2, <2>5 DEF Visible
    <3>2. /\ u.entry.phase = "Live" /\ u.entry.delivered = TRUE
          /\ u.entry.decision = s.entry.decision /\ u.entry.binding = s.entry.binding
      BY Zenon, <2>2, <2>5
    <3>3. ~(Command(k) <= retired)
      OBVIOUS
    <3>4. StageOK(u, k)
      BY Zenon, <2>4, <2>5, <3>1, <3>2, <3>3 DEF StageOK
    <3>5. u.entry.binding # None => Open(s.entry)
      BY Zenon, <1>5, <2>1, <3>2 DEF StageOK, Over, Open, Phases
    <3>6. Keeps(u, k)
      BY Zenon, <3>2, <3>5 DEF Keeps
    <3> QED BY Zenon, <3>2, <3>4, <3>6
  <2>6. Creations(s.changes) \in Nat
    <3> DEFINE x == [kind |-> "Confirm", payload |-> None]
    <3>1. x \in ChangeType
      BY Zenon DEF ChangeType
    <3> QED BY Zenon, <1>1, <3>1, EmitFacts
  <2>7. CASE Creates(s.entry, k)
    <3> DEFINE x == [kind |-> "Create", payload |-> payload]
               u == Emit(live, x.kind, x.payload)
    <3>1. x \in ChangeType /\ x.kind = "Create" /\ x.payload = payload
      BY Zenon DEF ChangeType, Shows
    <3>2. t = u
      BY Zenon, <1>5, <2>7 DEF Corrected, e
    <3> HIDE DEF x, live, t
    <3>3. /\ u \in StageType /\ u.entry = e
          /\ Displayed(visuals[k], u.changes) = payload
          /\ Creations(u.changes) = Creations(s.changes) + 1
      BY <2>3, <3>1, EmitFacts DEF Shows
    <3> HIDE DEF u
    <3>4. Delivery(k) = "OneShot" => plays[k] + Creations(s.changes) = 0
      BY Zenon, <2>1, <2>7 DEF Creates, StageOK
    <3>5. Once(u)
      BY <2>6, <3>3, <3>4
    <3>6. Shown(u)
      BY Zenon, <3>3
    <3> HIDE DEF Shown, Once
    <3>7. StageOK(u, k) /\ Keeps(u, k) /\ u.entry.phase = "Live"
      BY Zenon, <2>5, <3>3, <3>5, <3>6
    <3> QED BY Zenon, <3>2, <3>7 DEF t
  <2>8. CASE ~Creates(s.entry, k)
    <3>1. Delivery(k) # "OneShot" => s.entry.phase = "Live"
      BY Zenon, <2>8 DEF Creates
    <3>2. CASE s.entry.payload # payload /\ (Delivery(k) # "OneShot" \/ s.entry.phase = "Live")
      <4> DEFINE x == [kind |-> "Update", payload |-> payload]
                 u == Emit(live, x.kind, x.payload)
      <4>1. x \in ChangeType /\ x.kind = "Update" /\ x.payload = payload
        BY Zenon DEF ChangeType, Shows
      <4>2. t = u
        BY Zenon, <1>5, <2>8, <3>2 DEF Corrected, e
      <4> HIDE DEF x, live, t
      <4>3. /\ u \in StageType /\ u.entry = e
            /\ Displayed(visuals[k], u.changes) = payload
            /\ Creations(u.changes) = Creations(s.changes)
        BY ZenonT(30), <2>3, <4>1, EmitFacts DEF Shows
      <4> HIDE DEF u
      <4>4. Once(u)
        BY Zenon, <4>3 DEF StageOK
      <4>5. Shown(u)
        BY Zenon, <4>3
      <4> HIDE DEF Shown, Once
      <4>6. StageOK(u, k) /\ Keeps(u, k) /\ u.entry.phase = "Live"
        BY Zenon, <2>5, <4>3, <4>4, <4>5
      <4> QED BY Zenon, <4>2, <4>6 DEF t
    <3>3. CASE ~(s.entry.payload # payload /\ (Delivery(k) # "OneShot" \/ s.entry.phase = "Live"))
      <4>1. t = live
        BY Zenon, <1>5, <2>8, <3>3 DEF Corrected, e
      <4> HIDE DEF live, t
      <4>2. Once(live)
        BY Zenon, <2>3 DEF StageOK
      <4>3. Shown(live)
        BY Zenon, <2>3, <3>1, <3>3 DEF StageOK, Visible
      <4> HIDE DEF Shown, Once
      <4>4. StageOK(live, k) /\ Keeps(live, k) /\ live.entry.phase = "Live"
        BY Zenon, <2>3, <2>5, <4>2, <4>3
      <4> QED BY Zenon, <4>1, <4>4 DEF t
    <3> QED BY Zenon, <3>2, <3>3
  <2> QED BY Zenon, <2>7, <2>8
<1> QED BY Zenon, <1>2, <1>3, <1>4, <1>5

\* bind gives a confirmed entry its entity.
LEMMA BoundOK ==
  ASSUME NEW k \in Keys, NEW s, StageOK(s, k), s.entry.phase # "Absent", s.entry.decision = "Accepted",
         NEW b \in Indexes \X (1..MaxGeneration), NEW kind \in {"Bind", "BindRetired"}
  PROVE  LET t == Emit([s EXCEPT !.entry.binding = b], kind, None) IN
         StageOK(t, k) /\ t.entry.binding = b /\ t.entry.phase = s.entry.phase
<1> DEFINE e == [s.entry EXCEPT !.binding = b]
           u == [s EXCEPT !.entry = e]
           x == [kind |-> kind, payload |-> None]
           t == Emit(u, x.kind, x.payload)
<1>1. s \in StageType
  BY Zenon DEF StageOK
<1>2. s.entry \in EntryType
  BY Zenon, <1>1, StageParts
<1>3. /\ e \in EntryType /\ e.binding = b /\ e.phase = s.entry.phase
      /\ e.payload = s.entry.payload /\ e.delivered = s.entry.delivered
      /\ e.decision = s.entry.decision
  BY Zenon, <1>2 DEF EntryType
<1>4. u = [s EXCEPT !.entry.binding = b]
  BY Zenon, <1>1, <1>2 DEF StageType, EntryType
<1>5. t = Emit([s EXCEPT !.entry.binding = b], kind, None)
  BY Zenon, <1>4
<1>6. x \in ChangeType /\ x.kind = kind /\ x.kind \notin Shows
  BY Zenon DEF ChangeType, Shows
<1> HIDE DEF e, x
<1>7. u \in StageType /\ u.entry = e /\ u.changes = s.changes
  BY Zenon, <1>1, <1>3, EntryReplaced
<1> HIDE DEF u
<1>8. /\ t \in StageType /\ t.entry = e
      /\ Displayed(visuals[k], t.changes) = Displayed(visuals[k], s.changes)
      /\ Creations(t.changes) = Creations(s.changes)
  BY SMTT(30), <1>6, <1>7, EmitFacts DEF Shows
<1> HIDE DEF t
<1>9. Delivery(k) # "OneShot" => Displayed(visuals[k], t.changes) = Visible(t.entry)
  BY Zenon, <1>3, <1>8 DEF StageOK, Visible
<1>10. Over(entries[k]) => Over(t.entry)
  BY Zenon, <1>3, <1>8 DEF StageOK, Over
<1>11. StageOK(t, k)
  BY Zenon, <1>3, <1>8, <1>9, <1>10 DEF StageOK
<1> QED BY Zenon, <1>3, <1>5, <1>8, <1>11

\* The types that the invariant gives.
LEMMA JournalTypes ==
  ASSUME JournalAssumption, JournalInv
  PROVE  /\ retired \in Nat /\ now \in Nat
         /\ entries \in [Keys -> EntryType] /\ plays \in [Keys -> Nat]
         /\ \A k \in Keys : Command(k) \in Nat
<1>1. Commands \subseteq Nat
  BY Zenon DEF JournalAssumption
<1>2. \A k \in Keys : Command(k) \in Commands
  BY Zenon DEF Commands
<1>3. retired \in Commands \cup {0} /\ now \in 0..MaxTick
  BY Zenon DEF JournalInv, TypeOK
<1>4. entries \in [Keys -> EntryType]
  BY Zenon DEF JournalInv, TypeOK, EntryType, Phases, Decisions
<1>5. MaxTick \in Nat
  BY Zenon DEF JournalAssumption
<1>6. retired \in Nat
  BY <1>1, <1>3
<1>7. now \in Nat
  BY <1>3, <1>5
<1>8. plays \in [Keys -> Nat]
  BY Zenon DEF JournalInv
<1> QED BY Zenon, <1>1, <1>2, <1>4, <1>6, <1>7, <1>8

\* A transaction starts from the committed entries.
LEMMA StagedOK ==
  ASSUME JournalAssumption, JournalInv, NEW k \in Keys
  PROVE  /\ StageOK(Staged[k], k) /\ Keeps(Staged[k], k)
         /\ Staged[k].entry = entries[k]
<1> DEFINE s == Staged[k]
<1>1. s.entry = entries[k] /\ s.changes = <<>>
  BY Zenon DEF Staged
<1>2. s = [entry |-> entries[k], changes |-> <<>>]
  BY Zenon DEF Staged
<1> HIDE DEF s
<1>3. entries[k] \in EntryType /\ plays[k] \in Nat /\ KeyOK(k)
  BY Zenon, JournalTypes DEF JournalInv
<1>4. s \in StageType
  BY Zenon, <1>2, <1>3, NoChanges DEF StageType
<1>5. /\ Displayed(visuals[k], s.changes) = visuals[k]
      /\ plays[k] + Creations(s.changes) = plays[k]
  BY <1>1, <1>3, NoChanges
<1>6. StageOK(s, k)
  BY Zenon, <1>1, <1>3, <1>4, <1>5 DEF StageOK, KeyOK
<1>7. Keeps(s, k)
  BY Zenon, <1>1 DEF Keeps
<1> QED BY Zenon, <1>1, <1>6, <1>7 DEF s

\* advance_inner lets pending entries lapse and touches nothing else.
LEMMA AdvancedOK ==
  ASSUME JournalAssumption, JournalInv, NEW n, NEW k \in Keys
  PROVE  LET s == Advanced(n)[k] IN
         /\ StageOK(s, k) /\ Keeps(s, k)
         /\ s.entry.decision = entries[k].decision
         /\ s.entry.phase = "Absent" <=> entries[k].phase = "Absent"
         /\ entries[k].decision = "Accepted" => s.entry = entries[k]
<1> DEFINE s == Advanced(n)[k]
           r == Staged[k]
<1>1. s = IF Lapsed(entries[k], k, n) THEN Cancel(r, k, "Expired") ELSE r
  BY Zenon DEF Advanced
<1>2. StageOK(r, k) /\ Keeps(r, k) /\ r.entry = entries[k]
  BY Zenon, StagedOK
<1> HIDE DEF r, s
<1>3. CASE Lapsed(entries[k], k, n)
  <2>1. entries[k].decision # "Accepted" /\ entries[k].phase # "Absent"
    BY Zenon, <1>3 DEF Lapsed
  <2>2. /\ StageOK(s, k) /\ Keeps(s, k)
        /\ s.entry.phase = "Expired" /\ s.entry.decision = entries[k].decision
    BY <1>1, <1>2, <1>3, <2>1, CancelOK
  <2> QED BY Zenon, <2>1, <2>2 DEF s
<1>4. CASE ~Lapsed(entries[k], k, n)
  BY Zenon, <1>1, <1>2, <1>4 DEF s
<1> QED BY Zenon, <1>3, <1>4

\* Every stage of a transaction relates to the state it started from.
Staging(stage) == \A k \in Keys : StageOK(stage[k], k)

\* No confirmed entry belongs to a rejected action.
Unrejected(stage, R) ==
  \A k \in Keys : stage[k].entry.decision = "Accepted" => Command(k) \notin R

\* What a step may do to the entry of k: an identity that is over or retired does
\* not become live, and a decision stays.
Settled(k) ==
  /\ Over(entries[k]) \/ Command(k) <= retired => entries'[k].phase # "Live"
  /\ entries[k].decision # "Unresolved" =>
       entries'[k].decision = entries[k].decision \/ entries'[k].phase = "Absent"

\* A commit of such stages publishes a state that the consumer agrees with.
LEMMA CommitOK ==
  ASSUME JournalAssumption, JournalInv, NEW stage, Staging(stage), Commit(stage),
         retired' = retired, Unrejected(stage, rejected')
  PROVE  /\ entries' \in [Keys -> EntryType] /\ visuals' \in [Keys -> Payloads \cup {None}]
         /\ plays' \in [Keys -> Nat]
         /\ \A k \in Keys : KeyOK(k)' /\ Settled(k) /\ entries'[k] = stage[k].entry
<1>1. ASSUME NEW k \in Keys
      PROVE  /\ entries'[k] = stage[k].entry /\ stage[k].entry \in EntryType
             /\ KeyOK(k)' /\ Settled(k)
             /\ visuals'[k] \in Payloads \cup {None} /\ plays'[k] \in Nat
  <2>1. StageOK(stage[k], k)
    BY Zenon DEF Staging
  <2>2. /\ entries'[k] = stage[k].entry
        /\ visuals'[k] = IF Delivery(k) = "OneShot" THEN None
                         ELSE Displayed(visuals[k], stage[k].changes)
        /\ plays'[k] = IF Delivery(k) = "OneShot" THEN plays[k] + Creations(stage[k].changes) ELSE 0
    BY Zenon DEF Commit
  <2>3. /\ stage[k] \in StageType /\ stage[k].entry \in EntryType
        /\ stage[k].changes \in Seq(ChangeType)
        /\ stage[k].entry.payload \in Payloads \cup {None}
    BY Zenon, <2>1, StageParts DEF StageOK
  <2>4. visuals'[k] = IF Delivery(k) # "OneShot" THEN Visible(entries'[k]) ELSE None
    BY Zenon, <2>1, <2>2 DEF StageOK
  <2>5. visuals'[k] \in Payloads \cup {None}
    BY Zenon, <2>2, <2>3, <2>4 DEF Visible
  <2>6. Creations(stage[k].changes) \in Nat /\ plays[k] \in Nat
    <3> DEFINE x == [kind |-> "Confirm", payload |-> None]
    <3>1. x \in ChangeType
      BY Zenon DEF ChangeType
    <3> QED BY Zenon, <2>3, <3>1, AppendedCreations, JournalTypes
  <2>7. plays'[k] \in Nat
    BY <2>2, <2>6
  <2>8. Delivery(k) = "OneShot" =>
          plays'[k] <= 1 /\ (entries'[k].delivered = FALSE /\ Command(k) > retired' => plays'[k] = 0)
    BY Zenon, <2>1, <2>2 DEF StageOK
  <2>9. entries'[k].decision = "Accepted" => Command(k) \notin rejected'
    BY Zenon, <2>2 DEF Unrejected
  <2>10. /\ entries'[k].phase = "Absent" => entries'[k] = NoEntry
         /\ Command(k) <= retired' => entries'[k].phase = "Absent"
         /\ entries'[k].binding # None => entries'[k].decision = "Accepted"
    BY Zenon, <2>1, <2>2 DEF StageOK
  <2>11. KeyOK(k)'
    BY Zenon, <2>4, <2>8, <2>9, <2>10 DEF KeyOK, Visible
  <2>12. Settled(k)
    <3>1. Over(entries[k]) => entries'[k].phase # "Live"
      BY Zenon, <2>1, <2>2 DEF StageOK, Over
    <3>2. Command(k) <= retired => entries'[k].phase # "Live"
      BY Zenon, <2>1, <2>2 DEF StageOK
    <3>3. entries[k].decision # "Unresolved" => entries'[k].decision = entries[k].decision
      BY Zenon, <2>1, <2>2 DEF StageOK
    <3> QED BY Zenon, <3>1, <3>2, <3>3 DEF Settled
  <2> QED BY Zenon, <2>2, <2>3, <2>5, <2>7, <2>11, <2>12
<1>2. /\ entries' = [k \in Keys |-> stage[k].entry]
      /\ visuals' = [k \in Keys |-> visuals'[k]] /\ plays' = [k \in Keys |-> plays'[k]]
  BY Zenon DEF Commit
<1> QED BY Zenon, <1>1, <1>2

-----------------------------------------------------------------------------
(* The operations.                                                          *)

\* The limits of the journal hold of the entries and fences of the next state.
Limited(stage) ==
  /\ HasRecords(stage)
  /\ rejected' \subseteq Commands /\ IsFiniteSet(rejected') /\ Cardinality(rejected') <= Fences

\* A transaction restores the invariant, given that the bindings agree.
LEMMA TransactionOK ==
  ASSUME JournalAssumption, JournalInv, NEW stage, Staging(stage), Commit(stage),
         NEW n \in now..MaxTick, now' = n, retired' = retired, scope' = scope,
         Unrejected(stage, rejected'), Limited(stage),
         bindings' \in [Indexes -> [generation : 0..MaxGeneration, key : Keys \cup {None}]],
         \A k \in Keys : BindingOK(k)'
  PROVE  JournalInv' /\ \A k \in Keys : Settled(k)
<1>1. /\ entries' \in [Keys -> EntryType] /\ visuals' \in [Keys -> Payloads \cup {None}]
      /\ plays' \in [Keys -> Nat]
      /\ \A k \in Keys : KeyOK(k)' /\ Settled(k) /\ entries'[k] = stage[k].entry
  BY Zenon, CommitOK
<1>2. now' \in 0..MaxTick
  <2>1. now \in Nat /\ MaxTick \in Nat
    BY Zenon, JournalTypes DEF JournalAssumption
  <2> QED BY <2>1
<1>3. {k \in Keys : entries'[k].phase # "Absent"} = {k \in Keys : Present(stage, k)}
  BY Zenon, <1>1 DEF Present
<1>4. Cardinality({k \in Keys : entries'[k].phase # "Absent"}) <= Records
  BY Zenon, <1>3 DEF Limited, HasRecords
<1>5. TypeOK'
  BY Zenon, <1>1, <1>2, <1>4 DEF JournalInv, TypeOK, Limited, EntryType, Phases, Decisions
<1>6. IsFiniteSet(rejected')
  BY Zenon DEF Limited
<1> QED BY Zenon, <1>1, <1>5, <1>6 DEF JournalInv

\* The bindings of all stages were there before.
Keeping(stage) == \A k \in Keys : Keeps(stage[k], k)

\* A transaction that binds nothing.
LEMMA UnboundTransaction ==
  ASSUME JournalAssumption, JournalInv, NEW stage, Staging(stage), Keeping(stage), Commit(stage),
         NEW n \in now..MaxTick, now' = n, retired' = retired, scope' = scope,
         Unrejected(stage, rejected'), Limited(stage), bindings' = bindings
  PROVE  JournalInv' /\ \A k \in Keys : Settled(k)
<1>1. bindings' \in [Indexes -> [generation : 0..MaxGeneration, key : Keys \cup {None}]]
  BY Zenon DEF JournalInv, TypeOK
<1>2. ASSUME NEW k \in Keys PROVE BindingOK(k)'
  <2>1. entries'[k] = stage[k].entry
    BY Zenon, CommitOK
  <2>2. Keeps(stage[k], k) /\ BindingOK(k)
    BY Zenon DEF Keeping, JournalInv
  <2> QED BY Zenon, <2>1, <2>2 DEF Keeps, BindingOK, Open
<1> QED BY Zenon, <1>1, <1>2, TransactionOK

\* A transaction that neither binds nor rejects an action.
LEMMA PlainTransaction ==
  ASSUME JournalAssumption, JournalInv, NEW stage, Staging(stage), Keeping(stage), Commit(stage),
         NEW n \in now..MaxTick, now' = n, HasRecords(stage),
         UNCHANGED <<scope, retired, bindings, rejected>>
  PROVE  JournalInv' /\ \A k \in Keys : Settled(k)
<1>1. rejected' = rejected /\ retired' = retired /\ scope' = scope /\ bindings' = bindings
  BY Zenon
<1>2. Unrejected(stage, rejected')
  BY Zenon, <1>1 DEF Staging, StageOK, Unrejected
<1>3. Limited(stage)
  BY Zenon, <1>1 DEF Limited, JournalInv, TypeOK
<1> QED BY Zenon, <1>1, <1>2, <1>3, UnboundTransaction

\* Without a new record the journal stays within its limit.
LEMMA SameRecords ==
  ASSUME JournalAssumption, JournalInv, NEW stage,
         \A k \in Keys : stage[k].entry.phase = "Absent" <=> entries[k].phase = "Absent"
  PROVE  HasRecords(stage)
<1>1. {k \in Keys : Present(stage, k)} = {k \in Keys : entries[k].phase # "Absent"}
  BY Zenon DEF Present
<1> QED BY Zenon, <1>1 DEF HasRecords, JournalInv, TypeOK

\* advance
LEMMA AdvanceInv ==
  ASSUME JournalAssumption, JournalInv, NEW n \in now..MaxTick, Advance(n)
  PROVE  JournalInv' /\ \A k \in Keys : Settled(k)
<1> DEFINE stage == Advanced(n)
<1>1. Staging(stage) /\ Keeping(stage)
  BY Zenon, AdvancedOK DEF Staging, Keeping
<1>2. HasRecords(stage)
  BY Zenon, AdvancedOK, SameRecords
<1>3. Commit(stage) /\ now' = n /\ UNCHANGED <<scope, retired, bindings, rejected>>
  BY Zenon DEF Advance
<1> HIDE DEF stage
<1> QED BY Zenon, <1>1, <1>2, <1>3, PlainTransaction

\* reconcile: a confirmed live event stays live.
LEMMA ReconcileStages ==
  ASSUME JournalAssumption, JournalInv, NEW n, NEW first, NEW last,
         NEW given \in SUBSET Keys, NEW corrected \in [given -> Payloads],
         Reconcile(n, first, last, corrected)
  PROVE  /\ \E stage :
              /\ Staging(stage) /\ Keeping(stage) /\ HasRecords(stage) /\ Commit(stage) /\ now' = n
              /\ UNCHANGED <<scope, retired, bindings, rejected>>
         /\ \A k \in Keys : Live(k) /\ entries[k].decision = "Accepted" => entries'[k].phase = "Live"
<1> DEFINE stage == [k \in Keys |->
                      IF k \in given THEN Corrected(Entered(Advanced(n)[k]), k, corrected[k], n)
                      ELSE Withdrawn(Advanced(n)[k], k, first, last)]
<1>1. DOMAIN corrected = given
  BY Zenon
<1>2. /\ \A k \in given : Valid(k, n)
      /\ HasRecords(stage) /\ Commit(stage) /\ now' = n
      /\ UNCHANGED <<scope, retired, bindings, rejected>>
  BY Zenon, <1>1 DEF Reconcile
<1>3. ASSUME NEW k \in Keys
      PROVE  /\ StageOK(stage[k], k) /\ Keeps(stage[k], k)
             /\ Live(k) /\ entries[k].decision = "Accepted" => stage[k].entry.phase = "Live"
  <2> DEFINE s == Advanced(n)[k]
  <2>1. /\ StageOK(s, k) /\ Keeps(s, k)
        /\ entries[k].decision = "Accepted" => s.entry = entries[k]
    BY Zenon, AdvancedOK
  <2>2. Command(k) \in Nat /\ retired \in Nat /\ plays[k] \in Nat
    BY Zenon, JournalTypes
  <2> HIDE DEF s
  <2>3. CASE k \in given
    <3>1. Command(k) > retired
      BY Zenon, <1>2, <2>3 DEF Valid
    <3> DEFINE t == Entered(s)
               c == corrected[k]
    <3>2. /\ StageOK(t, k) /\ Keeps(t, k) /\ t.entry.phase # "Absent"
          /\ s.entry.phase # "Absent" => t = s
      BY Zenon, <2>1, <2>2, <3>1, EnteredOK
    <3>3. c \in Payloads
      BY Zenon, <2>3
    <3>4. stage[k] = Corrected(t, k, c, n)
      BY Zenon, <2>3 DEF s
    <3> HIDE DEF t, c, stage
    <3>5. /\ StageOK(Corrected(t, k, c, n), k) /\ Keeps(Corrected(t, k, c, n), k)
          /\ t.entry.phase = "Live" /\ t.entry.decision = "Accepted" =>
               Corrected(t, k, c, n).entry.phase = "Live"
      BY Zenon, <2>2, <3>1, <3>2, <3>3, CorrectedOK
    <3>6. Live(k) /\ entries[k].decision = "Accepted" => t.entry = entries[k]
      BY Zenon, <2>1, <3>2 DEF Live
    <3> QED BY Zenon, <3>4, <3>5, <3>6 DEF Live
  <2>4. CASE k \notin given
    <3>1. stage[k] = Withdrawn(s, k, first, last)
      BY Zenon, <2>4 DEF s
    <3> HIDE DEF stage
    <3>2. StageOK(stage[k], k) /\ Keeps(stage[k], k)
      BY Zenon, <2>1, <3>1, WithdrawnOK
    <3>3. Live(k) /\ entries[k].decision = "Accepted" => stage[k].entry.phase = "Live"
      BY Zenon, <2>1, <3>1 DEF Withdrawn, Live
    <3> QED BY Zenon, <3>2, <3>3
  <2> QED BY ZenonT(30), <2>3, <2>4
<1> HIDE DEF stage
<1>4. Staging(stage) /\ Keeping(stage)
  BY Zenon, <1>3 DEF Staging, Keeping
<1>5. ASSUME NEW k \in Keys PROVE entries'[k] = stage[k].entry
  BY Zenon, <1>2 DEF Commit
<1> QED BY Zenon, <1>2, <1>3, <1>4, <1>5

LEMMA ReplayInv ==
  ASSUME JournalAssumption, JournalInv, NEW n \in now..MaxTick, Replay(n)
  PROVE  JournalInv' /\ \A k \in Keys : Settled(k)
<1>1. PICK first \in 0..n, last \in 0..n, given \in SUBSET Keys :
        \E corrected \in [given -> Payloads] : Reconcile(n, first, last, corrected)
  BY Zenon DEF Replay
<1>2. PICK corrected \in [given -> Payloads] : Reconcile(n, first, last, corrected)
  BY Zenon, <1>1
<1>3. PICK stage : /\ Staging(stage) /\ Keeping(stage) /\ HasRecords(stage) /\ Commit(stage)
                   /\ now' = n /\ UNCHANGED <<scope, retired, bindings, rejected>>
  BY Zenon, <1>2, ReconcileStages
<1> QED BY Zenon, <1>3, PlainTransaction

\* A replay keeps a confirmed live event.
LEMMA ReplayKeeps ==
  ASSUME JournalAssumption, JournalInv, NEW n, Replay(n), NEW k \in Keys,
         Live(k), entries[k].decision = "Accepted"
  PROVE  entries'[k].phase = "Live"
<1>1. PICK first \in 0..n, last \in 0..n, given \in SUBSET Keys :
        \E corrected \in [given -> Payloads] : Reconcile(n, first, last, corrected)
  BY Zenon DEF Replay
<1>2. PICK corrected \in [given -> Payloads] : Reconcile(n, first, last, corrected)
  BY Zenon, <1>1
<1> QED BY Zenon, <1>2, ReconcileStages

\* A transaction on one key.
LEMMA OneKey ==
  ASSUME JournalAssumption, JournalInv, NEW n, NEW k \in Keys, NEW x, StageOK(x, k)
  PROVE  LET stage == [Advanced(n) EXCEPT ![k] = x] IN
         /\ Staging(stage) /\ (Keeps(x, k) => Keeping(stage))
         /\ stage[k] = x
         /\ \A l \in Keys \ {k} : stage[l] = Advanced(n)[l]
<1> DEFINE stage == [Advanced(n) EXCEPT ![k] = x]
<1>1. Advanced(n) = [l \in Keys |-> Advanced(n)[l]]
  BY Zenon DEF Advanced
<1>2. stage[k] = x /\ \A l \in Keys \ {k} : stage[l] = Advanced(n)[l]
  BY Zenon, <1>1
<1> HIDE DEF stage
<1>3. \A l \in Keys : StageOK(Advanced(n)[l], l) /\ Keeps(Advanced(n)[l], l)
  BY Zenon, AdvancedOK
<1>4. ASSUME NEW l \in Keys PROVE StageOK(stage[l], l) /\ (Keeps(x, k) => Keeps(stage[l], l))
  <2>1. CASE l = k
    BY Zenon, <1>2, <2>1
  <2>2. CASE l # k
    BY Zenon, <1>2, <1>3, <2>2
  <2> QED BY Zenon, <2>1, <2>2
<1> QED BY Zenon, <1>2, <1>4 DEF Staging, Keeping, stage

\* The entry of a valid key after the clock has advanced.
LEMMA ValidEntry ==
  ASSUME JournalAssumption, JournalInv, NEW n, NEW k \in Keys, Valid(k, n)
  PROVE  LET s == Entered(Advanced(n)[k]) IN
         StageOK(s, k) /\ Keeps(s, k) /\ s.entry.phase # "Absent"
<1> DEFINE r == Advanced(n)[k]
<1>1. StageOK(r, k) /\ Keeps(r, k)
  BY Zenon, AdvancedOK
<1>2. Command(k) \in Nat /\ retired \in Nat /\ Command(k) > retired
  BY Zenon, JournalTypes DEF Valid
<1> HIDE DEF r
<1>3. StageOK(Entered(r), k) /\ Keeps(Entered(r), k) /\ Entered(r).entry.phase # "Absent"
  BY Zenon, <1>1, <1>2, EnteredOK
<1> QED BY Zenon, <1>3 DEF r

\* resolve with Outcome::Rejected
LEMMA ResolveRejectedInv ==
  ASSUME JournalAssumption, JournalInv, NEW n \in now..MaxTick, NEW k \in Keys, ResolveRejected(n, k)
  PROVE  JournalInv' /\ \A l \in Keys : Settled(l)
<1> DEFINE s == Entered(Advanced(n)[k])
           x == Cancel([s EXCEPT !.entry.decision = "Rejected"], k, "Rejected")
           stage == [Advanced(n) EXCEPT ![k] = x]
<1>1. /\ Valid(k, n) /\ s.entry.decision # "Accepted"
      /\ HasRecords(stage) /\ Commit(stage) /\ now' = n
      /\ UNCHANGED <<scope, retired, bindings, rejected>>
  BY Zenon DEF ResolveRejected
<1>2. StageOK(s, k) /\ s.entry.phase # "Absent"
  BY Zenon, <1>1, ValidEntry
<1> HIDE DEF s
<1>3. StageOK(x, k) /\ Keeps(x, k)
  BY Zenon, <1>1, <1>2, TurnedDown
<1> HIDE DEF x
<1>4. Staging(stage) /\ Keeping(stage)
  BY Zenon, <1>3, OneKey
<1> HIDE DEF stage
<1> QED BY Zenon, <1>1, <1>4, PlainTransaction

\* resolve with Outcome::Accepted and no binding
LEMMA ResolveAcceptedInv ==
  ASSUME JournalAssumption, JournalInv, NEW n \in now..MaxTick, NEW k \in Keys, ResolveAccepted(n, k)
  PROVE  JournalInv' /\ \A l \in Keys : Settled(l)
<1> DEFINE s == Entered(Advanced(n)[k])
           x == Confirmed(s)
           stage == [Advanced(n) EXCEPT ![k] = x]
<1>1. /\ Acceptable(s, k, n)
      /\ HasRecords(stage) /\ Commit(stage) /\ now' = n
      /\ UNCHANGED <<scope, retired, bindings, rejected>>
  BY Zenon DEF ResolveAccepted
<1>2. Valid(k, n) /\ s.entry.decision # "Rejected" /\ Command(k) \notin rejected
  BY Zenon, <1>1 DEF Acceptable
<1>3. StageOK(s, k) /\ Keeps(s, k) /\ s.entry.phase # "Absent"
  BY Zenon, <1>2, ValidEntry
<1> HIDE DEF s
<1>4. StageOK(x, k) /\ Keeps(x, k)
  BY Zenon, <1>2, <1>3, ConfirmedOK
<1> HIDE DEF x
<1>5. Staging(stage) /\ Keeping(stage)
  BY Zenon, <1>4, OneKey
<1> HIDE DEF stage
<1> QED BY Zenon, <1>1, <1>5, PlainTransaction

\* expire
LEMMA ExpireInv ==
  ASSUME JournalAssumption, JournalInv, NEW n \in now..MaxTick, NEW k \in Keys, Expire(n, k)
  PROVE  JournalInv' /\ \A l \in Keys : Settled(l)
<1> DEFINE s == Entered(Advanced(n)[k])
           x == IF s.entry.phase = "Rejected" THEN s ELSE Cancel(s, k, "Expired")
           stage == [Advanced(n) EXCEPT ![k] = x]
<1>1. /\ Valid(k, n)
      /\ HasRecords(stage) /\ Commit(stage) /\ now' = n
      /\ UNCHANGED <<scope, retired, bindings, rejected>>
  BY Zenon DEF Expire
<1>2. StageOK(s, k) /\ Keeps(s, k) /\ s.entry.phase # "Absent"
  BY Zenon, <1>1, ValidEntry
<1> HIDE DEF s
<1>3. StageOK(Cancel(s, k, "Expired"), k) /\ Keeps(Cancel(s, k, "Expired"), k)
  BY Zenon, <1>2, CancelOK
<1>4. StageOK(x, k) /\ Keeps(x, k)
  BY Zenon, <1>2, <1>3
<1> HIDE DEF x
<1>5. Staging(stage) /\ Keeping(stage)
  BY Zenon, <1>4, OneKey
<1> HIDE DEF stage
<1> QED BY Zenon, <1>1, <1>5, PlainTransaction

\* reject_action
LEMMA RejectActionInv ==
  ASSUME JournalAssumption, JournalInv, NEW n \in now..MaxTick, NEW c \in Commands, RejectAction(n, c)
  PROVE  JournalInv' /\ \A l \in Keys : Settled(l)
<1> DEFINE stage == [k \in Keys |->
                      LET s == Advanced(n)[k] IN
                      IF Command(k) = c /\ s.entry.phase # "Absent"
                      THEN Cancel([s EXCEPT !.entry.decision = "Rejected"], k, "Rejected") ELSE s]
<1>1. /\ \A k \in Keys : Command(k) = c => entries[k].decision # "Accepted"
      /\ rejected' = rejected \cup {c} /\ Cardinality(rejected') <= Fences
      /\ Commit(stage) /\ now' = n
      /\ scope' = scope /\ retired' = retired /\ bindings' = bindings
  BY Zenon DEF RejectAction
<1>2. ASSUME NEW k \in Keys
      PROVE  /\ StageOK(stage[k], k) /\ Keeps(stage[k], k)
             /\ stage[k].entry.phase = "Absent" <=> entries[k].phase = "Absent"
             /\ stage[k].entry.decision = "Accepted" => Command(k) # c
  <2> DEFINE s == Advanced(n)[k]
  <2>1. /\ StageOK(s, k) /\ Keeps(s, k)
        /\ s.entry.decision = entries[k].decision
        /\ s.entry.phase = "Absent" <=> entries[k].phase = "Absent"
    BY Zenon, AdvancedOK
  <2>2. stage[k] = IF Command(k) = c /\ s.entry.phase # "Absent"
                   THEN Cancel([s EXCEPT !.entry.decision = "Rejected"], k, "Rejected") ELSE s
    BY Zenon
  <2> HIDE DEF s, stage
  <2>3. CASE Command(k) = c /\ s.entry.phase # "Absent"
    <3>1. /\ StageOK(stage[k], k) /\ Keeps(stage[k], k)
          /\ stage[k].entry.phase = "Rejected" /\ stage[k].entry.decision = "Rejected"
      BY <1>1, <2>1, <2>2, <2>3, TurnedDown
    <3> QED BY Zenon, <2>1, <2>3, <3>1
  <2>4. CASE ~(Command(k) = c /\ s.entry.phase # "Absent")
    <3>1. stage[k] = s
      BY Zenon, <2>2, <2>4
    <3> QED BY Zenon, <1>1, <2>1, <3>1
  <2> QED BY Zenon, <2>3, <2>4
<1> HIDE DEF stage
<1>3. Staging(stage) /\ Keeping(stage)
  BY Zenon, <1>2 DEF Staging, Keeping
<1>4. HasRecords(stage)
  BY Zenon, <1>2, SameRecords
<1>5. Unrejected(stage, rejected')
  BY Zenon, <1>1, <1>2, <1>3 DEF Unrejected, Staging, StageOK
<1>6. IsFiniteSet(rejected') /\ rejected' \subseteq Commands
  BY Zenon, <1>1, FS_AddElement DEF JournalInv, TypeOK
<1>7. Limited(stage)
  BY Zenon, <1>1, <1>4, <1>6 DEF Limited
<1> QED BY Zenon, <1>1, <1>3, <1>5, <1>7, UnboundTransaction

\* resolve with Outcome::Accepted and the authoritative entity: a new binding of an
\* index ends the presentation of the event that held it.
LEMMA ResolveBoundInv ==
  ASSUME JournalAssumption, JournalInv, NEW n \in now..MaxTick, NEW k \in Keys, NEW i \in Indexes,
         NEW g \in 1..MaxGeneration, ResolveBound(n, k, i, g)
  PROVE  JournalInv' /\ \A l \in Keys : Settled(l)
<1> DEFINE r == Entered(Advanced(n)[k])
           s == Confirmed(r)
           kind == IF s.entry.phase \in {"ReplayAbsent", "Expired", "Rejected"} THEN "BindRetired" ELSE "Bind"
           fresh == s.entry.binding = None
           bound == IF fresh THEN Emit([s EXCEPT !.entry.binding = <<i, g>>], kind, None) ELSE s
           base == IF fresh THEN Replaced(Advanced(n), k, i) ELSE Advanced(n)
           stage == [base EXCEPT ![k] = bound]
<1>1. /\ Acceptable(r, k, n) /\ HasRecords(stage) /\ Commit(stage) /\ now' = n
      /\ bindings' = IF fresh THEN [bindings EXCEPT ![i] = [generation |-> g, key |-> k]] ELSE bindings
      /\ scope' = scope /\ retired' = retired /\ rejected' = rejected
  BY Zenon DEF ResolveBound
<1>2. Valid(k, n) /\ r.entry.decision # "Rejected" /\ Command(k) \notin rejected
  BY Zenon, <1>1 DEF Acceptable
<1>3. StageOK(r, k) /\ Keeps(r, k) /\ r.entry.phase # "Absent"
  BY Zenon, <1>2, ValidEntry
<1> HIDE DEF r
<1>4. /\ StageOK(s, k) /\ Keeps(s, k) /\ s.entry.decision = "Accepted"
      /\ s.entry.phase # "Absent"
  BY Zenon, <1>2, <1>3, ConfirmedOK
<1> HIDE DEF s
<1>5. CASE ~fresh
  <2>1. stage = [Advanced(n) EXCEPT ![k] = s] /\ bindings' = bindings
    BY Zenon, <1>1, <1>5
  <2> HIDE DEF stage
  <2>2. Staging(stage) /\ Keeping(stage)
    BY Zenon, <1>4, <2>1, OneKey
  <2>3. UNCHANGED <<scope, retired, bindings, rejected>>
    BY Zenon, <1>1, <2>1
  <2> QED BY Zenon, <1>1, <2>2, <2>3, PlainTransaction
<1>6. CASE fresh
  <2> DEFINE b == <<i, g>>
             old == bindings[i].key
  <2>1. b \in Indexes \X (1..MaxGeneration) /\ kind \in {"Bind", "BindRetired"} /\ b[1] = i
    BY Zenon
  <2>2. /\ bound = Emit([s EXCEPT !.entry.binding = b], kind, None)
        /\ base = Replaced(Advanced(n), k, i)
        /\ bindings' = [bindings EXCEPT ![i] = [generation |-> g, key |-> k]]
    BY Zenon, <1>1, <1>6
  <2> HIDE DEF fresh, kind, b
  <2>3. StageOK(bound, k) /\ bound.entry.binding = b
    BY SMTT(30), <1>4, <2>1, <2>2, BoundOK
  <2> HIDE DEF bound
  <2>4. Advanced(n) = [l \in Keys |-> Advanced(n)[l]]
    BY Zenon DEF Advanced
  <2>5. ASSUME NEW l \in Keys \ {k}
        PROVE  /\ StageOK(base[l], l) /\ Keeps(base[l], l)
               /\ l = old => ~Open(base[l].entry)
    <3>1. StageOK(Advanced(n)[l], l) /\ Keeps(Advanced(n)[l], l)
      BY Zenon, AdvancedOK
    <3>2. CASE old = l /\ Advanced(n)[l].entry.phase # "Absent"
      <4>1. None \notin Keys
        BY Zenon DEF JournalAssumption
      <4>2. base = [Advanced(n) EXCEPT ![l] = Cancel(Advanced(n)[l], l, "Expired")]
        BY Zenon, <2>2, <2>4, <3>2, <4>1 DEF Replaced, Present
      <4>3. base[l] = Cancel(Advanced(n)[l], l, "Expired")
        BY Zenon, <2>4, <4>2
      <4>4. StageOK(base[l], l) /\ Keeps(base[l], l) /\ base[l].entry.phase = "Expired"
        BY SMTT(30), <3>1, <3>2, <4>3, CancelOK
      <4> QED BY Zenon, <4>4 DEF Open
    <3>3. CASE ~(old = l /\ Advanced(n)[l].entry.phase # "Absent")
      <4>1. base[l] = Advanced(n)[l]
        BY Zenon, <2>2, <2>4, <3>3 DEF Replaced, Present
      <4>2. l = old => ~Open(base[l].entry)
        BY Zenon, <3>3, <4>1 DEF Open
      <4> QED BY Zenon, <3>1, <4>1, <4>2
    <3> QED BY Zenon, <3>2, <3>3
  <2>6. /\ stage[k] = bound
        /\ \A l \in Keys \ {k} : stage[l] = base[l]
    <3>1. base = [l \in Keys |-> base[l]]
      BY Zenon, <2>2, <2>4 DEF Replaced
    <3> HIDE DEF base
    <3> QED BY Zenon, <3>1
  <2> HIDE DEF stage, base
  <2>7. Staging(stage)
    <3> SUFFICES ASSUME NEW l \in Keys PROVE StageOK(stage[l], l)
      BY Zenon DEF Staging
    <3>1. CASE l = k
      BY Zenon, <2>3, <2>6, <3>1
    <3>2. CASE l # k
      BY Zenon, <2>5, <2>6, <3>2
    <3> QED BY Zenon, <3>1, <3>2
  <2>8. Unrejected(stage, rejected')
    BY Zenon, <1>1, <2>7 DEF Unrejected, Staging, StageOK
  <2>9. Limited(stage)
    BY Zenon, <1>1 DEF Limited, JournalInv, TypeOK
  <2>10. /\ bindings \in [Indexes -> [generation : 0..MaxGeneration, key : Keys \cup {None}]]
         /\ MaxGeneration \in Nat
    BY Zenon DEF JournalInv, TypeOK, JournalAssumption
  <2>11. /\ bindings' \in [Indexes -> [generation : 0..MaxGeneration, key : Keys \cup {None}]]
         /\ bindings'[i].key = k
         /\ \A j \in Indexes \ {i} : bindings'[j] = bindings[j]
    <3>1. [generation |-> g, key |-> k] \in [generation : 0..MaxGeneration, key : Keys \cup {None}]
      BY <2>10
    <3> QED BY Zenon, <2>2, <2>10, <3>1
  <2>12. ASSUME NEW l \in Keys PROVE BindingOK(l)'
    <3>1. entries'[l] = stage[l].entry
      BY Zenon, <1>1, <2>7, <2>8, CommitOK
    <3>2. CASE l = k
      <4>1. entries'[l].binding[1] = i
        BY Zenon, <2>1, <2>3, <2>6, <3>1, <3>2
      <4> QED BY Zenon, <2>11, <3>2, <4>1 DEF BindingOK
    <3>3. CASE l # k
      <4>1. Keeps(stage[l], l) /\ (l = old => ~Open(stage[l].entry))
        BY Zenon, <2>5, <2>6, <3>3
      <4>2. BindingOK(l) /\ entries[l] \in EntryType
        BY Zenon, JournalTypes DEF JournalInv
      <4>3. SUFFICES ASSUME entries'[l].binding # None, Open(entries'[l])
                     PROVE  bindings'[entries'[l].binding[1]].key = l
        BY Zenon DEF BindingOK, Open
      <4>4. entries[l].binding = entries'[l].binding /\ Open(entries[l])
        BY Zenon, <3>1, <4>1, <4>3 DEF Keeps
      <4>5. bindings[entries[l].binding[1]].key = l
        BY Zenon, <4>2, <4>3, <4>4 DEF BindingOK
      <4>6. entries[l].binding[1] \in Indexes
        BY Zenon, <4>2, <4>3, <4>4 DEF EntryType
      <4>7. entries[l].binding[1] # i
        BY Zenon, <3>1, <4>1, <4>3, <4>5
      <4> QED BY Zenon, <2>11, <4>4, <4>5, <4>6, <4>7
    <3> QED BY Zenon, <3>2, <3>3
  <2> QED BY SMTT(30), <1>1, <2>7, <2>8, <2>9, <2>11, <2>12, TransactionOK
<1> QED BY Zenon, <1>5, <1>6

\* retire_through
LEMMA RetireThroughInv ==
  ASSUME JournalAssumption, JournalInv, NEW c \in Commands, RetireThrough(c)
  PROVE  JournalInv' /\ \A k \in Keys : Settled(k)
<1>1. /\ c \in Nat /\ retired \in Nat /\ c >= retired /\ retired' = c
      /\ entries \in [Keys -> EntryType] /\ plays \in [Keys -> Nat]
      /\ \A k \in Keys : Command(k) \in Nat
  BY Zenon, JournalTypes DEF RetireThrough, JournalAssumption
<1>2. NoEntry \in EntryType
  BY Zenon DEF NoEntry, EntryType, Phases, Decisions
<1>3. /\ entries' = [k \in Keys |-> IF Command(k) <= c THEN NoEntry ELSE entries[k]]
      /\ \A k \in Keys : Command(k) <= c => entries[k].phase # "Live"
      /\ scope' = scope /\ now' = now /\ bindings' = bindings /\ visuals' = visuals /\ plays' = plays
  BY Zenon DEF RetireThrough
<1>4. entries' \in [Keys -> EntryType]
  BY Zenon, <1>1, <1>2, <1>3
<1>5. rejected' \subseteq rejected
  BY Zenon DEF RetireThrough
<1>6. IsFiniteSet(rejected') /\ Cardinality(rejected') <= Fences
  <2>1. /\ IsFiniteSet(rejected) /\ Cardinality(rejected) <= Fences /\ Fences \in Nat
    BY Zenon DEF JournalInv, TypeOK, JournalAssumption
  <2>2. IsFiniteSet(rejected') /\ Cardinality(rejected') <= Cardinality(rejected)
    BY Zenon, <1>5, <2>1, FS_Subset
  <2>3. Cardinality(rejected) \in Nat /\ Cardinality(rejected') \in Nat
    BY Zenon, <2>1, <2>2, FS_CardinalityType
  <2> QED BY <2>1, <2>2, <2>3
<1>7. Cardinality({k \in Keys : entries'[k].phase # "Absent"}) <= Records
  <2> DEFINE old == {k \in Keys : entries[k].phase # "Absent"}
             new == {k \in Keys : entries'[k].phase # "Absent"}
  <2>1. new \subseteq old
    BY Zenon, <1>3 DEF NoEntry
  <2>2. old \subseteq Keys /\ IsFiniteSet(Keys) /\ Cardinality(old) <= Records /\ Records \in Nat
    BY Zenon DEF JournalInv, TypeOK, JournalAssumption
  <2> HIDE DEF old, new
  <2>3. IsFiniteSet(old)
    BY Zenon, <2>2, FS_Subset
  <2>4. IsFiniteSet(new) /\ Cardinality(new) <= Cardinality(old)
    BY Zenon, <2>1, <2>3, FS_Subset
  <2>5. Cardinality(old) \in Nat /\ Cardinality(new) \in Nat
    BY Zenon, <2>3, <2>4, FS_CardinalityType
  <2>6. Cardinality(new) <= Records
    BY SMTT(30), <2>2, <2>4, <2>5
  <2> QED BY Zenon, <2>6 DEF new
<1>8. TypeOK'
  BY Zenon, <1>1, <1>3, <1>4, <1>5, <1>6, <1>7 DEF JournalInv, TypeOK, EntryType, Phases, Decisions
<1>9. ASSUME NEW k \in Keys PROVE KeyOK(k)' /\ BindingOK(k)' /\ Settled(k)
  <2>1. KeyOK(k) /\ BindingOK(k)
    BY Zenon DEF JournalInv
  <2>2. CASE Command(k) <= c
    <3>1. entries'[k] = NoEntry /\ entries[k].phase # "Live"
      BY Zenon, <1>3, <2>2
    <3>2. /\ NoEntry.phase = "Absent" /\ NoEntry.decision = "Unresolved"
          /\ NoEntry.binding = None
      BY Zenon DEF NoEntry
    <3>3. ~(Command(k) > c)
      BY <1>1, <2>2
    <3>4. visuals'[k] = None
      BY Zenon, <1>3, <2>1, <3>1 DEF KeyOK, Visible
    <3>5. KeyOK(k)'
      BY Zenon, <1>1, <1>3, <2>1, <3>1, <3>2, <3>3, <3>4 DEF KeyOK, Visible
    <3>6. BindingOK(k)' /\ Settled(k)
      BY Zenon, <3>1, <3>2 DEF BindingOK, Settled
    <3> QED BY Zenon, <3>5, <3>6
  <2>3. CASE ~(Command(k) <= c)
    <3>1. entries'[k] = entries[k]
      BY Zenon, <1>3, <2>3
    <3>2. Command(k) > retired /\ ~(Command(k) <= retired)
      BY SMTT(30), <1>1, <2>3
    <3>3. KeyOK(k)'
      BY Zenon, <1>1, <1>3, <1>5, <2>1, <2>3, <3>1, <3>2 DEF KeyOK, Visible
    <3>4. BindingOK(k)'
      BY Zenon, <1>3, <2>1, <3>1 DEF BindingOK, Open
    <3>5. Settled(k)
      BY Zenon, <3>1, <3>2 DEF Settled, Over
    <3> QED BY Zenon, <3>3, <3>4, <3>5
  <2> QED BY Zenon, <2>2, <2>3
<1> QED BY Zenon, <1>1, <1>3, <1>6, <1>8, <1>9 DEF JournalInv

\* new and reset: an empty journal and an empty display.
Fresh ==
  /\ now = 0 /\ retired = 0 /\ rejected = {}
  /\ entries = [k \in Keys |-> NoEntry] /\ bindings = [i \in Indexes |-> NoBinding]
  /\ visuals = [k \in Keys |-> None] /\ plays = [k \in Keys |-> 0]

LEMMA FreshInv ==
  ASSUME JournalAssumption, Fresh, scope \in 1..MaxScope
  PROVE  JournalInv
<1>1. /\ NoEntry \in EntryType /\ NoEntry.phase = "Absent" /\ NoEntry.decision = "Unresolved"
      /\ NoEntry.payload = None /\ NoEntry.binding = None
  BY Zenon DEF NoEntry, EntryType, Phases, Decisions
<1>2. {Records, Fences, MaxTick, MaxGeneration} \subseteq Nat
  BY Zenon DEF JournalAssumption
<1>3. entries \in [Keys -> EntryType] /\ \A k \in Keys : entries[k] = NoEntry
  BY Zenon, <1>1 DEF Fresh
<1>4. bindings \in [Indexes -> [generation : 0..MaxGeneration, key : Keys \cup {None}]]
  BY <1>2 DEF Fresh, NoBinding
<1>5. /\ visuals \in [Keys -> Payloads \cup {None}] /\ \A k \in Keys : visuals[k] = None
      /\ plays \in [Keys -> Nat] /\ \A k \in Keys : plays[k] = 0
  BY Zenon DEF Fresh
<1>6. /\ IsFiniteSet(rejected) /\ Cardinality(rejected) <= Fences /\ rejected \subseteq Commands
  BY <1>2, FS_EmptySet DEF Fresh
<1>7. {k \in Keys : entries[k].phase # "Absent"} = {}
  BY Zenon, <1>1, <1>3
<1>8. Cardinality({k \in Keys : entries[k].phase # "Absent"}) <= Records
  <2>1. Cardinality({k \in Keys : entries[k].phase # "Absent"}) = 0
    BY Zenon, <1>7, FS_EmptySet
  <2> QED BY <1>2, <2>1
<1>9. now \in 0..MaxTick /\ retired \in Commands \cup {0}
  BY SMTT(30), <1>2 DEF Fresh
<1>10. TypeOK
  BY Zenon, <1>3, <1>4, <1>5, <1>6, <1>8, <1>9 DEF TypeOK, EntryType, Phases, Decisions
<1>11. ASSUME NEW k \in Keys PROVE KeyOK(k) /\ BindingOK(k)
  BY <1>1, <1>3, <1>5, <1>11 DEF KeyOK, BindingOK, Visible
<1> QED BY Zenon, <1>5, <1>6, <1>10, <1>11 DEF JournalInv

\* reset
LEMMA ResetInv ==
  ASSUME JournalAssumption, JournalInv, Reset
  PROVE  JournalInv' /\ scope' # scope
<1>1. scope \in 1..MaxScope /\ MaxScope \in Nat /\ scope < MaxScope /\ scope' = scope + 1
  BY Zenon DEF JournalInv, TypeOK, JournalAssumption, Reset
<1>2. scope' \in 1..MaxScope /\ scope' # scope
  BY <1>1
<1>3. Fresh'
  BY Zenon DEF Reset, Fresh
<1>4. (JournalAssumption /\ Fresh /\ scope \in 1..MaxScope => JournalInv)'
  BY FreshInv, PTL
<1> QED BY ZenonT(30), <1>2, <1>3, <1>4 DEF JournalAssumption, Commands

\* Every step of the journal keeps the invariant, and settles what it decided
\* unless it starts a new scope.
LEMMA JournalStep ==
  ASSUME JournalAssumption, JournalInv, Next
  PROVE  JournalInv' /\ (scope' = scope => \A k \in Keys : Settled(k))
<1>1. ASSUME NEW n \in now..MaxTick, Advance(n)
      PROVE  JournalInv' /\ \A k \in Keys : Settled(k)
  BY Zenon, <1>1, AdvanceInv
<1>2. ASSUME NEW n \in now..MaxTick, Replay(n)
      PROVE  JournalInv' /\ \A k \in Keys : Settled(k)
  BY Zenon, <1>2, ReplayInv
<1>3. ASSUME NEW n \in now..MaxTick, NEW k \in Keys,
             ResolveRejected(n, k) \/ ResolveAccepted(n, k) \/ Expire(n, k)
      PROVE  JournalInv' /\ \A l \in Keys : Settled(l)
  BY Zenon, <1>3, ResolveRejectedInv, ResolveAcceptedInv, ExpireInv
<1>4. ASSUME NEW n \in now..MaxTick, NEW k \in Keys, NEW i \in Indexes, NEW g \in 1..MaxGeneration,
             ResolveBound(n, k, i, g)
      PROVE  JournalInv' /\ \A l \in Keys : Settled(l)
  BY Zenon, <1>4, ResolveBoundInv
<1>5. ASSUME NEW n \in now..MaxTick, NEW c \in Commands, RejectAction(n, c)
      PROVE  JournalInv' /\ \A k \in Keys : Settled(k)
  BY Zenon, <1>5, RejectActionInv
<1>6. ASSUME NEW c \in Commands, RetireThrough(c)
      PROVE  JournalInv' /\ \A k \in Keys : Settled(k)
  BY Zenon, <1>6, RetireThroughInv
<1>7. CASE Reset
  BY Zenon, <1>7, ResetInv
<1> QED BY <1>1, <1>2, <1>3, <1>4, <1>5, <1>6, <1>7 DEF Next

\* The invariant holds in every reachable state.
LEMMA JournalInvariant ==
  ASSUME JournalAssumption
  PROVE  Spec => []JournalInv
<1>1. Init => JournalInv
  <2>1. MaxScope \in Nat \ {0}
    BY Zenon DEF JournalAssumption
  <2>2. Init => Fresh /\ scope \in 1..MaxScope
    BY <2>1 DEF Init, Fresh
  <2> QED BY Zenon, <2>2, FreshInv
<1>2. JournalInv /\ [Next]_vars => JournalInv'
  <2> SUFFICES ASSUME JournalInv, [Next]_vars PROVE JournalInv'
    BY Zenon
  <2>1. CASE Next
    BY Zenon, <2>1, JournalStep
  <2>2. CASE UNCHANGED vars
    BY <2>2 DEF vars, JournalInv, TypeOK, KeyOK, BindingOK, Visible, Open
  <2> QED BY Zenon, <2>1, <2>2
<1> QED BY <1>1, <1>2, PTL DEF Spec

\* JournalExact of every journal: a consumer that only obeys the changes displays
\* exactly the live reversible events with their newest payloads, plays a cue at
\* most once in a scope, and never shows two events for one entity index; the
\* journal stays within its limits of records and fences.
THEOREM JournalStaysExact ==
  ASSUME JournalAssumption
  PROVE  Spec => []JournalExact
<1>1. JournalInv => JournalExact
  <2> SUFFICES ASSUME JournalInv PROVE JournalExact
    BY Zenon
  <2>1. VisualsMatch
    BY Zenon DEF JournalInv, VisualsMatch, KeyOK, Visible, Live
  <2>2. PlayedOnce
    BY Zenon DEF JournalInv, PlayedOnce, KeyOK
  <2>3. OneLivePerIndex
    BY Zenon DEF JournalInv, OneLivePerIndex, BindingOK, Open, Live
  <2> QED BY Zenon, <2>1, <2>2, <2>3 DEF JournalExact
<1> QED BY <1>1, JournalInvariant, PTL

\* DecisionsFinal of every journal: an accepted or rejected event keeps its
\* decision, what has ended never becomes live again in its scope, and neither a
\* replay nor the clock ends a confirmed live event.
THEOREM DecisionsStayFinal ==
  ASSUME JournalAssumption
  PROVE  Spec => DecisionsFinal
<1>1. ASSUME JournalInv, Next PROVE TerminalStays /\ ConfirmedSurvives
  <2>1. TerminalStays
    BY Zenon, <1>1, JournalStep DEF TerminalStays, Settled, Over
  <2>2. ASSUME NEW k \in Keys, Live(k), entries[k].decision = "Accepted", entries'[k].phase # "Live"
        PROVE  ~Advance(now') /\ ~Replay(now')
    <3>1. ASSUME Advance(now') PROVE FALSE
      <4>1. entries'[k] = Advanced(now')[k].entry
        BY Zenon, <3>1 DEF Advance, Commit
      <4>2. \A n : Advanced(n)[k].entry = entries[k]
        BY Zenon, <1>1, <2>2, AdvancedOK
      <4> QED BY Zenon, <2>2, <4>1, <4>2 DEF Live
    <3>2. \A n : ~Replay(n)
      BY Zenon, <1>1, <2>2, ReplayKeeps
    <3> QED BY Zenon, <3>1, <3>2
  <2> QED BY Zenon, <2>1, <2>2 DEF ConfirmedSurvives
<1> QED BY <1>1, JournalInvariant, PTL DEF Spec, DecisionsFinal

=============================================================================
