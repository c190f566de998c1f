------------------------ MODULE CommandInboxProofs -------------------------
(***************************************************************************)
(* Proofs about CommandInbox, for every value of its constants.            *)
(***************************************************************************)
EXTENDS CommandInbox, FiniteSetTheorems, WellFoundedInduction, TLAPS

\* The audit keeps at most one record of a sequence number.
AuditDistinct ==
  \A i, j \in 1..Len(audit) :
    audit[i].command.sequence = audit[j].command.sequence => i = j

\* What is pending is what was accepted for a tick still to come.
PendingIsFuture == pending = {c \in accepted : c.target > finalized}

\* A decided sequence number is known by its record, or it has no record and
\* the retired watermark covers it.
Remembered(s, verdicts) ==
  \/ \E i \in 1..Len(audit) : /\ audit[i].command.sequence = s
                              /\ audit[i].admission \in verdicts
  \/ s <= retired /\ ~Audited(s)

AcceptedRemembered ==
  \A c \in accepted : Remembered(c.sequence, {"Accepted"})

RefusedRemembered ==
  \A s \in refused : Remembered(s, {"Late", "TargetOccupied"})

\* The selection in progress is for the next tick and is the pending command
\* of that tick, or a substitute when there is none.
PreparedIsNext ==
  prepared # NothingPrepared =>
    /\ prepared.tick = finalized + 1
    /\ prepared.sequence = 0 => PendingAt(prepared.tick) = {}
    /\ prepared.sequence # 0 =>
         \E c \in PendingAt(prepared.tick) : prepared = Selected(c)

-----------------------------------------------------------------------------

\* Removing the element at an index shifts the ones after it.
LEMMA WithoutFacts ==
  ASSUME NEW S, NEW s \in Seq(S), NEW i \in 1..Len(s)
  PROVE  /\ Without(s, i) \in Seq(S)
         /\ Len(Without(s, i)) = Len(s) - 1
         /\ \A j \in 1..(Len(s) - 1) :
              Without(s, i)[j] = IF j < i THEN s[j] ELSE s[j + 1]
<1>1. Without(s, i) \in [1..(Len(s) - 1) -> S]
  BY DEF Without
<1>2. Len(s) - 1 \in Nat
  OBVIOUS
<1> QED
  BY <1>1, <1>2 DEF Without

\* IndexOf finds the record of an audited sequence number.
LEMMA IndexOfFacts ==
  ASSUME NEW s, Audited(s)
  PROVE  /\ IndexOf(s) \in 1..Len(audit)
         /\ audit[IndexOf(s)].command.sequence = s
BY Zenon DEF Audited, IndexOf

\* Every nonempty set of naturals has a least element.
LEMMA LeastNatural ==
  ASSUME NEW S \in SUBSET Nat, S # {}
  PROVE  \E n \in S : \A m \in S : n <= m
<1>1. PICK n \in S : \A m \in S : ~(<<m, n>> \in OpToRel(<, Nat))
  BY Zenon, NatLessThanWellFounded, WFMin
<1>2. \A m \in S : ~(m < n)
  BY Zenon, <1>1 DEF OpToRel
<1> QED
  BY <1>2

\* The record that eviction takes exists and is not pending, if any is not.
LEMMA OldestFacts ==
  ASSUME audit \in Seq(AuditRecord), \E i \in 1..Len(audit) : Idle(i)
  PROVE  Oldest \in 1..Len(audit) /\ Idle(Oldest)
<1> DEFINE S == {i \in 1..Len(audit) : Idle(i)}
<1>1. S \in SUBSET Nat /\ S # {}
  OBVIOUS
<1>2. PICK n \in S : \A m \in S : n <= m
  BY Zenon, <1>1, LeastNatural
<1>3. Idle(n) /\ \A j \in 1..(n - 1) : ~Idle(j)
  BY <1>2
<1> QED
  BY Zenon, <1>2, <1>3 DEF Oldest

\* Entering a record: the record is there, every other record is an old one of
\* another sequence number, and an old record that is gone was replaced by the
\* new one or was evicted: not pending, covered by the watermark.
LEMMA EnterFacts ==
  ASSUME TypeOK, AuditDistinct, NEW r \in AuditRecord, Enter(r),
         Audited(r.command.sequence) \/ HasRoom
  PROVE  /\ audit' \in Seq(AuditRecord) /\ Len(audit') <= AuditRecords
         /\ \E k \in 1..Len(audit') : audit'[k] = r
         /\ \A k \in 1..Len(audit') :
              \/ audit'[k] = r
              \/ \E j \in 1..Len(audit) :
                   /\ audit'[k] = audit[j]
                   /\ audit[j].command.sequence # r.command.sequence
         /\ \A j \in 1..Len(audit) :
              \/ audit[j].command.sequence = r.command.sequence
              \/ \E k \in 1..Len(audit') : audit'[k] = audit[j]
              \/ /\ Idle(j)
                 /\ audit[j].command.sequence <= retired'
                 /\ \A k \in 1..Len(audit') :
                      audit'[k].command.sequence # audit[j].command.sequence
         /\ AuditDistinct'
         /\ retired <= retired' /\ retired' \in 0..MaxSequence
<1> DEFINE s == r.command.sequence
<1> USE LimitsAssumption, BoundsAssumption
<1>0. /\ audit \in Seq(AuditRecord) /\ Len(audit) \in Nat
      /\ Len(audit) <= AuditRecords /\ retired \in 0..MaxSequence
      /\ AuditRecords \in Nat
  BY DEF TypeOK
<1>1. CASE Audited(s)
  <2> DEFINE n == IndexOf(s)
  <2>1. n \in 1..Len(audit) /\ audit[n].command.sequence = s
    BY Zenon, <1>1, IndexOfFacts
  <2>2. audit' = [audit EXCEPT ![n] = r] /\ retired' = retired
    BY Zenon, <1>1 DEF Enter
  <2>3. /\ audit' \in Seq(AuditRecord) /\ Len(audit') = Len(audit)
        /\ \A k \in 1..Len(audit) : audit'[k] = IF k = n THEN r ELSE audit[k]
    BY <1>0, <2>1, <2>2
  <2>4. AuditDistinct'
    BY <2>1, <2>3 DEF AuditDistinct
  <2>5. \A k \in 1..Len(audit) : k # n => audit[k].command.sequence # s
    BY Zenon, <2>1 DEF AuditDistinct
  <2> HIDE DEF n
  <2> QED
    BY <1>0, <2>1, <2>2, <2>3, <2>4, <2>5
<1>2. CASE ~Audited(s) /\ Len(audit) < AuditRecords
  <2>1. audit' = Append(audit, r) /\ retired' = retired
    BY Zenon, <1>2 DEF Enter
  <2>2. /\ audit' \in Seq(AuditRecord) /\ Len(audit') = Len(audit) + 1
        /\ \A k \in 1..Len(audit) : audit'[k] = audit[k]
        /\ audit'[Len(audit) + 1] = r
    BY <1>0, <2>1
  <2>3. \A j \in 1..Len(audit) : audit[j].command.sequence # s
    BY Zenon, <1>2 DEF Audited
  <2>4. AuditDistinct'
    BY SMTT(30), <1>0, <2>2, <2>3 DEF AuditDistinct
  <2> QED
    BY <1>0, <1>2, <2>1, <2>2, <2>3, <2>4
<1>3. CASE ~Audited(s) /\ ~(Len(audit) < AuditRecords)
  <2> DEFINE o == Oldest
             w == Without(audit, o)
  <2>1. o \in 1..Len(audit) /\ Idle(o)
    BY Zenon, <1>0, <1>3, OldestFacts DEF HasRoom
  <2>2. audit' = Append(w, r) /\ retired' = Larger(retired, audit[o].command.sequence)
    BY Zenon, <1>3 DEF Enter
  <2>3. /\ w \in Seq(AuditRecord) /\ Len(w) = Len(audit) - 1
        /\ \A j \in 1..(Len(audit) - 1) :
             w[j] = IF j < o THEN audit[j] ELSE audit[j + 1]
    BY Zenon, <1>0, <2>1, WithoutFacts
  <2> HIDE DEF w, o
  <2>4. /\ audit' \in Seq(AuditRecord) /\ Len(audit') = Len(audit)
        /\ audit'[Len(audit)] = r
        /\ \A j \in 1..(Len(audit) - 1) :
             audit'[j] = IF j < o THEN audit[j] ELSE audit[j + 1]
    BY <1>0, <2>2, <2>3
  <2>5. \A j \in 1..Len(audit) : audit[j].command.sequence # s
    BY Zenon, <1>3 DEF Audited
  <2>6. audit[o].command.sequence \in 1..MaxSequence
    <3>1. audit[o] \in AuditRecord
      BY <1>0, <2>1
    <3> QED
      BY Zenon, <3>1 DEF AuditRecord, Command
  <2>7. /\ audit[o].command.sequence <= retired'
        /\ retired <= retired' /\ retired' \in 0..MaxSequence
    BY <1>0, <2>2, <2>6 DEF Larger
  <2>8. \A k \in 1..Len(audit') :
          \/ audit'[k] = r /\ k = Len(audit)
          \/ \E j \in 1..Len(audit) : /\ audit'[k] = audit[j]
                                      /\ j # o
                                      /\ k = IF j < o THEN j ELSE j - 1
    BY <1>0, <2>1, <2>4
  <2>9. \A j \in 1..Len(audit) : j # o =>
          \E k \in 1..Len(audit') : audit'[k] = audit[j]
    <3> SUFFICES ASSUME NEW j \in 1..Len(audit), j # o
                 PROVE  \E k \in 1..Len(audit') : audit'[k] = audit[j]
      BY Zenon
    <3>1. CASE j < o
      BY SMTT(30), <1>0, <2>1, <2>4, <3>1
    <3>2. CASE j > o
      <4>1. j - 1 \in 1..(Len(audit) - 1) /\ ~(j - 1 < o) /\ (j - 1) + 1 = j
        BY <1>0, <2>1, <3>2
      <4> QED
        BY <1>0, <2>4, <4>1
    <3> QED
      BY <1>0, <2>1, <3>1, <3>2
  <2>10. \A k \in 1..Len(audit') :
           audit'[k].command.sequence # audit[o].command.sequence
    BY SMTT(30), <1>0, <2>1, <2>5, <2>8 DEF AuditDistinct
  <2>11. AuditDistinct'
    <3> DEFINE From(k, j) == /\ audit'[k] = audit[j] /\ j # o
                             /\ k = IF j < o THEN j ELSE j - 1
    <3> SUFFICES ASSUME NEW h \in 1..Len(audit'), NEW k \in 1..Len(audit'),
                        audit'[h].command.sequence = audit'[k].command.sequence
                 PROVE  h = k
      BY Zenon DEF AuditDistinct
    <3>1. CASE audit'[h] = r /\ h = Len(audit) /\ audit'[k] = r /\ k = Len(audit)
      BY Zenon, <3>1
    <3>2. ASSUME NEW i \in 1..Len(audit), From(h, i) PROVE h = k
      <4>1. audit'[k] # r
        BY Zenon, <2>5, <3>2
      <4>2. PICK j \in 1..Len(audit) : From(k, j)
        BY Zenon, <2>8, <4>1
      <4>3. i = j
        BY Zenon, <3>2, <4>2 DEF AuditDistinct
      <4> QED
        BY Zenon, <3>2, <4>2, <4>3
    <3>3. ASSUME NEW j \in 1..Len(audit), From(k, j), audit'[h] = r PROVE FALSE
      BY Zenon, <2>5, <3>3
    <3> QED
      BY Zenon, <2>8, <3>1, <3>2, <3>3
  <2>12. Len(audit) \in 1..Len(audit') /\ Len(audit') <= AuditRecords
    BY <1>0, <2>1, <2>4
  <2>13. \A k \in 1..Len(audit') :
           \/ audit'[k] = r
           \/ \E j \in 1..Len(audit) :
                /\ audit'[k] = audit[j]
                /\ audit[j].command.sequence # r.command.sequence
    BY Zenon, <2>5, <2>8
  <2>14. \A j \in 1..Len(audit) :
           \/ \E k \in 1..Len(audit') : audit'[k] = audit[j]
           \/ /\ Idle(j)
              /\ audit[j].command.sequence <= retired'
              /\ \A k \in 1..Len(audit') :
                   audit'[k].command.sequence # audit[j].command.sequence
    BY Zenon, <2>1, <2>7, <2>9, <2>10
  <2> QED
    BY Zenon, <2>4, <2>7, <2>11, <2>12, <2>13, <2>14
<1> QED
  BY Zenon, <1>1, <1>2, <1>3

-----------------------------------------------------------------------------

\* The inductive invariant.  OneVerdict and AcceptedIffExecuted are what the
\* inbox promises; the audit book, the watermark and the selection in progress
\* are how it keeps the promise.
Inv ==
  /\ TypeOK
  /\ AuditDistinct
  /\ PendingIsFuture
  /\ AuditBacksPending
  /\ AcceptedRemembered
  /\ RefusedRemembered
  /\ OneVerdict
  /\ PreparedIsNext
  /\ AcceptedIffExecuted
  /\ RevokedNeverRuns

LEMMA InitInv == Init => Inv
<1> SUFFICES ASSUME Init PROVE Inv
  BY Zenon
<1> USE LimitsAssumption, BoundsAssumption DEF Init
<1>1. NothingPrepared \in PreparedInput /\ NeutralInput \in Input
  BY DEF NothingPrepared, PreparedInput, NeutralInput, Input
<1>2. TypeOK
  BY <1>1 DEF TypeOK, Larger
<1>3. AuditDistinct /\ PendingIsFuture /\ AuditBacksPending /\ OneVerdict
  BY DEF AuditDistinct, PendingIsFuture, AuditBacksPending, OneVerdict
<1>4. AcceptedRemembered /\ RefusedRemembered /\ PreparedIsNext
  BY Zenon DEF AcceptedRemembered, RefusedRemembered, PreparedIsNext
<1>5. AcceptedIffExecuted /\ RevokedNeverRuns
  BY DEF AcceptedIffExecuted, RevokedNeverRuns
<1> QED
  BY Zenon, <1>2, <1>3, <1>4, <1>5 DEF Inv

\* A command that gets a record has had no verdict before.
LEMMA UndecidedIsNew ==
  ASSUME Inv, NEW c \in Command, Undecided(c)
  PROVE  c.sequence \notin refused /\ \A d \in accepted : d.sequence # c.sequence
<1>1. \A j \in 1..Len(audit) :
        audit[j].command.sequence = c.sequence => audit[j].admission = "Future"
  <2> SUFFICES ASSUME NEW j \in 1..Len(audit),
                      audit[j].command.sequence = c.sequence
               PROVE  audit[j].admission = "Future"
    BY Zenon
  <2>1. Audited(c.sequence)
    BY Zenon DEF Audited
  <2>2. /\ IndexOf(c.sequence) \in 1..Len(audit)
        /\ audit[IndexOf(c.sequence)].command.sequence = c.sequence
    BY Zenon, <2>1, IndexOfFacts
  <2>3. j = IndexOf(c.sequence)
    BY Zenon, <2>2 DEF Inv, AuditDistinct
  <2> QED
    BY Zenon, <2>1, <2>3 DEF Undecided
<1>2. ~Audited(c.sequence) => ~(c.sequence <= retired)
  <2>1. c.sequence \in Nat /\ retired \in Nat
    BY DEF Inv, TypeOK, Command
  <2> QED
    BY <2>1 DEF Undecided
<1>3. \A vs \in {{"Accepted"}, {"Late", "TargetOccupied"}} :
        ~Remembered(c.sequence, vs)
  BY Zenon, <1>1, <1>2 DEF Remembered
<1> QED
  BY Zenon, <1>3 DEF Inv, AcceptedRemembered, RefusedRemembered

\* Whatever is remembered stays so when a record of another sequence number is
\* entered.
LEMMA EnterRemembers ==
  ASSUME Inv, NEW r \in AuditRecord, Enter(r),
         Audited(r.command.sequence) \/ HasRoom,
         NEW s \in 1..MaxSequence, s # r.command.sequence,
         NEW vs, Remembered(s, vs)
  PROVE  Remembered(s, vs)'
<1> USE EnterFacts DEF Inv
<1>0. retired \in Nat /\ retired' \in Nat /\ retired <= retired' /\ s \in Nat
  BY DEF TypeOK
<1>1. CASE \E i \in 1..Len(audit) : /\ audit[i].command.sequence = s
                                    /\ audit[i].admission \in vs
  <2>1. PICK i \in 1..Len(audit) : /\ audit[i].command.sequence = s
                                   /\ audit[i].admission \in vs
    BY Zenon, <1>1
  <2>2. CASE \E k \in 1..Len(audit') : audit'[k] = audit[i]
    BY Zenon, <2>1, <2>2 DEF Remembered
  <2>3. CASE ~\E k \in 1..Len(audit') : audit'[k] = audit[i]
    <3>1. /\ s <= retired'
          /\ \A k \in 1..Len(audit') : audit'[k].command.sequence # s
      BY SMTT(30), <2>1, <2>3
    <3> QED
      BY Zenon, <3>1 DEF Remembered, Audited
  <2> QED
    BY Zenon, <2>2, <2>3
<1>2. CASE s <= retired /\ ~Audited(s)
  <2>1. \A k \in 1..Len(audit') : audit'[k].command.sequence # s
    BY SMTT(30), <1>2 DEF Audited
  <2>2. s <= retired'
    BY <1>0, <1>2
  <2> QED
    BY Zenon, <2>1, <2>2 DEF Remembered, Audited
<1> QED
  BY Zenon, <1>1, <1>2 DEF Remembered

LEMMA AdmitInv ==
  ASSUME Inv, NEW c \in Command, Admit(c)
  PROVE  Inv'
<1> DEFINE v == Decide(c)
           r == [command |-> c, admission |-> v, pending |-> v = "Accepted"]
<1> USE LimitsAssumption, BoundsAssumption
<1>1. /\ finalized' = finalized /\ prepared' = prepared /\ applied' = applied
      /\ receipts' = receipts /\ handoff' = handoff /\ lastInput' = lastInput
      /\ windowFloor' = windowFloor /\ missingStreak' = missingStreak
      /\ submissions' = submissions + 1 /\ submissions < SubmissionsPerTick
  BY Zenon DEF Admit, tickly
<1>2. /\ Enter(r) /\ Undecided(c) /\ (Audited(r.command.sequence) \/ HasRoom)
  BY Zenon DEF Admit, Record, Recordable
<1>3. v \in Admission /\ r \in AuditRecord
  BY Zenon DEF Decide, Admission, AuditRecord
<1>4. c.sequence \in 1..MaxSequence /\ c.target \in 1..MaxTick
  BY Zenon DEF Command
<1>5. /\ c.sequence \notin refused
      /\ \A d \in accepted : d.sequence # c.sequence
  BY Zenon, <1>2, UndecidedIsNew
<1>6. /\ v = "Accepted" => /\ pending' = pending \cup {c}
                           /\ highest' = Larger(highest, c.sequence)
                           /\ accepted' = accepted \cup {c}
                           /\ PendingAt(c.target) = {}
                           /\ c.target > Cutoff
      /\ v # "Accepted" => /\ pending' = pending /\ highest' = highest
                           /\ accepted' = accepted
      /\ refused' = IF v \in {"Late", "TargetOccupied"}
                    THEN refused \cup {c.sequence} ELSE refused
  <2>1. finalized \in Nat /\ prepared.tick \in Nat
    BY DEF Inv, TypeOK, PreparedInput
  <2>2. v = "Accepted" => c.target > Cutoff /\ PendingAt(c.target) = {}
    BY <1>4, <2>1 DEF Decide, Cutoff
  <2> QED
    BY Zenon, <2>2 DEF Admit, Record
<1>7. v = "Accepted" => c.target > finalized /\ c.target # prepared.tick
  <2>1. finalized \in Nat /\ prepared.tick \in Nat
    BY DEF Inv, TypeOK, PreparedInput
  <2> QED
    BY <1>4, <1>6, <2>1 DEF Cutoff, Inv, PreparedIsNext, NothingPrepared
<1>a. r.command = c /\ r.admission = v /\ (r.pending <=> v = "Accepted")
  <2>1. r.pending = (v = "Accepted")
    BY Zenon
  <2> QED
    BY Zenon, <2>1
<1> HIDE DEF v, r
<1>8. /\ audit' \in Seq(AuditRecord) /\ Len(audit') <= AuditRecords
      /\ AuditDistinct' /\ retired' \in 0..MaxSequence
  BY Zenon, <1>2, <1>3, EnterFacts DEF Inv
<1>9. TypeOK'
  <2>1. highest' \in 0..MaxSequence
    BY <1>4, <1>6 DEF Inv, TypeOK, Larger
  <2>2. pending' \subseteq Command /\ accepted' \subseteq Command
    BY Zenon, <1>6 DEF Inv, TypeOK
  <2>3. refused' \subseteq 1..MaxSequence
    BY Zenon, <1>4, <1>6 DEF Inv, TypeOK
  <2>4. submissions' \in 0..SubmissionsPerTick
    BY <1>1 DEF Inv, TypeOK
  <2> QED
    BY Zenon, <1>1, <1>8, <2>1, <2>2, <2>3, <2>4 DEF Inv, TypeOK
<1>10. PendingIsFuture'
  <2>1. pending = {d \in accepted : d.target > finalized}
    BY Zenon DEF Inv, PendingIsFuture
  <2> QED
    BY Zenon, <1>1, <1>6, <1>7, <2>1 DEF PendingIsFuture
<1>11. AuditBacksPending'
  <2>1. ASSUME NEW d \in pending'
        PROVE  \E k \in 1..Len(audit') : audit'[k].command = d /\ audit'[k].pending
    <3>1. CASE d \in pending
      <4>1. PICK j \in 1..Len(audit) : audit[j].command = d /\ audit[j].pending
        BY Zenon, <3>1 DEF Inv, AuditBacksPending
      <4>2. d.sequence # c.sequence
        BY Zenon, <1>5, <3>1 DEF Inv, PendingIsFuture
      <4> QED
        BY ZenonT(30), <1>2, <1>3, <1>a, <4>1, <4>2, EnterFacts DEF Inv, Idle
    <3>2. CASE d \notin pending
      <4>1. d = c /\ v = "Accepted"
        BY <1>6, <2>1, <3>2
      <4> QED
        BY <1>2, <1>3, <1>a, <4>1, EnterFacts DEF Inv
    <3> QED
      BY Zenon, <3>1, <3>2
  <2>2. ASSUME NEW k \in 1..Len(audit'), audit'[k].pending
        PROVE  audit'[k].command \in pending' /\ audit'[k].admission = "Accepted"
    <3>1. CASE audit'[k] = r
      BY Zenon, <1>6, <1>a, <2>2, <3>1
    <3>2. CASE \E j \in 1..Len(audit) : audit'[k] = audit[j]
      BY Zenon, <1>6, <2>2, <3>2 DEF Inv, AuditBacksPending
    <3> QED
      BY <1>2, <1>3, <3>1, <3>2, EnterFacts DEF Inv
  <2> QED
    BY Zenon, <2>1, <2>2 DEF AuditBacksPending
<1>12. AcceptedRemembered'
  <2> SUFFICES ASSUME NEW d \in accepted' PROVE Remembered(d.sequence, {"Accepted"})'
    BY Zenon DEF AcceptedRemembered
  <2>1. CASE d \in accepted
    <3>1. d.sequence \in 1..MaxSequence
      BY Zenon, <2>1 DEF Inv, TypeOK, Command
    <3>2. Remembered(d.sequence, {"Accepted"})
      BY Zenon, <2>1 DEF Inv, AcceptedRemembered
    <3> QED
      BY Zenon, <1>2, <1>3, <1>5, <1>a, <2>1, <3>1, <3>2, EnterRemembers
  <2>2. CASE d \notin accepted
    <3>1. d = c /\ v = "Accepted"
      BY Zenon, <1>6, <2>2
    <3> QED
      BY <1>2, <1>3, <1>a, <3>1, EnterFacts DEF Inv, Remembered
  <2> QED
    BY Zenon, <2>1, <2>2
<1>13. RefusedRemembered'
  <2> SUFFICES ASSUME NEW s \in refused'
               PROVE  Remembered(s, {"Late", "TargetOccupied"})'
    BY Zenon DEF RefusedRemembered
  <2>1. CASE s \in refused
    <3>1. s \in 1..MaxSequence
      BY Zenon, <2>1 DEF Inv, TypeOK
    <3>2. Remembered(s, {"Late", "TargetOccupied"})
      BY Zenon, <2>1 DEF Inv, RefusedRemembered
    <3> QED
      BY Zenon, <1>2, <1>3, <1>5, <1>a, <2>1, <3>1, <3>2, EnterRemembers
  <2>2. CASE s \notin refused
    <3>1. s = c.sequence /\ v \in {"Late", "TargetOccupied"}
      BY Zenon, <1>6, <2>2
    <3> QED
      BY <1>2, <1>3, <1>a, <3>1, EnterFacts DEF Inv, Remembered
  <2> QED
    BY Zenon, <2>1, <2>2
<1>14. OneVerdict'
  <2>1. v = "Accepted" => \A d \in accepted : d.target # c.target
    BY Zenon, <1>6, <1>7 DEF Inv, PendingIsFuture, PendingAt
  <2> QED
    BY Zenon, <1>5, <1>6, <2>1 DEF Inv, OneVerdict
<1>15. PreparedIsNext'
  <2>1. PendingAt(prepared.tick)' = PendingAt(prepared.tick)
    BY Zenon, <1>1, <1>6, <1>7 DEF PendingAt
  <2> QED
    BY Zenon, <1>1, <2>1 DEF Inv, PreparedIsNext, Selected
<1>16. AcceptedIffExecuted'
  <2>1. v = "Accepted" => c.target \notin DOMAIN applied
    BY <1>4, <1>7 DEF Inv, TypeOK
  <2> QED
    BY <1>1, <1>6, <2>1 DEF Inv, AcceptedIffExecuted
<1>17. RevokedNeverRuns'
  BY Zenon, <1>1 DEF Inv, RevokedNeverRuns
<1> QED
  BY Zenon, <1>8, <1>9, <1>10, <1>11, <1>12, <1>13, <1>14, <1>15, <1>16, <1>17 DEF Inv

\* What the inductive invariant says of the book and the history only depends on them.
LEMMA BookKept ==
  ASSUME Inv, UNCHANGED <<book, finalized, applied>>
  PROVE  /\ AuditDistinct' /\ PendingIsFuture' /\ AuditBacksPending'
         /\ AcceptedRemembered' /\ RefusedRemembered' /\ OneVerdict'
         /\ AcceptedIffExecuted'
<1>1. UNCHANGED <<pending, audit, retired, highest, accepted, refused, finalized, applied>>
  BY Zenon DEF book
<1>2. AuditDistinct' /\ PendingIsFuture' /\ AuditBacksPending' /\ OneVerdict'
  BY <1>1 DEF Inv, AuditDistinct, PendingIsFuture, AuditBacksPending, OneVerdict
<1>3. AcceptedRemembered'
  BY Zenon, <1>1 DEF Inv, AcceptedRemembered, Remembered, Audited
<1>4. RefusedRemembered'
  BY Zenon, <1>1 DEF Inv, RefusedRemembered, Remembered, Audited
<1>5. AcceptedIffExecuted'
  BY <1>1 DEF Inv, AcceptedIffExecuted, CommandInput
<1> QED
  BY Zenon, <1>2, <1>3, <1>4, <1>5

\* Inv does not mention the submission count except to bound it.
LEMMA AdmitUnrecordedInv ==
  ASSUME Inv, AdmitUnrecorded
  PROVE  Inv'
<1>1. /\ UNCHANGED <<book, tickly, prepared, handoff>>
      /\ submissions' \in 0..SubmissionsPerTick
  BY LimitsAssumption DEF AdmitUnrecorded, Inv, TypeOK
<1>2. TypeOK'
  BY Zenon, <1>1 DEF Inv, TypeOK, book, tickly
<1>3. PreparedIsNext' /\ RevokedNeverRuns'
  BY Zenon, <1>1 DEF Inv, PreparedIsNext, PendingAt, Selected, CommandInput,
     RevokedNeverRuns, book, tickly
<1> QED
  BY Zenon, <1>1, <1>2, <1>3, BookKept DEF Inv, tickly

LEMMA HandoffInv ==
  ASSUME Inv, NEW t \in 1..MaxTick, Handoff(t)
  PROVE  Inv'
<1>1. /\ UNCHANGED <<book, tickly, prepared, submissions>>
      /\ handoff' = t /\ t > finalized /\ prepared = NothingPrepared
  BY Zenon DEF Handoff
<1>2. RevokedNeverRuns'
  BY <1>1 DEF RevokedNeverRuns, NothingPrepared, tickly, Inv, TypeOK
<1>3. TypeOK'
  BY <1>1 DEF Inv, TypeOK, book, tickly
<1>4. PreparedIsNext'
  BY Zenon, <1>1 DEF Inv, PreparedIsNext
<1> QED
  BY Zenon, <1>1, <1>2, <1>3, <1>4, BookKept DEF Inv, tickly

LEMMA PrepareNextInv ==
  ASSUME Inv, PrepareNext
  PROVE  Inv'
<1> USE LimitsAssumption, BoundsAssumption
<1>1. /\ UNCHANGED <<book, tickly, submissions, handoff>>
      /\ finalized < MaxTick /\ OwnsAt(finalized + 1)
  BY Zenon DEF PrepareNext
<1>2. finalized \in Nat /\ finalized + 1 \in 1..MaxTick
  BY <1>1 DEF Inv, TypeOK
<1>3. /\ prepared' \in PreparedInput
      /\ prepared'.tick = finalized + 1
      /\ \/ prepared'.sequence = 0 /\ PendingAt(finalized + 1) = {}
         \/ /\ prepared'.sequence # 0
            /\ \E c \in PendingAt(finalized + 1) : prepared' = Selected(c)
  <2>1. CASE PendingAt(finalized + 1) = {} /\ prepared' = Substitute
    <3>1. lastInput \in Input /\ missingStreak + 1 \in Nat
      BY DEF Inv, TypeOK
    <3>2. HeldInput(lastInput) \in Input /\ NeutralInput \in Input
      BY Zenon, <3>1 DEF Input, HeldInput, NeutralInput
    <3>3. Substitute \in PreparedInput
      BY <1>2, <3>1, <3>2 DEF Substitute, PreparedInput
    <3> QED
      BY Zenon, <2>1, <3>3 DEF Substitute
  <2>2. ASSUME NEW c \in PendingAt(finalized + 1), prepared' = Selected(c)
        PROVE  /\ prepared' \in PreparedInput /\ prepared'.tick = finalized + 1
               /\ prepared'.sequence # 0
    <3>1. c \in Command
      BY Zenon DEF PendingAt, Inv, TypeOK
    <3>2. CommandInput(c) \in Input /\ c.sequence \in 1..MaxSequence
      BY Zenon, <3>1 DEF Command, CommandInput, Input
    <3>3. Selected(c) \in PreparedInput
      BY <1>2, <3>2 DEF Selected, PreparedInput
    <3> QED
      BY <2>2, <3>2, <3>3 DEF Selected
  <2> QED
    BY Zenon, <2>1, <2>2 DEF PrepareNext
<1>4. TypeOK'
  BY Zenon, <1>1, <1>3 DEF Inv, TypeOK, book, tickly
<1>5. PreparedIsNext'
  BY Zenon, <1>1, <1>3 DEF PreparedIsNext, PendingAt, Selected, book, tickly
<1>6. RevokedNeverRuns'
  BY Zenon, <1>1, <1>2, <1>3 DEF RevokedNeverRuns, OwnsAt, tickly, Inv, TypeOK
<1> QED
  BY Zenon, <1>1, <1>4, <1>5, <1>6, BookKept DEF Inv, tickly

\* commit removes the pending command of the tick and clears its record's flag,
\* and touches no other record.
LEMMA SettleFacts ==
  ASSUME Inv, prepared # NothingPrepared, Settle(prepared.sequence)
  PROVE  /\ audit' \in Seq(AuditRecord) /\ Len(audit') = Len(audit)
         /\ pending' = {d \in pending : d.target # prepared.tick}
         /\ \A k \in 1..Len(audit) :
              /\ audit'[k].command = audit[k].command
              /\ audit'[k].admission = audit[k].admission
              /\ audit'[k].pending <=>
                   audit[k].pending /\ audit[k].command.target # prepared.tick
<1> DEFINE s == prepared.sequence
<1>0. audit \in Seq(AuditRecord) /\ Len(audit) \in Nat
  BY DEF Inv, TypeOK
<1>1. CASE s = 0
  <2>1. pending' = pending /\ audit' = audit /\ PendingAt(prepared.tick) = {}
    BY Zenon, <1>1 DEF Settle, Inv, PreparedIsNext
  <2>2. \A k \in 1..Len(audit) :
          audit[k].pending => audit[k].command.target # prepared.tick
    BY Zenon, <2>1 DEF Inv, AuditBacksPending, PendingAt
  <2> QED
    BY Zenon, <1>0, <2>1, <2>2 DEF PendingAt
<1>2. CASE s # 0
  <2> DEFINE n == IndexOf(s)
  <2>1. PICK c \in PendingAt(prepared.tick) : prepared = Selected(c)
    BY Zenon, <1>2 DEF Inv, PreparedIsNext
  <2>2. c \in pending /\ c \in accepted /\ c.target = prepared.tick /\ c.sequence = s
    BY Zenon, <2>1 DEF PendingAt, Selected, Inv, PendingIsFuture
  <2>3. /\ Audited(s) /\ pending' = pending \ PendingAt(prepared.tick)
        /\ audit' = [audit EXCEPT ![n].pending = FALSE]
    BY Zenon, <1>2 DEF Settle
  <2>4. n \in 1..Len(audit) /\ audit[n].command.sequence = s
    BY Zenon, <2>3, IndexOfFacts
  <2> HIDE DEF n
  <2>5. audit[n].command = c
    BY Zenon, <2>2, <2>4 DEF Inv, AuditBacksPending, AuditDistinct
  <2>6. ASSUME NEW k \in 1..Len(audit), k # n, audit[k].pending
        PROVE  audit[k].command.target # prepared.tick
    <3>1. audit[k].command \in accepted
      BY Zenon, <2>6 DEF Inv, AuditBacksPending, PendingIsFuture
    <3>2. audit[k].command.sequence # s
      BY Zenon, <2>4, <2>6 DEF Inv, AuditDistinct
    <3> QED
      BY Zenon, <2>2, <3>1, <3>2 DEF Inv, OneVerdict
  <2>7. audit[n] \in AuditRecord
    BY <1>0, <2>4
  <2> DEFINE e == [audit[n] EXCEPT !.pending = FALSE]
  <2>8. e \in AuditRecord /\ audit' = [audit EXCEPT ![n] = e]
    BY Zenon, <2>3, <2>7 DEF AuditRecord
  <2>9. /\ audit' \in Seq(AuditRecord) /\ Len(audit') = Len(audit)
        /\ \A k \in 1..Len(audit) : k # n => audit'[k] = audit[k]
        /\ audit'[n] = e
    <3> HIDE DEF e
    <3> QED
      BY <1>0, <2>4, <2>8
  <2>10. /\ audit'[n].command = audit[n].command
         /\ audit'[n].admission = audit[n].admission
         /\ ~audit'[n].pending
    BY Zenon, <2>7, <2>9 DEF AuditRecord
  <2> QED
    BY Zenon, <2>2, <2>3, <2>5, <2>6, <2>9, <2>10 DEF PendingAt
<1> QED
  BY Zenon, <1>1, <1>2

LEMMA CommitInv ==
  ASSUME Inv, Commit
  PROVE  Inv'
<1> USE LimitsAssumption, BoundsAssumption
<1>1. /\ finalized' = prepared.tick /\ prepared' = NothingPrepared
      /\ UNCHANGED <<retired, highest, accepted, refused, handoff>>
      /\ submissions' = 0 /\ missingStreak' = prepared.streak
      /\ windowFloor' = Grant(prepared.sequence)
      /\ lastInput' = IF prepared.sequence = 0 THEN lastInput ELSE prepared.input
      /\ prepared # NothingPrepared /\ Settle(prepared.sequence)
  BY Zenon DEF Commit
<1>2. /\ prepared.tick = finalized + 1 /\ finalized \in Nat
      /\ finalized >= InitializedAt
      /\ prepared \in PreparedInput /\ prepared.tick \in 1..MaxTick
  BY <1>1 DEF Inv, PreparedIsNext, TypeOK, PreparedInput
<1>3. /\ audit' \in Seq(AuditRecord) /\ Len(audit') = Len(audit)
      /\ pending' = {d \in pending : d.target # prepared.tick}
      /\ \A k \in 1..Len(audit) :
           /\ audit'[k].command = audit[k].command
           /\ audit'[k].admission = audit[k].admission
           /\ audit'[k].pending <=>
                audit[k].pending /\ audit[k].command.target # prepared.tick
  BY Zenon, <1>1, SettleFacts
<1>4. /\ applied' \in [(InitializedAt + 1)..prepared.tick -> PreparedInput]
      /\ applied'[prepared.tick] = prepared
      /\ \A t \in (InitializedAt + 1)..finalized : applied'[t] = applied[t]
  <2>1. applied' = [t \in (InitializedAt + 1)..prepared.tick |->
                      IF t = prepared.tick THEN prepared ELSE applied[t]]
    BY Zenon DEF Commit
  <2>2. \A t \in (InitializedAt + 1)..prepared.tick :
          t # prepared.tick => t \in (InitializedAt + 1)..finalized
    BY <1>2
  <2> QED
    BY <1>2, <2>1, <2>2 DEF Inv, TypeOK
<1>5. TypeOK'
  <2>1. finalized' \in InitializedAt..Larger(InitializedAt, MaxTick)
    BY <1>1, <1>2 DEF Larger
  <2>2. receipts' \in Seq(Receipt) /\ Len(receipts') <= AuditRecords
    <3> DEFINE x == [tick |-> prepared.tick, sequence |-> prepared.sequence]
               kept == IF Len(receipts) = AuditRecords THEN Tail(receipts)
                       ELSE receipts
    <3>1. x \in Receipt
      BY Zenon, <1>2 DEF Receipt, PreparedInput
    <3>2. receipts' = Append(kept, x)
      BY Zenon DEF Commit, Push
    <3>3. kept \in Seq(Receipt) /\ Len(kept) < AuditRecords
      BY DEF Inv, TypeOK
    <3> QED
      BY <3>1, <3>2, <3>3
  <2>3. windowFloor' \in Nat /\ missingStreak' \in Nat /\ lastInput' \in Input
    BY <1>1, <1>2 DEF Grant, Larger, PreparedInput, Inv, TypeOK
  <2>4. prepared' \in PreparedInput
    BY <1>1 DEF NothingPrepared, PreparedInput, NeutralInput, Input
  <2>5. pending' \subseteq Command /\ submissions' \in 0..SubmissionsPerTick
    BY <1>1, <1>3 DEF Inv, TypeOK
  <2> QED
    BY Zenon, <1>1, <1>3, <1>4, <2>1, <2>2, <2>3, <2>4, <2>5 DEF Inv, TypeOK
<1>6. AuditDistinct'
  BY Zenon, <1>3 DEF Inv, AuditDistinct
<1>7. PendingIsFuture'
  <2>1. \A d \in accepted : d.target \in Nat
    BY DEF Inv, TypeOK, Command
  <2> QED
    BY <1>1, <1>2, <1>3, <2>1 DEF Inv, PendingIsFuture
<1>8. AuditBacksPending'
  BY <1>3 DEF Inv, AuditBacksPending
<1>9. AcceptedRemembered' /\ RefusedRemembered'
  BY SMTT(30), <1>1, <1>3 DEF Inv, AcceptedRemembered, RefusedRemembered, Remembered, Audited
<1>10. OneVerdict' /\ PreparedIsNext'
  BY Zenon, <1>1 DEF Inv, OneVerdict, PreparedIsNext
<1>11. AcceptedIffExecuted'
  <2> SUFFICES ASSUME NEW t \in DOMAIN applied'
               PROVE  /\ applied'[t].tick = t
                      /\ \A c \in accepted : c.target = t =>
                           /\ applied'[t].sequence = c.sequence
                           /\ applied'[t].input = CommandInput(c)
                      /\ applied'[t].sequence # 0 =>
                           \E c \in accepted :
                             c.target = t /\ c.sequence = applied'[t].sequence
    BY Zenon, <1>1 DEF AcceptedIffExecuted, CommandInput
  <2>1. CASE t = prepared.tick
    <3>1. ASSUME NEW c \in accepted, c.target = t
          PROVE  prepared = Selected(c)
      <4>1. c \in PendingAt(prepared.tick)
        BY <1>2, <2>1, <3>1 DEF Inv, PendingIsFuture, PendingAt
      <4>2. PICK d \in PendingAt(prepared.tick) : prepared = Selected(d)
        BY Zenon, <1>1, <4>1 DEF Inv, PreparedIsNext
      <4>3. d = c
        BY Zenon, <4>1, <4>2 DEF PendingAt, Inv, PendingIsFuture, OneVerdict
      <4> QED
        BY Zenon, <4>2, <4>3
    <3>2. prepared.sequence # 0 =>
            \E c \in accepted : c.target = t /\ c.sequence = prepared.sequence
      BY <1>1, <2>1 DEF Inv, PreparedIsNext, PendingAt, PendingIsFuture, Selected
    <3> QED
      BY <1>4, <2>1, <3>1, <3>2 DEF Selected
  <2>2. CASE t # prepared.tick
    <3>1. t \in (InitializedAt + 1)..finalized /\ applied'[t] = applied[t]
      BY <1>2, <1>4, <2>2
    <3>2. t \in DOMAIN applied
      BY Zenon, <3>1 DEF Inv, TypeOK
    <3> QED
      BY <3>1, <3>2 DEF Inv, AcceptedIffExecuted
  <2> QED
    BY Zenon, <2>1, <2>2
<1>12. RevokedNeverRuns'
  BY <1>1, <1>2 DEF Inv, RevokedNeverRuns, NothingPrepared, TypeOK
<1> QED
  BY Zenon, <1>5, <1>6, <1>7, <1>8, <1>9, <1>10, <1>11, <1>12 DEF Inv

LEMMA NextInv == Inv /\ [Next]_vars => Inv'
<1> SUFFICES ASSUME Inv, [Next]_vars PROVE Inv'
  BY Zenon
<1>1. ASSUME NEW c \in Command, Admit(c) PROVE Inv'
  BY Zenon, <1>1, AdmitInv
<1>2. CASE AdmitUnrecorded
  BY Zenon, <1>2, AdmitUnrecordedInv
<1>3. CASE PrepareNext
  BY Zenon, <1>3, PrepareNextInv
<1>4. CASE Commit
  BY Zenon, <1>4, CommitInv
<1>5. ASSUME NEW t \in 1..MaxTick, Handoff(t) PROVE Inv'
  BY Zenon, <1>5, HandoffInv
<1>6. CASE UNCHANGED vars
  <2>1. UNCHANGED <<book, finalized, applied>>
    BY Zenon, <1>6 DEF vars, tickly
  <2>2. TypeOK'
    BY Zenon, <1>6 DEF vars, book, tickly, Inv, TypeOK
  <2>3. PreparedIsNext' /\ RevokedNeverRuns'
    BY Zenon, <1>6 DEF vars, book, tickly, Inv, PreparedIsNext, PendingAt, Selected,
       CommandInput, RevokedNeverRuns
  <2> QED
    BY Zenon, <2>1, <2>2, <2>3, BookKept DEF Inv
<1> QED
  BY Zenon, <1>1, <1>2, <1>3, <1>4, <1>5, <1>6 DEF Next

\* Every state of the inbox satisfies the inductive invariant.
THEOREM Invariance == Spec => []Inv
<1> QED
  BY InitInv, NextInv, PTL DEF Spec

\* The variables of the inbox keep their types: in particular the audit and the
\* receipt ring never outgrow audit_records.
THEOREM TypeCorrect == Spec => []TypeOK
<1>1. Inv => TypeOK
  BY Zenon DEF Inv
<1> QED
  BY <1>1, Invariance, PTL

\* `admit` gives a sequence number one verdict for the life of the inbox.
THEOREM VerdictIsFinal == Spec => []OneVerdict
<1>1. Inv => OneVerdict
  BY Zenon DEF Inv
<1> QED
  BY <1>1, Invariance, PTL

\* What `commit` hands to the simulation at a tick is the command accepted for
\* that tick, unaltered, or a substitute when none was accepted.
THEOREM ExecutionMatchesAdmission == Spec => []AcceptedIffExecuted
<1>1. Inv => AcceptedIffExecuted
  BY Zenon DEF Inv
<1> QED
  BY <1>1, Invariance, PTL

\* The record that `commit` expects for an executed command is always there.
THEOREM CommitFindsItsRecord == Spec => []AuditBacksPending
<1>1. Inv => AuditBacksPending
  BY Zenon DEF Inv
<1> QED
  BY <1>1, Invariance, PTL

\* A handed-off stream runs nothing from the effective tick on.
THEOREM HandoffRevokes == Spec => []RevokedNeverRuns
<1>1. Inv => RevokedNeverRuns
  BY Zenon DEF Inv
<1> QED
  BY <1>1, Invariance, PTL

-----------------------------------------------------------------------------

\* An audited number is decided by the verdict of its only record.
LEMMA DecidedByRecord ==
  ASSUME AuditDistinct, NEW i \in 1..Len(audit)
  PROVE  Decided(audit[i].command.sequence) <=> audit[i].admission # "Future"
<1>1. Audited(audit[i].command.sequence)
  BY Zenon DEF Audited
<1>2. IndexOf(audit[i].command.sequence) = i
  BY Zenon, <1>1, IndexOfFacts DEF AuditDistinct
<1> QED
  BY Zenon, <1>1, <1>2 DEF Decided

\* Being decided is being remembered with a verdict other than Future.
LEMMA DecidedIsRemembered ==
  ASSUME AuditDistinct, audit \in Seq(AuditRecord), NEW s
  PROVE  Decided(s) <=> Remembered(s, Admission \ {"Future"})
<1>1. CASE Audited(s)
  <2>1. PICK i \in 1..Len(audit) : audit[i].command.sequence = s
    BY Zenon, <1>1 DEF Audited
  <2>2. Decided(s) <=> audit[i].admission # "Future"
    BY Zenon, <2>1, DecidedByRecord
  <2>3. audit[i].admission \in Admission
    <3>1. audit[i] \in AuditRecord
      BY <2>1
    <3> QED
      BY Zenon, <3>1 DEF AuditRecord
  <2>4. \A j \in 1..Len(audit) : audit[j].command.sequence = s => j = i
    BY Zenon, <2>1 DEF AuditDistinct
  <2> QED
    BY Zenon, <1>1, <2>1, <2>2, <2>3, <2>4 DEF Remembered
<1>2. CASE ~Audited(s)
  BY Zenon, <1>2 DEF Decided, Remembered, Audited
<1> QED
  BY Zenon, <1>1, <1>2

LEMMA UndecidedNotDecided ==
  ASSUME NEW c, c.sequence \in Nat, retired \in Nat, Undecided(c)
  PROVE  ~Decided(c.sequence)
<1>1. CASE Audited(c.sequence)
  <2>1. audit[IndexOf(c.sequence)].admission = "Future"
    BY <1>1, Zenon DEF Undecided
  <2> QED
    BY <1>1, <2>1, Zenon DEF Decided
<1>2. CASE ~Audited(c.sequence)
  <2>1. c.sequence > retired
    BY <1>2, Zenon DEF Undecided
  <2>2. Decided(c.sequence) => c.sequence <= retired
    BY <1>2, Zenon DEF Decided
  <2> QED
    BY <2>1, <2>2
<1> QED
  BY Zenon, <1>1, <1>2

LEMMA DecidedStep ==
  ASSUME Inv, [Next]_vars, NEW s \in 1..MaxSequence, Decided(s)
  PROVE  Decided(s)'
<1> DEFINE vs == Admission \ {"Future"}
<1>1. AuditDistinct' /\ (audit \in Seq(AuditRecord))'
  BY Zenon, NextInv DEF Inv, TypeOK
<1>2. Remembered(s, vs)
  BY Zenon, DecidedIsRemembered DEF Inv, TypeOK
<1>3. SUFFICES Remembered(s, vs)'
  <2>1. Decided(s)' <=> Remembered(s, vs)'
    BY <1>1, DecidedIsRemembered, PTL
  <2> QED
    BY Zenon, <1>3, <2>1
<1>4. ASSUME NEW c \in Command, Admit(c)
      PROVE  Remembered(s, vs)'
  <2> DEFINE r == [command |-> c, admission |-> Decide(c),
                   pending |-> Decide(c) = "Accepted"]
  <2>1. r \in AuditRecord /\ r.command = c
    BY Zenon DEF Decide, Admission, AuditRecord
  <2>2. Enter(r) /\ Undecided(c) /\ (Audited(r.command.sequence) \/ HasRoom)
    BY Zenon, <1>4 DEF Admit, Record, Recordable
  <2>3. c.sequence # s
    <3>0. c.sequence \in Nat /\ retired \in Nat
      BY DEF Inv, TypeOK, Command
    <3>1. ~Decided(c.sequence)
      BY Zenon, <2>2, <3>0, UndecidedNotDecided
    <3> QED
      BY Zenon, <3>1
  <2> HIDE DEF r
  <2> QED
    BY Zenon, <1>2, <2>1, <2>2, <2>3, EnterRemembers
<1>5. CASE Commit
  <2>1. /\ Len(audit') = Len(audit) /\ retired' = retired
        /\ \A k \in 1..Len(audit) : /\ audit'[k].command = audit[k].command
                                    /\ audit'[k].admission = audit[k].admission
    BY Zenon, <1>5, SettleFacts DEF Commit
  <2> QED
    BY Zenon, <1>2, <2>1 DEF Remembered, Audited
<1>6. CASE UNCHANGED <<audit, retired>>
  BY Zenon, <1>2, <1>6 DEF Remembered, Audited
<1> QED
  BY Zenon, <1>4, <1>5, <1>6 DEF Next, AdmitUnrecorded, PrepareNext, Handoff, vars, book

\* No step of the inbox makes a decided sequence number undecided: eviction
\* cannot make room for a second verdict.
THEOREM DecisionsStand == Spec => DecidedForever
<1>1. Inv /\ [Next]_vars => [\A s \in 1..MaxSequence : Decided(s) => Decided(s)']_vars
  BY Zenon, DecidedStep
<1> QED
  BY <1>1, Invariance, PTL DEF Spec, DecidedForever

-----------------------------------------------------------------------------

\* Every committed tick has moved the base of the sequence window.
FloorKeepsUp == windowFloor >= finalized - InitializedAt

LEMMA FloorStep == Inv /\ FloorKeepsUp /\ [Next]_vars => FloorKeepsUp'
<1> SUFFICES ASSUME Inv, FloorKeepsUp, [Next]_vars PROVE FloorKeepsUp'
  BY Zenon
<1> USE BoundsAssumption
<1>1. CASE Commit
  <2>1. /\ finalized' = finalized + 1
        /\ windowFloor' = Larger(windowFloor + 1, prepared.sequence)
    BY Zenon, <1>1 DEF Commit, Grant, Inv, PreparedIsNext
  <2>2. /\ finalized \in Nat /\ windowFloor \in Nat /\ prepared.sequence \in Nat
    BY DEF Inv, TypeOK, PreparedInput
  <2> QED
    BY <2>1, <2>2 DEF FloorKeepsUp, Larger
<1>2. CASE UNCHANGED <<windowFloor, finalized>>
  BY Zenon, <1>2 DEF FloorKeepsUp
<1> QED
  BY Zenon, <1>1, <1>2 DEF Next, Admit, AdmitUnrecorded, PrepareNext, Handoff, vars, tickly

\* A client that issues one sequence number per tick never meets the sequence
\* window, however many of its commands were lost.
THEOREM PacedClientIsServed == Spec => []PacedClientInsideWindow
<1>1. Init => FloorKeepsUp
  BY BoundsAssumption DEF Init, FloorKeepsUp
<1>2. Inv /\ FloorKeepsUp => PacedClientInsideWindow
  <2> SUFFICES ASSUME Inv, FloorKeepsUp, NEW c \in Command,
                      c.sequence <= c.target - InitializedAt,
                      c.target <= finalized + FutureTicks
               PROVE  c.sequence <= windowFloor + SequenceAhead
    BY Zenon DEF PacedClientInsideWindow
  <2>1. /\ c.sequence \in Nat /\ c.target \in Nat
        /\ finalized \in Nat /\ windowFloor \in Nat
    BY BoundsAssumption DEF Command, Inv, TypeOK
  <2> QED
    BY <2>1, LimitsAssumption, BoundsAssumption DEF FloorKeepsUp
<1> QED
  BY <1>1, <1>2, FloorStep, Invariance, PTL DEF Spec

-----------------------------------------------------------------------------

\* The last tick that ran a command, or the tick the inbox began at.
LastRun == finalized - missingStreak

\* missing_streak counts the ticks since the last command ran, and last_input is
\* the input of that command; a substitute in preparation is made of the two.
StreakFollows ==
  /\ missingStreak <= finalized - InitializedAt
  /\ \A t \in DOMAIN applied : t > LastRun => applied[t].sequence = 0
  /\ IF LastRun = InitializedAt
     THEN lastInput = NeutralInput
     ELSE applied[LastRun].sequence # 0 /\ lastInput = applied[LastRun].input
  /\ prepared # NothingPrepared => IF prepared.sequence = 0
                                   THEN prepared = Substitute
                                   ELSE prepared.streak = 0

ContinuityInv == StreakFollows /\ ContinuityFollowsHistory

LEMMA ContinuityInit == Init => ContinuityInv
<1> SUFFICES ASSUME Init PROVE ContinuityInv
  BY Zenon
<1>1. finalized = InitializedAt /\ InitializedAt \in Nat /\ missingStreak = 0
  BY Zenon, BoundsAssumption DEF Init
<1>2. DOMAIN applied = {}
  BY <1>1 DEF Init
<1>3. receipts = <<>> /\ Len(receipts) = 0 /\ lastInput = NeutralInput
      /\ prepared = NothingPrepared
  BY Zenon DEF Init
<1>4. StreakFollows
  BY <1>1, <1>2, <1>3 DEF StreakFollows, LastRun
<1>5. ContinuityFollowsHistory
  BY <1>1, <1>2, <1>3, LimitsAssumption DEF ContinuityFollowsHistory
<1> QED
  BY Zenon, <1>4, <1>5 DEF ContinuityInv

\* What a commit of the prepared selection adds to the history.
LEMMA CommitExtends ==
  ASSUME Inv, Commit
  PROVE  /\ finalized \in Nat /\ finalized >= InitializedAt /\ InitializedAt \in Nat
         /\ prepared # NothingPrepared /\ prepared.tick = finalized + 1
         /\ finalized' = finalized + 1
         /\ DOMAIN applied = (InitializedAt + 1)..finalized
         /\ DOMAIN applied' = (InitializedAt + 1)..(finalized + 1)
         /\ applied'[finalized + 1] = prepared
         /\ \A t \in DOMAIN applied : applied'[t] = applied[t]
<1> USE BoundsAssumption
<1>1. /\ prepared # NothingPrepared /\ prepared.tick = finalized + 1
      /\ finalized' = prepared.tick
      /\ finalized \in Nat /\ finalized >= InitializedAt
      /\ DOMAIN applied = (InitializedAt + 1)..finalized
  BY DEF Commit, Inv, PreparedIsNext, TypeOK
<1>2. applied' = [t \in (InitializedAt + 1)..prepared.tick |->
                    IF t = prepared.tick THEN prepared ELSE applied[t]]
  BY Zenon DEF Commit
<1>3. \A t \in DOMAIN applied : t \in (InitializedAt + 1)..prepared.tick /\ t # prepared.tick
  BY <1>1
<1>4. prepared.tick \in (InitializedAt + 1)..prepared.tick
  BY <1>1
<1> QED
  BY Zenon, <1>1, <1>2, <1>3, <1>4

\* The last command within reach of a tick does not depend on later ticks.
LEMMA RanWithinKept ==
  ASSUME Inv, Commit, NEW t \in (InitializedAt + 1)..(finalized + 1)
  PROVE  /\ RanWithin(t)' = RanWithin(t)
         /\ \A u \in RanWithin(t) : u \in DOMAIN applied /\ u < t /\ applied'[u] = applied[u]
<1>0. HeldGrace \in Nat /\ t \in Nat
  BY LimitsAssumption, BoundsAssumption, CommitExtends
<1>1. ASSUME NEW u \in (t - HeldGrace)..(t - 1)
      PROVE  /\ u \in DOMAIN applied' <=> u \in DOMAIN applied
             /\ u \in DOMAIN applied => applied'[u] = applied[u]
  BY <1>0, CommitExtends
<1> QED
  BY <1>0, <1>1 DEF RanWithin

LEMMA CommitContinuity ==
  ASSUME Inv, ContinuityInv, Commit
  PROVE  ContinuityInv'
<1> USE LimitsAssumption, BoundsAssumption
<1>1. /\ finalized \in Nat /\ finalized >= InitializedAt /\ InitializedAt \in Nat
      /\ prepared # NothingPrepared /\ prepared.tick = finalized + 1
      /\ finalized' = finalized + 1
      /\ DOMAIN applied = (InitializedAt + 1)..finalized
      /\ DOMAIN applied' = (InitializedAt + 1)..(finalized + 1)
      /\ applied'[finalized + 1] = prepared
      /\ \A t \in DOMAIN applied : applied'[t] = applied[t]
  BY Zenon, CommitExtends
<1>2. /\ missingStreak' = prepared.streak /\ prepared' = NothingPrepared
      /\ lastInput' = IF prepared.sequence = 0 THEN lastInput ELSE prepared.input
      /\ missingStreak \in Nat
      /\ receipts' = Push([tick |-> prepared.tick, sequence |-> prepared.sequence])
  BY Zenon DEF Commit, Inv, TypeOK
<1>3. /\ missingStreak <= finalized - InitializedAt
      /\ LastRun \in Nat /\ LastRun >= InitializedAt /\ LastRun <= finalized
      /\ \A t \in DOMAIN applied : t > LastRun => applied[t].sequence = 0
      /\ LastRun = InitializedAt => lastInput = NeutralInput
      /\ LastRun # InitializedAt =>
           /\ LastRun \in DOMAIN applied
           /\ applied[LastRun].sequence # 0 /\ lastInput = applied[LastRun].input
  BY <1>1, <1>2 DEF ContinuityInv, StreakFollows, LastRun
<1>4. prepared.sequence = 0 => prepared = Substitute
  BY Zenon, <1>1 DEF ContinuityInv, StreakFollows
<1>5. prepared.sequence # 0 => prepared.streak = 0
  BY Zenon, <1>1 DEF ContinuityInv, StreakFollows
<1>6. prepared.sequence = 0 => LastRun' = LastRun /\ missingStreak' = missingStreak + 1
  BY SMTT(30), <1>1, <1>2, <1>4 DEF LastRun, Substitute
<1>7. prepared.sequence # 0 => LastRun' = finalized + 1 /\ missingStreak' = 0
  BY <1>1, <1>2, <1>5 DEF LastRun
<1>8. StreakFollows'
  <2>1. CASE prepared.sequence = 0
    <3>1. \A t \in DOMAIN applied' : t > LastRun => applied'[t].sequence = 0
      BY SMTT(30), <1>1, <1>3, <2>1
    <3>2. LastRun \in DOMAIN applied => applied'[LastRun] = applied[LastRun]
      BY Zenon, <1>1
    <3> QED
      BY SMTT(30), <1>1, <1>2, <1>3, <1>6, <2>1, <3>1, <3>2 DEF StreakFollows
  <2>2. CASE prepared.sequence # 0
    <3>1. \A t \in DOMAIN applied' : ~(t > finalized + 1)
      BY <1>1
    <3> QED
      BY SMTT(30), <1>1, <1>2, <1>7, <2>2, <3>1 DEF StreakFollows
  <2> QED
    BY Zenon, <2>1, <2>2
<1>9. ASSUME NEW t \in DOMAIN applied', applied'[t].sequence = 0
      PROVE  \/ RanWithin(t)' = {} /\ applied'[t].input = NeutralInput
             \/ \E u \in RanWithin(t)' :
                  /\ \A v \in RanWithin(t)' : v <= u
                  /\ applied'[t].input = HeldInput(applied'[u].input)
  <2>1. /\ RanWithin(t)' = RanWithin(t)
        /\ \A u \in RanWithin(t) : u \in DOMAIN applied /\ u < t /\ applied'[u] = applied[u]
    BY Zenon, <1>1, RanWithinKept
  <2>2. CASE t # finalized + 1
    <3>1. t \in DOMAIN applied /\ applied'[t] = applied[t]
      BY <1>1, <2>2
    <3>2. \/ RanWithin(t) = {} /\ applied[t].input = NeutralInput
          \/ \E u \in RanWithin(t) :
               /\ \A v \in RanWithin(t) : v <= u
               /\ applied[t].input = HeldInput(applied[u].input)
      BY Zenon, <1>9, <3>1 DEF ContinuityInv, ContinuityFollowsHistory
    <3> QED
      BY Zenon, <2>1, <3>1, <3>2
  <2>3. CASE t = finalized + 1
    <3>1. applied'[t] = Substitute
      BY Zenon, <1>1, <1>4, <1>9, <2>3
    <3>2. Substitute.input = IF missingStreak + 1 <= HeldGrace
                             THEN HeldInput(lastInput) ELSE NeutralInput
      BY Zenon DEF Substitute
    <3>3. \A u \in RanWithin(t) : u <= LastRun /\ u >= t - HeldGrace
      BY <1>1, <1>3 DEF RanWithin
    <3>4. CASE missingStreak + 1 <= HeldGrace /\ LastRun # InitializedAt
      <4>1. LastRun \in RanWithin(t)
        BY <1>1, <1>2, <1>3, <2>3, <3>4 DEF RanWithin, LastRun
      <4>2. applied'[t].input = HeldInput(applied'[LastRun].input)
        BY Zenon, <1>3, <2>1, <3>1, <3>2, <3>4, <4>1
      <4> QED
        BY Zenon, <2>1, <3>3, <4>1, <4>2
    <3>5. CASE LastRun = InitializedAt
      <4>1. RanWithin(t) = {}
        BY <1>1, <3>3, <3>5 DEF RanWithin
      <4>2. HeldInput(NeutralInput) = NeutralInput
        BY Zenon DEF HeldInput, NeutralInput
      <4> QED
        BY Zenon, <1>3, <2>1, <3>1, <3>2, <3>5, <4>1, <4>2
    <3>6. CASE ~(missingStreak + 1 <= HeldGrace)
      <4>1. RanWithin(t) = {}
        BY <1>1, <1>2, <2>3, <3>3, <3>6 DEF RanWithin, LastRun
      <4> QED
        BY Zenon, <2>1, <3>1, <3>2, <3>6, <4>1
    <3> QED
      BY Zenon, <3>4, <3>5, <3>6
  <2> QED
    BY Zenon, <2>2, <2>3
<1>10. /\ Len(receipts') = IF finalized' - InitializedAt < AuditRecords
                           THEN finalized' - InitializedAt ELSE AuditRecords
       /\ \A i \in 1..Len(receipts') :
            receipts'[i] = [tick |-> finalized' - Len(receipts') + i,
                            sequence |-> applied'[finalized' - Len(receipts') + i].sequence]
  <2> DEFINE x == [tick |-> prepared.tick, sequence |-> prepared.sequence]
             kept == IF Len(receipts) = AuditRecords THEN Tail(receipts) ELSE receipts
  <2>1. /\ receipts \in Seq(Receipt) /\ Len(receipts) <= AuditRecords
        /\ AuditRecords \in Nat \ {0}
    BY DEF Inv, TypeOK
  <2>2. /\ Len(receipts) = IF finalized - InitializedAt < AuditRecords
                           THEN finalized - InitializedAt ELSE AuditRecords
        /\ \A i \in 1..Len(receipts) :
             receipts[i] = [tick |-> finalized - Len(receipts) + i,
                            sequence |-> applied[finalized - Len(receipts) + i].sequence]
    BY Zenon DEF ContinuityInv, ContinuityFollowsHistory
  <2>3. receipts' = Append(kept, x)
    BY Zenon, <1>2 DEF Push
  <2>4. PICK shift \in {0, 1} :
          /\ kept \in Seq(Receipt)
          /\ Len(kept) = Len(receipts) - shift
          /\ shift = 1 <=> Len(receipts) = AuditRecords
          /\ \A i \in 1..Len(kept) : kept[i] = receipts[i + shift]
    <3>1. CASE Len(receipts) = AuditRecords
      <4>1. /\ Tail(receipts) \in Seq(Receipt) /\ Len(Tail(receipts)) = Len(receipts) - 1
            /\ \A i \in 1..(Len(receipts) - 1) : Tail(receipts)[i] = receipts[i + 1]
        BY <2>1, <3>1
      <4>2. kept = Tail(receipts)
        BY Zenon, <3>1
      <4> HIDE DEF kept
      <4> QED
        BY Zenon, <3>1, <4>1, <4>2
    <3>2. CASE Len(receipts) # AuditRecords
      <4>1. kept = receipts
        BY Zenon, <3>2
      <4> HIDE DEF kept
      <4> QED
        BY <2>1, <3>2, <4>1
    <3> QED
      BY Zenon, <3>1, <3>2
  <2> HIDE DEF kept
  <2>41. Len(kept) \in Nat /\ Len(receipts) \in Nat /\ shift \in {0, 1}
         /\ Len(kept) = Len(receipts) - shift /\ Len(receipts') = Len(kept) + 1
    BY <2>1, <2>3, <2>4
  <2>5. /\ Len(receipts') = Len(kept) + 1
        /\ \A i \in 1..Len(kept) : receipts'[i] = kept[i]
        /\ receipts'[Len(kept) + 1] = x
    BY <2>3, <2>4
  <2>6. Len(receipts') = IF finalized' - InitializedAt < AuditRecords
                         THEN finalized' - InitializedAt ELSE AuditRecords
    BY <1>1, <2>1, <2>2, <2>4, <2>41
  <2>7. ASSUME NEW i \in 1..Len(receipts')
        PROVE  receipts'[i] = [tick |-> finalized' - Len(receipts') + i,
                               sequence |-> applied'[finalized' - Len(receipts') + i].sequence]
    <3> DEFINE t == finalized' - Len(receipts') + i
    <3>1. CASE i = Len(kept) + 1
      <4>1. t = finalized + 1
        BY <1>1, <2>41, <3>1
      <4> QED
        BY Zenon, <1>1, <2>5, <3>1, <4>1
    <3>2. CASE i # Len(kept) + 1
      <4> DEFINE j == i + shift
      <4>1. i \in 1..Len(kept) /\ j \in 1..Len(receipts) /\ receipts'[i] = receipts[j]
        BY SMTT(30), <2>4, <2>41, <2>5, <3>2
      <4>2. finalized - Len(receipts) + j = t /\ t \in DOMAIN applied
        BY SMTT(30), <1>1, <2>1, <2>2, <2>4, <2>41, <4>1
      <4>3. receipts[j] = [tick |-> t, sequence |-> applied[t].sequence]
        BY Zenon, <2>2, <4>1, <4>2
      <4> QED
        BY Zenon, <1>1, <4>1, <4>2, <4>3
    <3> QED
      BY Zenon, <3>1, <3>2
  <2> QED
    BY Zenon, <2>6, <2>7
<1>11. ContinuityFollowsHistory'
  BY Zenon, <1>9, <1>10 DEF ContinuityFollowsHistory, HeldInput
<1> QED
  BY Zenon, <1>8, <1>11 DEF ContinuityInv

\* A step that leaves the history and what a substitute is made of alone.
LEMMA HistoryKept ==
  ASSUME ContinuityInv, UNCHANGED tickly,
         prepared' # NothingPrepared =>
           IF prepared'.sequence = 0 THEN prepared' = Substitute ELSE prepared'.streak = 0
  PROVE  ContinuityInv'
<1>1. UNCHANGED <<finalized, receipts, lastInput, missingStreak, applied>>
  BY Zenon DEF tickly
<1>2. Substitute' = Substitute /\ LastRun' = LastRun
  BY Zenon, <1>1 DEF Substitute, LastRun, HeldInput, NeutralInput
<1>3. \A t : RanWithin(t)' = RanWithin(t)
  BY Zenon, <1>1 DEF RanWithin
<1>4. StreakFollows'
  BY Zenon, <1>1, <1>2 DEF ContinuityInv, StreakFollows
<1>5. ContinuityFollowsHistory'
  BY Zenon, <1>1, <1>3 DEF ContinuityInv, ContinuityFollowsHistory, HeldInput
<1> QED
  BY Zenon, <1>4, <1>5 DEF ContinuityInv

LEMMA ContinuityStep == Inv /\ ContinuityInv /\ [Next]_vars => ContinuityInv'
<1> SUFFICES ASSUME Inv, ContinuityInv, [Next]_vars PROVE ContinuityInv'
  BY Zenon
<1>1. CASE Commit
  BY Zenon, <1>1, CommitContinuity
<1>2. CASE PrepareNext
  <2>1. UNCHANGED tickly
    BY Zenon, <1>2 DEF PrepareNext
  <2>2. ASSUME NEW c \in PendingAt(finalized + 1), prepared' = Selected(c)
        PROVE  ContinuityInv'
    <3>1. c.sequence # 0
      BY <2>2 DEF PendingAt, Inv, TypeOK, Command
    <3> QED
      BY Zenon, <2>1, <2>2, <3>1, HistoryKept DEF Selected
  <2>3. CASE prepared' = Substitute
    <3>1. prepared'.sequence = 0
      BY Zenon, <2>3 DEF Substitute
    <3> QED
      BY Zenon, <2>1, <2>3, <3>1, HistoryKept
  <2> QED
    BY Zenon, <1>2, <2>2, <2>3 DEF PrepareNext
<1>3. CASE UNCHANGED <<tickly, prepared>>
  BY Zenon, <1>3, HistoryKept DEF ContinuityInv, StreakFollows
<1> QED
  BY Zenon, <1>1, <1>2, <1>3 DEF Next, Admit, AdmitUnrecorded, Handoff, vars

\* What replaces a missing command follows from the history of the ticks before it
\* (continuity.rs), and the receipt ring is the end of that history.
THEOREM SubstitutesFollowHistory == Spec => []ContinuityFollowsHistory
<1>1. ContinuityInv => ContinuityFollowsHistory
  BY Zenon DEF ContinuityInv
<1> QED
  BY <1>1, ContinuityInit, ContinuityStep, Invariance, PTL DEF Spec

-----------------------------------------------------------------------------

\* No pending command lies beyond the window of future ticks.
PendingInWindow == \A c \in pending : c.target <= finalized + FutureTicks

LEMMA WindowStep == Inv /\ PendingInWindow /\ [Next]_vars => PendingInWindow'
<1> SUFFICES ASSUME Inv, PendingInWindow, [Next]_vars PROVE PendingInWindow'
  BY Zenon
<1> USE LimitsAssumption, BoundsAssumption
<1>0. finalized \in Nat /\ \A c \in pending : c.target \in Nat
  BY DEF Inv, TypeOK, Command
<1>1. ASSUME NEW c \in Command, Admit(c) PROVE PendingInWindow'
  <2>1. finalized' = finalized
    BY Zenon, <1>1 DEF Admit, tickly
  <2>2. CASE Decide(c) = "Accepted"
    <3>1. c.target <= finalized + FutureTicks
      BY <1>0, <2>2 DEF Decide, Command
    <3>2. pending' \subseteq pending \cup {c}
      BY Zenon, <1>1, <2>2 DEF Admit, Record
    <3> QED
      BY Zenon, <2>1, <3>1, <3>2 DEF PendingInWindow
  <2>3. CASE Decide(c) # "Accepted"
    <3>1. pending' = pending
      BY Zenon, <1>1, <2>3 DEF Admit, Record
    <3> QED
      BY Zenon, <2>1, <3>1 DEF PendingInWindow
  <2> QED
    BY Zenon, <2>2, <2>3
<1>2. CASE Commit
  <2>1. finalized' = finalized + 1
    BY Zenon, <1>2, CommitExtends
  <2>2. pending' \subseteq pending
    BY Zenon, <1>2, SettleFacts DEF Commit
  <2> QED
    BY <1>0, <2>1, <2>2 DEF PendingInWindow
<1>3. CASE UNCHANGED <<pending, finalized>>
  BY Zenon, <1>3 DEF PendingInWindow
<1> QED
  BY Zenon, <1>1, <1>2, <1>3 DEF Next, AdmitUnrecorded, PrepareNext, Handoff, vars, book, tickly

\* A full audit of pending records has one for every tick of the window.
LEMMA FullAuditFillsWindow ==
  ASSUME Inv, PendingInWindow, ~HasRoom
  PROVE  \A t \in (finalized + 1)..(finalized + FutureTicks) : PendingAt(t) # {}
<1> USE LimitsAssumption, BoundsAssumption
<1> DEFINE window == (finalized + 1)..(finalized + FutureTicks)
           tickOf == [i \in 1..Len(audit) |-> audit[i].command.target]
<1>1. /\ Len(audit) = AuditRecords /\ Len(audit) \in Nat /\ finalized \in Nat
      /\ \A i \in 1..Len(audit) : audit[i].pending
  BY DEF Inv, TypeOK, HasRoom, Idle
<1>2. \A i \in 1..Len(audit) : /\ audit[i].command \in pending
                               /\ audit[i].command \in accepted
                               /\ audit[i].command.target > finalized
  BY Zenon, <1>1 DEF Inv, AuditBacksPending, PendingIsFuture
<1>3. \A c \in pending : c.target \in Nat
  BY SMTT(30) DEF Inv, TypeOK, Command
<1>4. tickOf \in Injection(1..Len(audit), window)
  <2>1. \A i \in 1..Len(audit) : audit[i].command.target \in window
    BY <1>1, <1>2, <1>3 DEF PendingInWindow
  <2>2. ASSUME NEW i \in 1..Len(audit), NEW j \in 1..Len(audit),
               audit[i].command.target = audit[j].command.target
        PROVE  i = j
    <3>1. audit[i].command = audit[j].command
      BY Zenon, <1>2, <2>2 DEF Inv, OneVerdict
    <3> QED
      BY Zenon, <3>1 DEF Inv, AuditDistinct
  <2> QED
    BY Zenon, <2>1, <2>2 DEF Injection, IsInjective
<1>5. /\ IsFiniteSet(window) /\ Cardinality(window) = FutureTicks
      /\ IsFiniteSet(1..Len(audit)) /\ Cardinality(1..Len(audit)) = Len(audit)
  BY SMTT(30), <1>1, FS_Interval
<1>6. tickOf \in Surjection(1..Len(audit), window)
  BY <1>1, <1>4, <1>5, FS_Injection
<1>7. ASSUME NEW t \in window PROVE PendingAt(t) # {}
  <2>1. PICK i \in 1..Len(audit) : tickOf[i] = t
    BY Zenon, <1>6 DEF Surjection
  <2>2. audit[i].command \in PendingAt(t)
    BY Zenon, <1>2, <2>1 DEF PendingAt
  <2> QED
    BY Zenon, <2>2
<1> QED
  BY Zenon, <1>7

\* A command for a free tick of the window finds room in the audit, however small
\* an audit `new` allows.
THEOREM FreeTickIsServed == Spec => []FreeTickHasAuditRoom
<1>1. Init => PendingInWindow
  BY Zenon DEF Init, PendingInWindow
<1>2. Inv /\ PendingInWindow => FreeTickHasAuditRoom
  <2> SUFFICES ASSUME Inv, PendingInWindow, ~HasRoom,
                      NEW t \in (Cutoff + 1)..(finalized + FutureTicks)
               PROVE  PendingAt(t) # {}
    BY Zenon DEF FreeTickHasAuditRoom
  <2>1. Cutoff \in Nat /\ Cutoff >= finalized /\ finalized \in Nat
    BY BoundsAssumption DEF Cutoff, Inv, PreparedIsNext, TypeOK
  <2>2. t \in (finalized + 1)..(finalized + FutureTicks)
    BY <2>1, LimitsAssumption
  <2> QED
    BY Zenon, <2>2, FullAuditFillsWindow
<1> QED
  BY <1>1, <1>2, WindowStep, Invariance, PTL DEF Spec

\* Everything that the inbox promises, for every value of its limits that
\* CommandInbox::new admits: the invariant that TLC checks on a small instance.
THEOREM InboxIsSound == Spec => []InboxSound
<1>1. AcceptedIffExecuted /\ OneVerdict /\ AuditBacksPending
      /\ FreeTickHasAuditRoom /\ PacedClientInsideWindow
      /\ ContinuityFollowsHistory /\ RevokedNeverRuns => InboxSound
  BY Zenon DEF InboxSound
<1> QED
  BY <1>1, ExecutionMatchesAdmission, VerdictIsFinal, CommitFindsItsRecord,
     FreeTickIsServed, PacedClientIsServed, SubstitutesFollowHistory,
     HandoffRevokes, PTL

=============================================================================
