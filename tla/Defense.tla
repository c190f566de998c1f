------------------------------ MODULE Defense ------------------------------
(***************************************************************************)
(* The shield of one actor and the credits behind it (simulation/src/      *)
(* state/combat.rs DefenseEpisodes; engine/core combat shields.rs,         *)
(* effects.rs).  The shield of the moment is one amount with one timer.  A *)
(* hit may be of an earlier view, when another shield was up, so every     *)
(* grant is also kept as an episode of credit with what has been spent of  *)
(* it, until no view can reach it any more.  The capture of a tick brings  *)
(* the episodes in line with the shield and records, in the pose of the    *)
(* tick, the shield and the newest episode of that moment.                 *)
(*                                                                         *)
(* The timer counts ticks; amounts are whole.  The game shields heroes,    *)
(* whose hits are of the current tick; the views a hit may be of are a     *)
(* constant, since the ledger is built for late ones.                      *)
(***************************************************************************)
EXTENDS Integers, Sequences, Folds
LOCAL INSTANCE FiniteSetsExt
LOCAL INSTANCE SequencesExt

CONSTANTS
  Grants,          \* amounts of a cast
  ShieldCap,       \* ShieldPolicy::AddCapped
  ShieldTicks,     \* ticks a shield lasts (DurationPolicy::Reset)
  Damages,         \* amounts of a hit
  Late,            \* how many ticks ago the view of a hit may be
  CreditTicks,     \* COMBAT_HISTORY_TICKS: how long expired credit is kept
  MaxEpisodes,     \* MAX_SHIELD_EPISODES
  MaxGrants,       \* bound on casts
  DefenseTicks     \* bound on ticks

DefenseAssumption ==
  /\ Grants \cup Damages \cup {ShieldCap, ShieldTicks, MaxEpisodes, DefenseTicks} \subseteq Nat \ {0}
  /\ Late \subseteq 0..CreditTicks /\ CreditTicks \in Nat /\ MaxGrants \in Nat

VARIABLES
  moment,      \* the gameplay tick
  shield,      \* CombatState: amount and left, the ticks it still lasts
  episodes,    \* DefenseEpisodes.episodes
  nextEpisode, \* DefenseEpisodes.next_episode
  recorded,    \* tick -> the shield and the cutoff in its pose
  granted,     \* casts so far, and all they added
  soaked       \* tick -> all that hits of its view have had absorbed

defenseVars == <<moment, shield, episodes, nextEpisode, recorded, granted, soaked>>

Total(f) == FoldSeq(LAMBDA x, y : x + y, 0, f)

Remaining(e) == e.granted - e.spent
ActiveAt(e, tick) == e.from <= tick /\ tick < e.until

DefenseInit ==
  /\ moment = 0
  /\ shield = [amount |-> 0, left |-> 0]
  /\ episodes = <<>> /\ nextEpisode = 1
  /\ recorded = [t \in {0} |-> [shield |-> 0, cutoff |-> 0]]
  /\ granted = [casts |-> 0, total |-> 0]
  /\ soaked = [t \in {0} |-> 0]

-----------------------------------------------------------------------------
\* CombatState::tick.
Counted(s) ==
  LET left == IF s.left > 0 THEN s.left - 1 ELSE 0
  IN [amount |-> IF left = 0 THEN 0 ELSE s.amount, left |-> left]

\* grant_shield.
Granted(s, amount) ==
  [amount |-> Min({s.amount + amount, ShieldCap}), left |-> ShieldTicks]

\* An episode a hit of that view may be charged to.
Chargeable(e, query, cutoff) == e.id <= cutoff /\ ActiveAt(e, query)

\* absorb: the episodes after a hit of the view at query with that record.
Charge(list, query, record, damage) ==
  LET want == Min({damage, record.shield})
      Room(i) == IF Chargeable(list[i], query, record.cutoff) THEN Remaining(list[i]) ELSE 0
      Before(i) == Total([j \in 1..(i - 1) |-> Room(j)])
      Taken(i) == Max({0, Min({Room(i), want - Before(i)})})
  IN [i \in DOMAIN list |-> [list[i] EXCEPT !.spent = @ + Taken(i)]]

Spent(list) == Total([i \in DOMAIN list |-> list[i].spent])

\* The part of what a hit took that today's shield also loses.
LostToday(old, new, tick) ==
  Total([i \in DOMAIN old |-> IF ActiveAt(old[i], tick) THEN new[i].spent - old[i].spent ELSE 0])

-----------------------------------------------------------------------------
(* reconcile.                                                               *)

Retained(list, tick) == SelectSeq(list, LAMBDA e : e.until + CreditTicks >= tick)

\* The shield is gone: what was active ends now.
Ended(list, tick) ==
  [i \in DOMAIN list |-> IF list[i].until > tick
                         THEN [list[i] EXCEPT !.until = Max({tick, list[i].from + 1})] ELSE list[i]]


\* The credit that was active on the previous tick.
Standing(list, tick) ==
  Total([i \in DOMAIN list |-> IF list[i].until >= tick THEN Remaining(list[i]) ELSE 0])

Extended(list, tick, until) ==
  [i \in DOMAIN list |-> IF list[i].until >= tick /\ Remaining(list[i]) > 0
                         THEN [list[i] EXCEPT !.until = until] ELSE list[i]]

\* The episodes after the capture of a tick, in a sequence of one; <<>> is the
\* error "shield episode budget".
Reconciled(all, s, tick, next) ==
  LET list  == Retained(all, tick)
      until == tick + s.left
      delta == s.amount - Standing(list, tick)
      kept  == Extended(list, tick, until)
  IN CASE s.amount = 0 \/ s.left = 0 -> <<Ended(list, tick)>>
       [] delta = 0 -> <<kept>>
       [] delta < 0 -> <<Charge(kept, tick, [shield |-> -delta, cutoff |-> next - 1], -delta)>>
       [] Len(list) >= MaxEpisodes -> <<>>
       [] OTHER -> <<Append(kept, [id |-> next, from |-> tick, until |-> until,
                                   granted |-> delta, spent |-> 0])>>

-----------------------------------------------------------------------------
\* One gameplay tick: the timers, a cast, the capture of the pose and then the
\* hits, each of a view and an amount.  After a failed capture the tick has no
\* pose and resolve_combat_batch applies no hit.
DefenseTick(cast, hits) ==
  LET tick    == moment + 1
      counted == Counted(shield)
      s       == IF cast = 0 THEN counted ELSE Granted(counted, cast)
      list    == Reconciled(episodes, s, tick, nextEpisode)
      minted  == list # <<>> /\ \E i \in DOMAIN list[1] : list[1][i].id = nextEpisode
      next    == IF minted THEN nextEpisode + 1 ELSE nextEpisode
      record  == [shield |-> s.amount, cutoff |-> next - 1]
      records == [t \in DOMAIN recorded \cup {tick} |-> IF t = tick THEN record ELSE recorded[t]]
      View(hit) == tick - hit.ago
      after[i \in 0..Len(hits)] ==
        IF i = 0 THEN list[1]
        ELSE Charge(after[i - 1], View(hits[i]), records[View(hits[i])], hits[i].damage)
      took(i) == Spent(after[i]) - Spent(after[i - 1])
  IN /\ moment < DefenseTicks
     /\ cast # 0 => granted.casts < MaxGrants
     /\ \A i \in DOMAIN hits : View(hits[i]) \in DOMAIN records
     /\ moment' = tick
     /\ granted' = IF cast = 0 THEN granted
                   ELSE [casts |-> granted.casts + 1, total |-> granted.total + s.amount - counted.amount]
     /\ IF list = <<>>
        THEN shield' = s /\ UNCHANGED <<episodes, nextEpisode, recorded, soaked>>
        ELSE /\ episodes' = after[Len(hits)]
             /\ nextEpisode' = next
             /\ recorded' = records
             /\ shield' = [s EXCEPT !.amount =
                             Max({0, @ - LostToday(after[0], after[Len(hits)], tick)})]
             /\ soaked' = [t \in DOMAIN records |->
                             (IF t \in DOMAIN soaked THEN soaked[t] ELSE 0)
                             + Total([i \in DOMAIN hits |-> IF View(hits[i]) = t THEN took(i) ELSE 0])]

Hits == UNION {[1..n -> [ago : Late, damage : Damages]] : n \in 0..2}

DefenseNext == \E cast \in Grants \cup {0}, hits \in Hits : DefenseTick(cast, hits)

DefenseSpec == DefenseInit /\ [][DefenseNext]_defenseVars

-----------------------------------------------------------------------------
\* No shield is spent twice: the hits of one view never have more absorbed than
\* the shield recorded in that view, all hits together never more than was ever
\* granted, and while the captures succeed the shield of the moment is exactly
\* the credit that is still active.  (DefenseEpisodes::reconcile, absorb)
ShieldSpentOnce ==
  /\ \A t \in DOMAIN soaked : soaked[t] <= recorded[t].shield
  /\ FoldFunction(LAMBDA x, y : x + y, 0, soaked) <= granted.total
  /\ moment \in DOMAIN recorded =>
       shield.amount = Total([i \in DOMAIN episodes |->
                                IF ActiveAt(episodes[i], moment) THEN Remaining(episodes[i]) ELSE 0])
=============================================================================
