----------------------------- MODULE MCCommands -----------------------------
(***************************************************************************)
(* Small instances of the parts that decide about commands and actions:    *)
(* CommandInbox, ActionOutcomes, CombatStep, CombatViews, Defense and      *)
(* EventJournal (cues and visuals of two commands). They share no state,   *)
(* so a behaviour takes the steps of one of them.                          *)
(* AuditRecords = FutureTicks is the smallest audit that the inbox's       *)
(* constructor allows, so that eviction happens.                           *)
(***************************************************************************)
EXTENDS CommandInbox, TLC

CONSTANTS
  b1, neutral, NoValue,   \* model values
  Parts,                      \* the parts that a run takes
  MaxEpoch, MaxCommand, OutcomeMaxTick, MaxBundles, MaxResults, MaxOthers, MaxLane, Slots,
  BundleCommands, OutcomeFutureTicks, NormalRecords, OverloadRecords, WindowLimit,
  BatchRecords, LookupLimit, Retention, ExpireEvery    \* of ActionOutcomes

VARIABLES part, normal, overload, others, nextResult, tick, epoch, connected, starts,
          verdict, overloaded, bundles, window, lookups, lane, received, asked, client,
          conflict, executed, gameplay, lances, bodies, foes, outcome, beat, viewsEpoch,
          played, poses, timeline, viewsPrepared, archive, evidence, shot, truth,
          events, moment, shield, episodes, nextEpisode, recorded, granted, soaked, scope,
          journalNow, journalRetired, entries, bindings, rejected, visuals, plays

outcomesVars == <<normal, overload, others, nextResult, tick, epoch, connected, starts,
  verdict, overloaded, bundles, window, lookups, lane, received, asked, client,
  conflict, executed>>
combatVars == <<gameplay, lances, bodies, foes, outcome>>
viewsVars == <<beat, viewsEpoch, played, poses, timeline, viewsPrepared, archive,
  evidence, shot, truth, events>>
defenseVars == <<moment, shield, episodes, nextEpisode, recorded, granted, soaked>>
journalVars == <<scope, journalNow, journalRetired, entries, bindings, rejected, visuals,
  plays>>

MCBodies == {b1}

MCCommand(k) == IF k = "bolt" THEN 2 ELSE 1
MCOrigin(k) == IF k = "bolt" THEN 1 ELSE 0
MCExpires(k) == 2
MCDelivery(k) == CASE k = "cue" -> "OneShot" [] k = "spark" -> "Reversible" [] OTHER -> "SimulationOwned"

Outcomes == INSTANCE ActionOutcomes WITH
    MaxTick <- OutcomeMaxTick,
    FutureTicks <- OutcomeFutureTicks

Combat == INSTANCE CombatStep WITH
    Shooters <- {1, 2}, Channelers <- {1},
    Capacity <- 2, FireCooldown <- 1, DashTicks <- 1, DashCooldown <- 2,
    BeamDuration <- 2, BeamDamage <- 1, BeamAmmo <- 2, Rewind <- 1, HistoryFrames <- 2,
    MaxFoes <- 1, CombatTicks <- 3

Rewinds == INSTANCE CombatViews WITH
    Parts <- 2, SampleAge <- 2, FutureSample <- 1,
    ExecutionLead <- 2, PresentationAge <- 2, MaxRewind <- 2, ReferenceAdvance <- 2,
    ReferenceLimit <- 2, ClockLimit <- 3, PoseFrames <- 3, MaxBeat <- 5, MaxEvents <- 1,
    epoch <- viewsEpoch, prepared <- viewsPrepared

Shields == INSTANCE Defense WITH
    Grants <- {3}, ShieldCap <- 4, ShieldTicks <- 2,
    Damages <- {1, 3}, Late <- {0, 2}, CreditTicks <- 2, MaxEpisodes <- 3,
    MaxGrants <- 3, DefenseTicks <- 4

Journal == INSTANCE EventJournal WITH
    Keys <- {"cue", "spark", "bolt"},
    Command <- MCCommand, Origin <- MCOrigin, Expires <- MCExpires,
    Delivery <- MCDelivery, Indexes <- {"i"}, Payloads <- {"p", "q"}, None <- NoValue,
    Records <- 2, Fences <- 1, History <- 2, MaxTick <- 2, MaxGeneration <- 2,
    MaxScope <- 2, now <- journalNow, retired <- journalRetired

ASSUME /\ Outcomes!OutcomesAssumption
       /\ Combat!CombatAssumption
       /\ Rewinds!ViewsAssumption
       /\ Shields!DefenseAssumption
       /\ Journal!JournalAssumption

\* The parts that a step of part p leaves alone.
OthersIdle(p) ==
  /\ UNCHANGED part
  /\ p # "inbox" => UNCHANGED vars
  /\ p # "outcomes" => UNCHANGED outcomesVars
  /\ p # "combat" => UNCHANGED combatVars
  /\ p # "views" => UNCHANGED viewsVars
  /\ p # "defense" => UNCHANGED defenseVars
  /\ p # "journal" => UNCHANGED journalVars

PartsInit ==
  /\ part \in Parts
  /\ Init
  /\ Outcomes!Init
  /\ Combat!CombatInit
  /\ Rewinds!ViewsInit
  /\ Shields!DefenseInit
  /\ Journal!Init

PartsNext ==
  \/ part = "inbox" /\ Next /\ OthersIdle("inbox")
  \/ part = "outcomes" /\ Outcomes!Next /\ OthersIdle("outcomes")
  \/ part = "combat" /\ Combat!CombatNext /\ OthersIdle("combat")
  \/ part = "views" /\ Rewinds!ViewsNext /\ OthersIdle("views")
  \/ part = "defense" /\ Shields!DefenseNext /\ OthersIdle("defense")
  \/ part = "journal" /\ Journal!Next /\ OthersIdle("journal")

partsVars ==
  <<part, vars, outcomesVars, combatVars, viewsVars, defenseVars, journalVars>>
PartsSpec == PartsInit /\ [][PartsNext]_partsVars

\* The tick driver prepares and commits, the authority publishes outcomes and
\* the control lanes deliver.
FairParts ==
  /\ PartsSpec
  /\ WF_vars(part = "inbox" /\ PrepareNext) /\ WF_vars(part = "inbox" /\ Commit)
  /\ WF_outcomesVars(part = "outcomes" /\ Outcomes!Publish)
  /\ WF_outcomesVars(part = "outcomes" /\ Outcomes!ClientReceive)
  /\ WF_outcomesVars(part = "outcomes" /\ Outcomes!Acknowledge)

-----------------------------------------------------------------------------
\* What the client is told of an action is true (ActionOutcomes).
AnswersTrue == part = "outcomes" => Outcomes!AnswersTrue

\* A result that a ledger holds reaches the client (ActionOutcomes).
ResultsDelivered == Outcomes!ResultsDelivered

\* The outcome ledgers hold what the accepted actions need (ActionOutcomes).
LedgersExact == part = "outcomes" => Outcomes!LedgersExact

\* An action is accepted exactly when it takes effect (CombatStep).
VerdictMatchesEffect == Combat!VerdictMatchesEffect


\* What a consumer displays and plays is what the journal says (EventJournal).
JournalExact == part = "journal" => Journal!JournalExact

\* A decision about an event, and what follows from it, is final (EventJournal).
DecisionsFinal == Journal!DecisionsFinal
=============================================================================
