---------------------------- MODULE MCPrediction ----------------------------
(***************************************************************************)
(* Small instances of the parts that predict and present on the client:    *)
(* PredictedSession and RemotePoses. They share no state, so a behaviour   *)
(* takes the steps of one of them.                                         *)
(***************************************************************************)
EXTENDS PredictedSession, TLC

CONSTANT Parts

VARIABLES part, now, actors, pausedAt, sent, controls, replicas, entities, global,
          tracks, cohort, clock, pauses, unanswered

posesVars == <<now, actors, pausedAt, sent, controls, replicas, entities, global,
  tracks, cohort, clock, pauses, unanswered>>
Poses == INSTANCE RemotePoses WITH
    Indexes <- {1},
    Kinds <- {"cover", "platform", "marker"}, Places <- {0, 20}, Jump <- 8, Delay <- 1,
    ExtrapolationCap <- 1, SamplesPerEntity <- 2, HistoryTicks <- 3, PauseHistory <- 1,
    Crowded <- FALSE, MaxGeneration <- 2, MaxScope <- 3, MaxTick <- 3

ASSUME Poses!PosesAssumption

\* The parts that a step of part p leaves alone.
OthersIdle(p) ==
  /\ UNCHANGED part
  /\ p # "session" => UNCHANGED vars
  /\ p # "poses" => UNCHANGED posesVars

PartsInit ==
  /\ part \in Parts
  /\ Init
  /\ Poses!PosesInit

PartsNext ==
  \/ part = "session" /\ Next /\ OthersIdle("session")
  \/ part = "poses" /\ Poses!PosesNext /\ OthersIdle("poses")

partsVars ==
  <<part, vars, posesVars>>
PartsSpec == PartsInit /\ [][PartsNext]_partsVars

-----------------------------------------------------------------------------
\* Remote actors are shown where the server said they were (RemotePoses).
PosesFollow == part = "poses" => Poses!PosesFollow

\* No actor moves back in time on the screen (RemotePoses).
TimeNeverReverses == Poses!TimeNeverReverses
=============================================================================
