------------------------------ MODULE MCParty -------------------------------
(***************************************************************************)
(* Small instances of the parts around a session: PartyAuthority, Hosting, *)
(* Surge, OwnerCreations, Identity and Soak. They share no state, so a     *)
(* behaviour takes the steps of one of them.                               *)
(***************************************************************************)
EXTENDS PartyAuthority, Hosting, TLC

CONSTANTS Parts

VARIABLES part, buttons, holding, menu, link, charge, traveler, room, clock, holds,
          registry, saved, tabIds, client, requests, drawn, granted, written, half,
          files, tracked, process, reader, audit, stage, evidence, loadout, terrain,
          creationsServer, creationsPending, frames, clean, bound, casts

surgeVars == <<buttons, holding, menu, link, charge, traveler, room, clock, holds>>
identityVars == <<registry, saved, tabIds, client, requests, drawn, granted>>
soakVars == <<written, half, files, tracked, process, reader, audit, stage, evidence>>

creationsVars == <<loadout, terrain, creationsServer, creationsPending, frames, clean,
  bound, casts>>

Travelers == Permutations(Players)

Memory(k, e) == [kind |-> k, essence |-> e]
MCLoadouts ==
  {<<Memory("Starfall", "Echo"), Memory("Wisp", "Twin")>>,
   <<Memory("Starfall", "Twin"), Memory("Wisp", "Echo")>>,
   <<Memory("Blink", "Twin"), Memory("Nova", "Echo")>>}

Surges == INSTANCE Surge WITH
    Pads <- {"p"}, MaxEdges <- 1, MaxBacklog <- 3,
    ChargeMin <- 2, ChargeMax <- 2, ChargeCooldown <- 1, CurveSteps <- 2, Stamina <- 3,
    SurgeCost <- 2, Rooms <- TRUE, MaxHolds <- 1, MaxStreams <- 2, SurgeTicks <- 4

Profiles == INSTANCE Identity WITH
    Natives <- {"n"}, Tabs <- {"t1", "t2"},
    Ids <- {1}, Servers <- {"sa", "sb"}, Home <- "sa", MaxIdentities <- 2,
    MaxProfiles <- 2, MaxSecrets <- 3, Players <- {"t1"}, MaxRequests <- 1

Audits == INSTANCE Soak WITH
    SegmentRows <- 1, MaxRows <- 2, MaxIdle <- 1

Creations == INSTANCE OwnerCreations WITH
    Loadouts <- MCLoadouts,
    StarfallCapacity <- 3, MaxProjectiles <- 3, MaxWisps <- 3, MaxDelayed <- 1,
    BoltLife <- 4, WispLife <- 4, FireGap <- 1, EchoDelay <- 3, TwinDelay <- 2,
    Recovery <- 1, MaxCasts <- 2, MaxLead <- 1, server <- creationsServer,
    pending <- creationsPending

ASSUME /\ Surges!SurgeAssumption
       /\ Profiles!IdentityAssumption
       /\ Audits!SoakAssumption
       /\ Creations!CreationAssumption

\* The parts that a step of part p leaves alone.
OthersIdle(p) ==
  /\ UNCHANGED part
  /\ p # "party" => UNCHANGED vars
  /\ p # "hosting" => UNCHANGED hostingVars
  /\ p # "surge" => UNCHANGED surgeVars
  /\ p # "identity" => UNCHANGED identityVars
  /\ p # "soak" => UNCHANGED soakVars
  /\ p # "creations" => UNCHANGED creationsVars

PartsInit ==
  /\ part \in Parts
  /\ PartyInit
  /\ HostingInit
  /\ Surges!SurgeInit
  /\ Profiles!IdentityInit
  /\ Audits!SoakInit
  /\ Creations!CreationInit
  /\ part # "creations" => /\ loadout = <<Memory("Starfall", "Echo"), Memory("Wisp", "Twin")>>
                            /\ ~terrain.targets

PartsNext ==
  \/ part = "party" /\ PartyNext /\ OthersIdle("party")
  \/ part = "hosting" /\ HostingNext /\ OthersIdle("hosting")
  \/ part = "surge" /\ Surges!SurgeNext /\ OthersIdle("surge")
  \/ part = "identity" /\ Profiles!IdentityNext /\ OthersIdle("identity")
  \/ part = "soak" /\ Audits!SoakNext /\ OthersIdle("soak")
  \/ part = "creations" /\ Creations!CreationNext /\ OthersIdle("creations")

partsVars ==
  <<part, vars, hostingVars, surgeVars, identityVars, soakVars,
    creationsVars>>
PartsSpec == PartsInit /\ [][PartsNext]_partsVars

-----------------------------------------------------------------------------



=============================================================================
