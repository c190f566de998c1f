--------------------------- MODULE MCReplication ----------------------------
(***************************************************************************)
(* Small instances of the parts that publish the world to a client, and of *)
(* the reference models of the same contracts: ScopeReplication,           *)
(* GroupTopology, Scheduler, Baselines, GroupAssembly, ClientLink,         *)
(* Disclosure, ContractReplay, ContractScopes and ContractGraph. They      *)
(* share no state, so a behaviour takes the steps of one of them.          *)
(***************************************************************************)
EXTENDS ScopeReplication, GroupTopology, Scheduler, TLC

CONSTANTS i1, i2, Parts

VARIABLES part, baselinesWorld, published, server, reset, frozen, proofs, shown, client,
          waiting, groups, baselinesDown, baselinesUp, rejected, groupsEpoch,
          groupsServer, scopes, groupsPublished, clock, fences, assemblies, groupsBytes,
          groupsShown, begun, link, host, linkUp, linkDown, group, applied, told,
          mishaps, interestWorld, captured, ids, named, present, interestRetired, graph,
          sampled, welcomed, peers, interestChanges, revision, refused, authority,
          predictor, flying, registry, sender, receiver, posted, livesApplied, placed,
          cells, lists, memberships, dirty

baselinesVars == <<baselinesWorld, published, server, reset, frozen, proofs, shown,
  client, waiting, groups, baselinesDown, baselinesUp, rejected>>
groupsVars == <<groupsEpoch, groupsServer, scopes, groupsPublished, clock, fences,
  assemblies, groupsBytes, groupsShown, begun>>
linkVars == <<link, host, linkUp, linkDown, group, applied, told, mishaps>>
interestVars == <<interestWorld, captured, ids, named, present, interestRetired, graph,
  sampled, welcomed, peers, interestChanges, revision, refused>>
replayVars == <<authority, predictor, flying, registry>>
livesVars == <<sender, receiver, posted, livesApplied>>
cellsVars == <<placed, cells, lists, memberships, dirty>>

MCOneIndex == {i1}
MCTwoIndexes == {i1, i2}
Symmetry == Permutations(MCTwoIndexes)
MCSize(v) == 1 + (v % 2)
MCGroups == {"pair", "single"}

TopologyPub(g, r, s, t, m, o, life, scene) ==
  [group |-> g, revision |-> r, snapshot |-> s, tick |-> t,
   members |-> m, owner |-> o, connection |-> "c",
   life |-> [ownership |-> life], scene |-> scene]
At(S, n) == [i \in S |-> [scope |-> n]]
MCPublished ==
  {TopologyPub("a", 1, 1, 1, At({1}, 1), 1, 1, 1),
   TopologyPub("a", 1, 2, 2, At({1}, 1), 1, 1, 1),
   TopologyPub("b", 1, 1, 1, At({2}, 1), 2, 1, 1),
   TopologyPub("b", 1, 2, 1, At({2}, 2), 2, 1, 1),
   TopologyPub("a", 2, 3, 2, At({1, 2}, 1), 1, 1, 1),
   TopologyPub("c", 1, 3, 2, At({1, 2}, 1), 2, 1, 1),
   TopologyPub("c", 2, 4, 2, At({3}, 1), 3, 1, 1),
   TopologyPub("a", 3, 4, 3, At({1}, 2), 1, 2, 1),
   TopologyPub("b", 2, 4, 3, At({2, 3}, 2), 2, 1, 2)}

MCBytes == <<2, 2, 2>>
MCPeriod == <<1, 2, 1>>
MCMaximumAge == <<1, 2, 1>>
MCPriority == <<5, 0, 0>>
MCUneven == <<1, 2, 2>>

MCMembers(g) == IF g = "pair" THEN {"a", "b"} ELSE {"c"}
MCFirst(g) == IF g = "pair" THEN "a" ELSE "c"

\* Player 2 comes into reach of player 1, to the edge of the margin, and away.
MCHeroAt == [p \in 1..2 |-> IF p = 1 THEN {4, 8} ELSE {6, 7, 10}]

MCImpulse == [t \in 1..4 |-> IF t = 2 THEN 1 ELSE 0]
MCActorChoices ==
  [position : {0, 5}, route : {"spatial"}, cull : {1, 3}, owner : {1}, dependencies : {{}}]
  \cup [position : {0}, route : {"none", "global", "owner"}, cull : {0}, owner : {1, 2},
        dependencies : {{}, {"a1"}}]
MCViews ==
  {[connection |-> 1, observers |-> {9}, forbidden |-> {}, grants |-> {}, roots |-> {}],
   [connection |-> 2, observers |-> {4, 7}, forbidden |-> {"a2"}, grants |-> {"a1"}, roots |-> {}],
   [connection |-> 1, observers |-> {1}, forbidden |-> {}, grants |-> {}, roots |-> {"a2"}]}

Owners == INSTANCE Baselines WITH
    Slots <- 3, Proofs <- 3, MaxSnapshot <- 6,
    MaxGeneration <- 3, MaxRepairs <- 2, world <- baselinesWorld, down <- baselinesDown,
    up <- baselinesUp

Publications == INSTANCE GroupAssembly WITH
    Groups <- MCGroups,
    Members <- MCMembers, First <- MCFirst, Incomplete <- 1, StagingBytes <- 7,
    MaxAge <- 1, MaxChanges <- 2, MaxPublications <- 3, MaxTime <- 1,
    epoch <- groupsEpoch, server <- groupsServer, published <- groupsPublished,
    bytes <- groupsBytes, shown <- groupsShown

Link == INSTANCE ClientLink WITH
    FinalizedWindow <- 1, RecoveryLimit <- 1,
    MaxChoices <- 2, MaxFaults <- 1, MaxJoins <- 2, up <- linkUp, down <- linkDown

Interest == INSTANCE Disclosure WITH
    CellSize <- 2, LeaveMargin <- 1, Prefetch <- 1,
    CullRadius <- 1, Extent <- 14, Connections <- {1, 2}, Players <- {1, 2},
    HeroAt <- MCHeroAt, ShotAt <- {5}, CoverAt <- 5, PlatformAt <- 4, EffectAt <- 9,
    EffectRadius <- 1, CombatRefresh <- 2, MaxShots <- 1, MaxIdentities <- 12,
    Shooters <- {2}, MaxChanges <- 2, MaxRevision <- 3, world <- interestWorld,
    retired <- interestRetired, changes <- interestChanges

Replay == INSTANCE ContractReplay WITH
    Impulse <- MCImpulse, Ammo <- 1,
    Cooldown <- 1, TopSpeed <- 2, FutureWindow <- 2, HeldGrace <- 1, AuditWindow <- 2,
    HistoryCapacity <- 2, ReplayCap <- 1, Spawns <- {"k1", "k2"},
    Bindings <- {"e1", "e2"}, MaxTick <- 4

Lives == INSTANCE ContractScopes WITH
    ScopeKeys <- {"k"}, MaxIdentities <- 1,
    MaxInflightVersions <- 1, MaxVersion <- 2, MaxScopeEpoch <- 2, MaxEpoch <- 2,
    MaxPosted <- 3,
    applied <- livesApplied

Cells == INSTANCE ContractGraph WITH
    ActorKeys <- {"a1", "a2", "a3"},
    ActorChoices <- MCActorChoices, Views <- MCViews, CellSize <- 3, LeaveMargin <- 1,
    MaxMemberships <- 8, MaxCells <- 5, MaxRequired <- 2

ASSUME /\ Owners!BaselinesAssumption
       /\ Publications!GroupsAssumption
       /\ Link!LinkAssumption
       /\ Interest!GraphAssumption
       /\ Interest!DisclosureAssumption
       /\ Replay!ContractAssumption
       /\ Lives!ContractScopesAssumption
       /\ Cells!ContractGraphAssumption

\* The parts that a step of part p leaves alone.
OthersIdle(p) ==
  /\ UNCHANGED part
  /\ p # "scopes" => UNCHANGED vars
  /\ p # "topology" => UNCHANGED topologyVars
  /\ p # "scheduler" => UNCHANGED schedulerVars
  /\ p # "baselines" => UNCHANGED baselinesVars
  /\ p # "groups" => UNCHANGED groupsVars
  /\ p # "link" => UNCHANGED linkVars
  /\ p # "interest" => UNCHANGED interestVars
  /\ p # "replay" => UNCHANGED replayVars
  /\ p # "lives" => UNCHANGED livesVars
  /\ p # "cells" => UNCHANGED cellsVars

PartsInit ==
  /\ part \in Parts
  /\ Init
  /\ TopologyInit
  /\ SchedulerInit
  /\ Owners!Init
  /\ Publications!Init
  /\ Link!LinkInit
  /\ Interest!DisclosureInit
  /\ Replay!ContractInit
  /\ Lives!ScopesInit
  /\ Cells!GraphInit

PartsNext ==
  \/ part = "scopes" /\ Next /\ OthersIdle("scopes")
  \/ part = "topology" /\ TopologyNext /\ OthersIdle("topology")
  \/ part = "scheduler" /\ SchedulerNext /\ OthersIdle("scheduler")
  \/ part = "baselines" /\ Owners!Next /\ OthersIdle("baselines")
  \/ part = "groups" /\ Publications!Next /\ OthersIdle("groups")
  \/ part = "link" /\ Link!LinkNext /\ OthersIdle("link")
  \/ part = "interest" /\ Interest!DisclosureNext /\ OthersIdle("interest")
  \/ part = "replay" /\ Replay!ContractNext /\ OthersIdle("replay")
  \/ part = "lives" /\ Lives!ScopesNext /\ OthersIdle("lives")
  \/ part = "cells" /\ Cells!GraphNext /\ OthersIdle("cells")

partsVars ==
  <<part, vars, topologyVars, schedulerVars, baselinesVars, groupsVars, linkVars,
     interestVars, replayVars, livesVars, cellsVars>>
PartsSpec == PartsInit /\ [][PartsNext]_partsVars

\* Retransmission, the reliable lanes and the publisher go on (the fairness of
\* ScopeReplication, Baselines and Scheduler); datagrams may be lost.  Every
\* publication changes the parity.
LossyNext == PartsNext \/ (part = "scopes" /\ Lose /\ OthersIdle("scopes"))
FairReplication ==
  /\ PartsInit /\ [][LossyNext]_partsVars
  /\ \A i \in Indexes :
       /\ WF_vars(part = "scopes" /\ TransmitStep(i))
       /\ WF_vars(part = "scopes" /\ SendFence(i))
       /\ SF_vars(part = "scopes" /\ Current(i) \in states /\ ReceiveState(Current(i)))
       /\ SF_vars(part = "scopes" /\ Current(i) \in receipts /\ ReceiveReceipt(Current(i)))
  /\ WF_vars(part = "scopes" /\ (ReceiveFence \/ ReceiveReset))
  /\ WF_vars(part = "scopes" /\ ReceiveAck)
  /\ WF_parity(part = "scheduler" /\ parity' = 1 - parity)
  /\ WF_baselinesVars(part = "baselines" /\ Owners!Transmit)
  /\ WF_baselinesVars(part = "baselines" /\ Owners!Defer)
  /\ WF_baselinesVars(part = "baselines" /\ Owners!ServerReceive)
  /\ WF_baselinesVars(part = "baselines" /\ Owners!ClientReceive)
  /\ WF_baselinesVars(part = "baselines" /\ \E p \in groups : Owners!ClientReceiveGroup(p))

\* Frames, ticks, deliveries and publications go on (the fairness of
\* GroupAssembly and ClientLink).
FairPublication ==
  /\ PartsSpec
  /\ \A g \in MCGroups, i \in 1..2 :
       SF_groupsVars(part = "groups" /\ Publications!DeliverNewest(g, i))
  /\ WF_groupsVars(part = "groups" /\ Publications!Reset)
  /\ WF_linkVars(part = "link" /\ Link!PollNetwork(Len(linkDown), group # Link!NoGroup, TRUE, FALSE))
  /\ WF_linkVars(part = "link" /\ Len(linkUp) > 0 /\ Link!Receive(Len(linkUp)))
  /\ WF_linkVars(part = "link" /\ Link!HostTick)
  /\ WF_linkVars(part = "link" /\ Link!PublishStates(FALSE))

-----------------------------------------------------------------------------
\* Deltas are always against a base that both ends have (Baselines).
BasesAgree == part = "baselines" => Owners!BasesAgree


\* The staging area keeps its budgets of bytes and time (GroupAssembly).
StagingBounded == part = "groups" => Publications!StagingBounded

\* What the client shows of a group changes as a whole and only forward
\* (GroupAssembly).
ShownWhole == Publications!ShownWhole

\* Every group settles (GroupAssembly).
Settles == Publications!Settles

\* The choices of a player take effect once and in order (ClientLink).
ChoicesExact == part = "link" => Link!ChoicesExact

\* A client that recovers or waits for a choice does so for a while (ClientLink).
LinkSettles == Link!LinkSettles

\* Peers are told what they may know, from exact lists, under lasting ids
\* (Disclosure).
DisclosureSound == part = "interest" => Interest!DisclosureSound

=============================================================================
