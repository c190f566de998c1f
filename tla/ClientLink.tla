----------------------------- MODULE ClientLink -----------------------------
(***************************************************************************)
(* The control conversation of one client with its server peer             *)
(* (games/dreamwake/client/src/plugins/network/mod.rs, session.rs; server  *)
(* authority.rs, authority/peer.rs, authority/publish.rs): Welcome and     *)
(* Ready, the proof of the owner group and its activation, menu choices    *)
(* and how the client learns that one was applied, faults and the one      *)
(* resynchronization each of them asks for, restarts, and the end of the   *)
(* transport.                                                              *)
(*                                                                         *)
(* Both directions of the control channel are reliable and ordered; the    *)
(* owner group travels on a channel of its own.  A step is a frame of the  *)
(* client (poll_network) with what arrived by then, a receive pass, a tick *)
(* or a publication of the server.  What the room in the client's channel  *)
(* and the clocks decide is a choice; a full channel of the server ends    *)
(* the peer.  A client keeps the last 32 decoded groups until Active names *)
(* one of them; the groups after the one that proves the activation are    *)
(* left out, and with them an Active that arrives later than those 32.     *)
(* The rule of one resynchronization per second is left out: a session     *)
(* asks at most once and its successor starts without a last one.          *)
(* Commands, outcomes, scopes and baselines are modelled elsewhere.        *)
(***************************************************************************)
EXTENDS Integers, Sequences, FiniteSets, TLC

CONSTANTS
  FinalizedWindow,  \* FINALIZED_CONTROL_WINDOW: unacknowledged batches
  RecoveryLimit,    \* resynchronizations the server grants
  MaxChoices,       \* bound on the menu choices the player makes
  MaxFaults,        \* bound on what goes wrong
  MaxJoins          \* bound on transport sessions

LinkAssumption ==
  /\ {FinalizedWindow, MaxChoices, MaxJoins} \subseteq Nat \ {0}
  /\ {RecoveryLimit, MaxFaults} \subseteq Nat

VARIABLES
  link,     \* the client's Runtime and Session
  host,     \* the server's Peer
  up, down, \* the two directions of the control channel
  group,    \* the owner group on its way
  applied,  \* the menu choices the server has applied, in order
  told,     \* those the client has been told of
  mishaps   \* faults, joins and choices so far

linkVars == <<link, host, up, down, group, applied, told, mishaps>>

Off == [on |-> FALSE, epoch |-> 0, active |-> FALSE, recovering |-> FALSE, request |-> "idle",
        decoded |-> FALSE, proof |-> FALSE, action |-> 0, inflight |-> 0, ack |-> 0]
Joining == [Off EXCEPT !.on = TRUE]

\* Peer::new.
NewHost(epoch, attempts, committed) ==
  [live |-> TRUE, epoch |-> epoch, welcome |-> TRUE, ready |-> FALSE, active |-> FALSE, frozen |-> "none",
   activate |-> FALSE, committed |-> committed, received |-> 0, done |-> 0, menus |-> <<>>,
   batches |-> 0, news |-> FALSE, attempts |-> attempts, failed |-> FALSE]
NoHost(epoch) == [NewHost(epoch, 0, FALSE) EXCEPT !.live = FALSE, !.welcome = FALSE]

NoGroup == [epoch |-> 0, active |-> FALSE]

LinkInit ==
  /\ link = Joining /\ host = NewHost(1, 0, FALSE)
  /\ up = <<>> /\ down = <<>> /\ group = NoGroup
  /\ applied = <<>> /\ told = {}
  /\ mishaps = [faults |-> 0, joins |-> 1, choices |-> 0]

Msg(kind, epoch, value) == [kind |-> kind, epoch |-> epoch, value |-> value]

-----------------------------------------------------------------------------
(* The client.  A handler gives the client after it and what it sends, in   *)
(* the field out.                                                           *)

Say(c, kind, value) == [c EXCEPT !.out = Append(@, Msg(kind, c.epoch, value))]

\* receive_message for a Welcome: an older one, or one seen before, is ignored.
Welcomed(c, epoch) ==
  IF c.epoch # 0 /\ epoch <= c.epoch THEN c
  ELSE Say([c EXCEPT !.epoch = epoch, !.active = FALSE, !.recovering = FALSE, !.request = "idle",
                     !.decoded = FALSE, !.proof = FALSE, !.action = 0, !.inflight = 0,
                     !.ack = 0], "Ready", 0)

\* Finalized: through is menu_applied, 0 for None.
FinalizedBy(c, through) ==
  LET freed == c.inflight # 0 /\ c.inflight <= through
  IN [c EXCEPT !.inflight = IF freed THEN 0 ELSE @, !.ack = @ + 1,
               !.heard = IF freed THEN @ \cup {<<c.epoch, c.inflight>>} ELSE @]

\* receive_message for a control message; one of another epoch is refused.
Controlled(c, m) ==
  CASE m.kind = "Welcome" -> Welcomed(c, m.epoch)
    [] m.epoch # c.epoch \/ c.epoch = 0 -> c
    [] m.kind = "Active" -> [c EXCEPT !.proof = TRUE]
    [] m.kind = "Finalized" -> FinalizedBy(c, m.value)

\* receive_state for the owner group: the proof is sent at once.
Decode(c, g) ==
  IF g.epoch # c.epoch \/ c.epoch = 0 THEN c
  ELSE Say([c EXCEPT !.decoded = @ \/ g.active], "OwnerDecoded", 0)

\* A request that could not be queued is forgotten.
MutantServed(c, room) ==
  IF c.request # "pending" THEN c
  ELSE IF room THEN Say([c EXCEPT !.request = "awaiting"], "Resync", 0)
  ELSE [c EXCEPT !.request = "awaiting"]

\* service_pending_resync: without room for the request it stays pending.
Served(c, room) ==
  IF c.request # "pending" \/ ~room THEN c
  ELSE Say([c EXCEPT !.request = "awaiting"], "Resync", 0)

\* Session::recover, from request_resync.
Recovering(c) ==
  IF c.epoch = 0 THEN c
  ELSE [c EXCEPT !.active = FALSE, !.recovering = TRUE,
                 !.request = IF @ = "idle" THEN "pending" ELSE @]

\* The finalized acknowledgement, and the end of reconcile.
Acked(c) == IF c.ack > 0 THEN [Say(c, "FinalizedAck", c.ack) EXCEPT !.ack = 0] ELSE c
Activated(c) == IF c.proof /\ c.decoded /\ ~c.recovering THEN [c EXCEPT !.active = TRUE] ELSE c

\* poll_network with the first n control messages, with or without the group,
\* with or without room for a request, with or without a fault (a failed
\* reconciliation or an expired group).
Polled(n, arrives, room, fault) ==
  LET heard[i \in 0..n] == IF i = 0 THEN link @@ [out |-> <<>>, heard |-> told]
                           ELSE Controlled(heard[i - 1], down[i])
      state  == IF arrives THEN Decode(heard[n], group) ELSE heard[n]
      polled == Activated(Acked(Served(state, room)))
  IN IF fault THEN Served(Recovering(polled), room) ELSE polled

PollNetwork(n, arrives, room, fault) ==
  /\ link.on /\ n \in 0..Len(down)
  /\ arrives => group # NoGroup
  /\ fault => mishaps.faults < MaxFaults /\ link.epoch # 0
  /\ \E after \in {Polled(n, arrives, room, fault)} :
       /\ link' = [f \in DOMAIN link |-> after[f]]
       /\ up' = up \o after.out
       /\ told' = after.heard
  /\ down' = SubSeq(down, n + 1, Len(down))
  /\ group' = IF arrives THEN NoGroup ELSE group
  /\ mishaps' = IF fault THEN [mishaps EXCEPT !.faults = @ + 1] ELSE mishaps
  /\ UNCHANGED <<host, applied>>

\* A choice is sent although the one before it is still open.
MutantMayChoose(choice) == link.on /\ link.active

\* send_action: one choice at a time, except for a pause.
MayChoose(choice) == link.on /\ link.active /\ (link.inflight = 0 \/ choice = "pause")

SendAction(choice) ==
  /\ MayChoose(choice) /\ mishaps.choices < MaxChoices
  /\ mishaps' = [mishaps EXCEPT !.choices = @ + 1]
  /\ LET sequence == link.action + 1
     IN /\ up' = Append(up, Msg(choice, link.epoch, sequence))
        /\ link' = [link EXCEPT !.action = sequence, !.inflight = sequence]
  /\ UNCHANGED <<host, down, group, applied, told>>

-----------------------------------------------------------------------------
(* The server.                                                              *)

MenuKinds == {"choose", "pause", "restart"}

\* resync: a failed peer is disconnected.
Resynced(h) ==
  IF h.attempts >= RecoveryLimit THEN [h EXCEPT !.failed = TRUE]
  ELSE NewHost(h.epoch + 1, h.attempts + 1, h.committed)

\* receive_control; a message of another epoch is dropped.
Heard(h, m) ==
  CASE h.failed \/ m.epoch # h.epoch -> h
    [] m.kind = "Ready" -> [h EXCEPT !.ready = TRUE]
    [] m.kind = "OwnerDecoded" /\ h.frozen = "active" -> [h EXCEPT !.frozen = "none", !.active = TRUE]
    [] m.kind = "OwnerDecoded" /\ h.frozen = "inactive" -> [h EXCEPT !.frozen = "none", !.activate = TRUE]
    [] m.kind = "FinalizedAck" -> [h EXCEPT !.batches = @ - m.value]
    [] m.kind = "Resync" -> Resynced(h)
    [] m.kind \in MenuKinds /\ h.active /\ m.value > h.received ->
         [h EXCEPT !.received = m.value, !.menus = Append(@, [kind |-> m.kind, sequence |-> m.value])]
    [] OTHER -> h

HeardAll(n) ==
  LET after[i \in 0..n] == IF i = 0 THEN host ELSE Heard(after[i - 1], up[i]) IN after[n]

\* welcome.
Introduced(h) == [h EXCEPT !.welcome = FALSE]
Introduction(h) == IF h.welcome THEN <<Msg("Welcome", h.epoch, 0)>> ELSE <<>>

\* The transport ends: both sides forget it (finish_disconnection, disconnect).
Ended == link' = Off /\ host' = NoHost(host.epoch) /\ up' = <<>> /\ down' = <<>> /\ group' = NoGroup

\* receive: the first n messages, the Active that a proof earns, a Welcome that
\* is due; a failed peer is disconnected at the end of the pass.
Receive(n) ==
  /\ host.live /\ n \in 1..Len(up)
  /\ \E h \in {HeardAll(n)} :
        IF h.failed THEN Ended
        ELSE /\ host' = Introduced(h)
             /\ down' = down
                  \o (IF h.epoch = host.epoch /\ h.active /\ ~host.active
                      THEN <<Msg("Active", h.epoch, 0)>> ELSE <<>>)
                  \o Introduction(h)
             /\ up' = SubSeq(up, n + 1, Len(up))
             /\ UNCHANGED <<link, group>>
  /\ UNCHANGED <<applied, told, mishaps>>

\* step_committed: an earned activation, then the oldest choice.  A restart
\* replaces every stream and drops the choices that wait on the old ones.
HostTick ==
  LET h == IF host.activate THEN [host EXCEPT !.activate = FALSE, !.committed = TRUE] ELSE host
      menu == Head(h.menus)
  IN /\ host.live
     /\ IF h.menus = <<>>
        THEN host' = [h EXCEPT !.news = TRUE] /\ UNCHANGED applied
        ELSE /\ applied' = Append(applied, <<h.epoch, menu.sequence>>)
             /\ host' = IF menu.kind = "restart" THEN NewHost(h.epoch + 1, 0, FALSE)
                        ELSE [h EXCEPT !.menus = Tail(@), !.done = menu.sequence, !.news = TRUE]
     /\ UNCHANGED <<link, up, down, group, told, mishaps>>

\* finalized: what was committed since, unless the window is full.
Batched(h) == h.news /\ h.batches < FinalizedWindow
Batch(h) == IF Batched(h) THEN <<Msg("Finalized", h.epoch, h.done)>> ELSE <<>>

\* prepare_group of a peer that is ready and has still to prove a group.
Froze(h) == IF h.committed THEN "active" ELSE "inactive"
Proving(h) == h.ready /\ ~h.active /\ h.frozen = "none" /\ ~h.activate

\* states, with the proof of a group expired or not.  The stream of a peer that
\* was never activated, or whose baseline reset expired, is replaced; otherwise
\* an expired group ends the peer.
PublishStates(expired) ==
  /\ host.live
  /\ expired => mishaps.faults < MaxFaults /\ (host.active \/ host.frozen # "none")
  /\ mishaps' = IF expired THEN [mishaps EXCEPT !.faults = @ + 1] ELSE mishaps
  /\ LET h == IF ~expired THEN host
              ELSE IF host.active \/ ~host.committed THEN Resynced(host)
              ELSE [host EXCEPT !.failed = TRUE]
         proving == Proving(h) /\ group = NoGroup
     IN IF h.failed THEN Ended
        ELSE /\ host' = [Introduced(h) EXCEPT
                           !.batches = IF Batched(h) THEN @ + 1 ELSE @,
                           !.news = @ /\ ~Batched(h),
                           !.frozen = IF proving THEN Froze(h) ELSE @]
             /\ down' = down \o Introduction(h) \o Batch(h)
             /\ group' = IF proving THEN [epoch |-> h.epoch, active |-> h.committed] ELSE group
             /\ UNCHANGED <<link, up>>
  /\ UNCHANGED <<applied, told>>

\* The transport fails, a player leaves, or nothing arrives for twelve seconds.
Disconnect ==
  /\ host.live /\ mishaps.faults < MaxFaults
  /\ mishaps' = [mishaps EXCEPT !.faults = @ + 1]
  /\ Ended /\ UNCHANGED <<applied, told>>

\* connect, in a later transport session: the epochs of a player go on.
Join ==
  /\ ~link.on /\ mishaps.joins < MaxJoins
  /\ host' = NewHost(host.epoch + 1, 0, FALSE)
  /\ link' = Joining
  /\ mishaps' = [mishaps EXCEPT !.joins = @ + 1]
  /\ UNCHANGED <<up, down, group, applied, told>>

LinkNext ==
  \/ \E n \in 0..Len(down), arrives, room, fault \in BOOLEAN : PollNetwork(n, arrives, room, fault)
  \/ \E choice \in MenuKinds : SendAction(choice)
  \/ \E n \in 1..Len(up) : Receive(n)
  \/ HostTick
  \/ \E expired \in BOOLEAN : PublishStates(expired)
  \/ Disconnect \/ Join

\* Frames, receive passes, ticks and publications go on for ever; a channel does
\* not stay full and a message is not delayed for ever.
LinkFairness ==
  /\ WF_linkVars(PollNetwork(Len(down), group # NoGroup, TRUE, FALSE))
  /\ WF_linkVars(Len(up) > 0 /\ Receive(Len(up)))
  /\ WF_linkVars(HostTick)
  /\ WF_linkVars(PublishStates(FALSE))

LinkSpec == LinkInit /\ [][LinkNext]_linkVars /\ LinkFairness

-----------------------------------------------------------------------------
\* The choices of a player take effect once, in the order they were made, each
\* in the stream it was made in; what the client takes for applied was applied;
\* and of the choices other than a pause at most one is on its way, so that
\* each is made with the effect of the one before it in sight.  (send_action,
\* queue_menu, step_committed, Finalized)
ChoicesExact ==
  /\ \A i, j \in DOMAIN applied : i < j =>
       \/ applied[i][1] < applied[j][1]
       \/ applied[i][1] = applied[j][1] /\ applied[i][2] < applied[j][2]
  /\ told \subseteq {applied[i] : i \in DOMAIN applied}
  /\ Cardinality({i \in DOMAIN up : up[i].epoch = host.epoch /\ up[i].kind \in MenuKinds \ {"pause"}})
     + Cardinality({i \in DOMAIN host.menus : host.menus[i].kind # "pause"}) <= 1

\* A client that recovers or waits for a choice does so for a while: it gets a
\* fresh stream, or the answer, or the connection ends.  (service_pending_resync,
\* Finalized, Welcome)
LinkSettles == []<>(~link.recovering /\ link.inflight = 0)
=============================================================================
