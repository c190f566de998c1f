----------------------------- MODULE PartyAuthority -----------------------------
(***************************************************************************)
(* The server's side of taking part in a run (games/dreamwake/server/src/  *)
(* authority.rs, authority/ownership.rs, authority/publish.rs,             *)
(* authority/peer.rs): connections come and go, prove that they hold the   *)
(* owner group, take part, lose their stream and get another, hand their   *)
(* Traveler to a second device, and send menu choices that one tick later  *)
(* change the run.                                                         *)
(*                                                                         *)
(* An action is one message or one callback of the driver, or a tick, or a *)
(* publication.  The owner group's delivery is modelled elsewhere          *)
(* (GroupAssembly, Baselines): here a frozen group is sent and its proof   *)
(* either arrives or does not.  A message of an older stream is dropped by *)
(* its epoch and changes nothing.  Time enters as a choice: a deadline has *)
(* passed or has not.                                                      *)
(*                                                                         *)
(* Left out: commands and outcomes (CommandInbox, ActionOutcomes), loadout *)
(* menus (Swap, BuyMemoryUpgrade), notices, and the content check of       *)
(* Ready.                                                                  *)
(***************************************************************************)
EXTENDS DreamRun, Sequences, FiniteSetsExt, SequencesExt

CONSTANTS
  MaxIds,        \* bound on concurrent transport connections
  MaxOwnership,  \* bound on the ownership epochs of all players together
  ResyncLimit,   \* recoveries within the sliding window
  Handoffs,      \* how far ahead a handoff may be authorized, in ticks
  Menus          \* the menu choices the players make

VARIABLES
  sim,         \* the simulation, a DreamRun world
  peers,       \* connection id -> peer
  ownership,   \* player -> last ownership epoch, 0 if it never took part
  arriving,    \* pending_admissions
  failed,      \* peers to disconnect
  handoffs     \* player -> pending handoff

Ids == 1..MaxIds

vars == <<sim, peers, ownership, arriving, failed, handoffs>>

NoPlayer == "none"
NoPeer   == [player |-> NoPlayer, own |-> 0, ready |-> FALSE, frozen |-> "none",
             activate |-> FALSE, committed |-> FALSE, active |-> FALSE, attempts |-> 0]
NoHandoff == [previous |-> 0, own |-> 0, after |-> 0, id |-> 0, next |-> 0]

\* The handlers call one another, so each is a function of the whole state.
Now == [sim |-> sim, peers |-> peers, ownership |-> ownership, arriving |-> arriving,
        failed |-> failed, handoffs |-> handoffs]
Become(s) ==
  /\ sim' = s.sim /\ peers' = s.peers /\ ownership' = s.ownership
  /\ arriving' = s.arriving /\ failed' = s.failed /\ handoffs' = s.handoffs

PartyInit ==
  /\ sim = NewRun
  /\ peers = [i \in Ids |-> NoPeer]
  /\ ownership = [p \in Players |-> 0]
  /\ arriving = {} /\ failed = {}
  /\ handoffs = [p \in Players |-> NoHandoff]

LiveIn(s)     == {i \in Ids : s.peers[i] # NoPeer}
PlayersIn(s)  == {s.peers[i].player : i \in LiveIn(s)}
StagedIds(s)  == {s.handoffs[p].id : p \in Players} \ {0}
InOrder       == [i \in Ids |-> i]

\* The iteration over a map keyed by connection ids.
FoldIds(Op(_, _), s, ids) == FoldLeft(Op, s, SelectSeq(InOrder, LAMBDA i : i \in ids))

\* make_peer: a new stream under the next ownership epoch.
WithPeer(s, i, p) ==
  [s EXCEPT !.peers[i] = [NoPeer EXCEPT !.player = p, !.own = s.ownership[p] + 1],
            !.ownership[p] = @ + 1]

\* The bound on ownership epochs.
CanOwn(s) == FoldFunction(+, 0, s.ownership) < MaxOwnership

\* The transport's ids are unique among its connections.  The smallest free one
\* stands for all; handoffs make the younger stream the smaller id as well.
IsFresh(i) ==
  LET free == Ids \ (LiveIn(Now) \cup StagedIds(Now) \cup failed)
  IN i \in free /\ \A j \in free : i <= j

-----------------------------------------------------------------------------
(* Handoffs.                                                                *)

\* cancel_handoffs_for: a staged replacement other than i itself fails.
CancelHandoffsFor(s, i) ==
  LET hit == {p \in Players : i \in {s.handoffs[p].previous, s.handoffs[p].id}}
  IN [s EXCEPT !.handoffs = [p \in Players |-> IF p \in hit THEN NoHandoff ELSE @[p]],
               !.failed = @ \cup ({s.handoffs[p].id : p \in hit} \ {0, i})]

CancelAllHandoffs(s) ==
  [s EXCEPT !.handoffs = [p \in Players |-> NoHandoff], !.failed = @ \cup StagedIds(s)]

\* disconnect: the hero stops taking part.
DisconnectPeer(s, i) ==
  LET t == CancelHandoffsFor(s, i)
      left == [t EXCEPT !.peers[i] = NoPeer, !.arriving = @ \ {i}, !.failed = @ \ {i},
                        !.sim = IF s.peers[i] = NoPeer THEN @
                                ELSE SetPlayerActivity(@, s.peers[i].player, FALSE)]
  IN [left EXCEPT !.sim.paused = @ /\ LiveIn(left) # {}]

\* disconnect_failed takes the set first: what fails meanwhile waits.
DropFailed(s) == FoldIds(DisconnectPeer, [s EXCEPT !.failed = {}], s.failed)

\* The stream the handoff was authorized for is still the player's.
Unchanged(s, h) == s.peers[h.previous].own = h.own /\ s.peers[h.previous] # NoPeer


\* apply_handoffs for one due handoff: the old stream ends as the new one starts.
ApplyHandoff(s, p, late) ==
  LET h == s.handoffs[p]
      t == [s EXCEPT !.handoffs[p] = NoHandoff]
      u == DisconnectPeer(t, h.previous)
  IN CASE h.id = 0 -> t
       [] h.id # 0 /\ (late \/ ~Unchanged(s, h)) -> [t EXCEPT !.failed = @ \cup {h.id}]
       [] h.id # 0 /\ ~late /\ Unchanged(s, h) ->
            [u EXCEPT !.failed = @ \cup {h.previous},
                      !.peers[h.id] = [NoPeer EXCEPT !.player = p, !.own = h.next]]

AuthorizeHandoff(i) ==
  /\ peers[i].active /\ handoffs[peers[i].player] = NoHandoff
  /\ \E after \in 1..Handoffs :
       handoffs' = [handoffs EXCEPT ![peers[i].player] =
                      [NoHandoff EXCEPT !.previous = i, !.own = peers[i].own, !.after = after]]
  /\ UNCHANGED <<sim, peers, ownership, arriving, failed>>

\* admit_authenticated for a Traveler who is connected elsewhere: stage_handoff.
StageHandoff(i, p) ==
  /\ IsFresh(i)
  /\ handoffs[p] # NoHandoff /\ handoffs[p].id = 0
  /\ Unchanged(Now, handoffs[p]) /\ CanOwn(Now)
  /\ handoffs' = [handoffs EXCEPT ![p].id = i, ![p].next = ownership[p] + 1]
  /\ ownership' = [ownership EXCEPT ![p] = @ + 1]
  /\ UNCHANGED <<sim, peers, arriving, failed>>

-----------------------------------------------------------------------------
(* Connections and streams.  Whatever a message makes fail is disconnected   *)
(* when receive ends.                                                        *)

\* admit_authenticated, admit_player.
Admit(i, p) ==
  /\ IsFresh(i)
  /\ p \notin PlayersIn(Now) /\ CanOwn(Now)
  /\ Become([WithPeer(Now, i, p) EXCEPT !.arriving = @ \cup {i}])

\* The transport reports a lost connection, live or staged.
Disconnect(i) ==
  /\ i \in LiveIn(Now) \cup StagedIds(Now)
  /\ Become(DisconnectPeer(Now, i))

\* receive_control: Ready.
ReceiveReady(i) ==
  /\ i \in LiveIn(Now) /\ ~peers[i].ready
  /\ peers' = [peers EXCEPT ![i].ready = TRUE]
  /\ UNCHANGED <<sim, ownership, arriving, failed, handoffs>>

\* receive_control: OwnerDecoded that completes the frozen group.  A group from
\* before the hero took part asks for participation; one from after it proves it.
ReceiveDecoded(i) ==
  /\ peers[i].frozen # "none"
  /\ peers' = [peers EXCEPT ![i].frozen = "none",
                            ![i].activate = @ \/ peers[i].frozen = "inactive",
                            ![i].active = @ \/ peers[i].frozen = "active"]
  /\ UNCHANGED <<sim, ownership, arriving, failed, handoffs>>

\* resync, for kept recoveries within the window.
Resynced(s, i, kept) ==
  LET t == CancelHandoffsFor(s, i)
      p == s.peers[i].player
      u == WithPeer(t, i, p)
  IN IF kept >= ResyncLimit THEN [t EXCEPT !.failed = @ \cup {i}]
     ELSE [u EXCEPT !.peers[i].attempts = kept + 1,
                    !.peers[i].committed = s.sim.hero[p].active]

\* receive_control: Resync.
ReceiveResync(i) ==
  /\ i \in LiveIn(Now)
  /\ \E kept \in 0..peers[i].attempts :
       /\ kept < ResyncLimit => CanOwn(Now)
       /\ Become(DropFailed(Resynced(Now, i, kept)))

-----------------------------------------------------------------------------
(* A tick.                                                                  *)

\* restart, after its bookkeeping: absent Travelers are pruned, everyone else
\* starts over with a new stream and has to prove the new group.
Restart(s) ==
  LET t == CancelAllHandoffs(s)
      here == PlayersIn(s)
      gone == {p \in Players : s.ownership[p] > 0 /\ p \notin here}
      pruned == FoldSet(LAMBDA p, w : RemovePlayer(w, p), t.sim, gone)
      out == FoldSet(LAMBDA p, w : SetPlayerActivity(w, p, FALSE), RestartParty(pruned), here)
  IN FoldIds(LAMBDA u, i : WithPeer(u, i, s.peers[i].player),
             [t EXCEPT !.sim = out,
                       !.ownership = [p \in Players |-> IF p \in here THEN @[p] ELSE 0]],
             LiveIn(s))

\* begin_run asks for everyone who is connected.
BeginRun(s) ==
  IF s.sim.phase # "Intro" THEN s
  ELSE FoldIds(LAMBDA t, i : [t EXCEPT !.sim = ContinueRun(@, t.peers[i].player)], s, LiveIn(s))

\* menu.  Start asks for the other difficulty when it is "StartOther".
Menu(s, i, m, overloaded) ==
  LET p == s.peers[i].player
      over == s.sim.phase \in {"Victory", "Defeat"}
      alone == LiveIn(s) = {i}
      starts == m \in {"Start", "StartOther"}
  IN CASE overloaded /\ (starts \/ m = "Restart" \/ (m = "Continue" /\ s.sim.phase = "Intro")) -> s
       [] ~overloaded /\ starts /\ (over \/ (s.sim.phase = "Intro" /\ m = "StartOther")) ->
            BeginRun(Restart(s))
       [] ~overloaded /\ m = "Start" /\ s.sim.phase = "Intro" -> BeginRun(s)
       [] ~overloaded /\ m = "Restart" /\ (alone \/ over) -> BeginRun(Restart(s))
       [] ~overloaded /\ m = "Continue" /\ s.sim.phase = "Intro" -> BeginRun(s)
       [] m = "Continue" /\ s.sim.phase # "Intro" -> [s EXCEPT !.sim = ContinueRun(@, p)]
       [] m \in {"Choose", "ChooseHealth"} ->
            [s EXCEPT !.sim = ChooseReward(@, p, m = "ChooseHealth")]
       [] m \in {"Pause", "Resume"} /\ alone -> [s EXCEPT !.sim.paused = (m = "Pause")]
       [] OTHER -> s

\* A restart ends the menus of its tick; those already taken from a queue are lost.
Restarted(s, t) == \E i \in LiveIn(s) : t.peers[i].own # s.peers[i].own

\* Only an active stream has menus queued (receive_control: Menu, queue_menu), and
\* its queue ends with it, so what it holds is chosen when a tick takes it out.
Queued(s) == {i \in LiveIn(s) : s.peers[i].active}

RunMenus(s, choice, overloaded) ==
  FoldIds(LAMBDA t, i : IF Restarted(s, t) THEN t ELSE Menu(t, i, choice[i], overloaded),
          s, Queued(s))

DueHandoffs(s) == {p \in Players : s.handoffs[p].after = 1}
Aged(s) == [s EXCEPT !.handoffs = [p \in Players |-> IF @[p].after > 0
                                                     THEN [@[p] EXCEPT !.after = @ - 1]
                                                     ELSE @[p]]]

Arrivals(s) ==
  [s EXCEPT !.arriving = {},
            !.sim = FoldSet(LAMBDA i, w : AddPlayer(w, s.peers[i].player, FALSE), s.sim,
                            s.arriving \cap LiveIn(s))]

Unpaused(s) == IF Cardinality(LiveIn(s)) > 1 THEN [s EXCEPT !.sim.paused = FALSE] ELSE s

Activated(s) ==
  LET now == {i \in LiveIn(s) : s.peers[i].activate}
      Take(t, i) == [t EXCEPT !.sim = SetPlayerActivity(@, t.peers[i].player, TRUE),
                              !.peers[i].committed = TRUE, !.peers[i].activate = FALSE]
  IN FoldIds(Take, s, now)

\* step_committed up to the menus.
Prepared(s, late) ==
  LET handed == FoldSet(LAMBDA p, t : ApplyHandoff(t, p, late), s, DueHandoffs(s))
  IN Activated(Unpaused(Arrivals(Aged(handed))))

\* The epochs under which the players of live streams act.
ActingEpochs(s) ==
  [p \in Players |-> IF p \in PlayersIn(s)
                     THEN s.peers[CHOOSE i \in LiveIn(s) : s.peers[i].player = p].own ELSE 0]

\* The bound on restarts.
CanChoose(s, m) == m \in {"Start", "StartOther", "Restart"} => CanOwn(s)

\* step_committed.  Only a stream that is active sends the casts of its hero.
Tick ==
  \E late, overloaded \in BOOLEAN :
    /\ late => DueHandoffs(Now) # {}
    /\ \E ready \in {Prepared(Now, late)} :
       \E choice \in [Queued(ready) -> Menus \cup {"none"}] :
         /\ \A i \in Queued(ready) : CanChoose(ready, choice[i])
         /\ overloaded => \E i \in Queued(ready) : choice[i] \in {"Start", "Restart"}
         /\ \E s \in {RunMenus(ready, choice, overloaded)} :
              IF ~Fighting(s.sim) THEN Become(s)
              ELSE \E f \in Fights(s.sim) :
                     /\ \A p \in f.cast : \E i \in LiveIn(s) : s.peers[i].player = p /\ s.peers[i].active
                     /\ Become([s EXCEPT !.sim = FightTick(@, f, ActingEpochs(s))])

-----------------------------------------------------------------------------
(* Publication: states.                                                     *)

\* OwnerTransients::validate_for: a network cast belongs to the owner's stream.
CheckpointValid(s, i) ==
  LET h == s.sim.hero[s.peers[i].player]
  IN h.present /\ h.bolts \subseteq {s.peers[i].own}

\* What happens to a stream in a publication: nothing to send or no room for it;
\* the owner group goes out; the bases under the owner changed, which drops the
\* frozen group; a deadline of the stream has passed; its frozen group or its
\* baseline reset is too old and the stream is retried.
Fates(s, i) ==
  {"quiet", "expires"}
    \cup (IF s.peers[i].frozen # "none" THEN {"rebased"}
          ELSE IF s.peers[i].ready /\ ~s.peers[i].active THEN {"sent"} ELSE {})
    \cup (IF s.peers[i].active = s.peers[i].committed
          THEN {"retried"} ELSE {})

\* peer_state.  Only the group of a stream that has to prove it is frozen.
PeerState(s, i, fate) ==
  LET invalid == s.peers[i].ready /\ ~CheckpointValid(s, i)
      proof == IF s.peers[i].committed THEN "active" ELSE "inactive"
  IN CASE fate = "expires" \/ invalid     -> [s EXCEPT !.failed = @ \cup {i}]
       [] fate = "sent" /\ ~invalid        -> [s EXCEPT !.peers[i].frozen = proof]
       [] fate = "rebased" /\ ~invalid     -> [s EXCEPT !.peers[i].frozen = "none"]
       [] fate \in {"quiet", "retried"} /\ ~invalid -> s

\* states: retries first, then every stream that is left.
Publish ==
  \E fate \in [LiveIn(Now) -> {"quiet", "expires", "sent", "rebased", "retried"}] :
    /\ \A i \in LiveIn(Now) : fate[i] \in Fates(Now, i)
    /\ \E kept \in IF "retried" \in Range(fate) THEN 0..ResyncLimit ELSE {0} :
         LET Retry(t, i) == Resynced(t, i, kept)
             retried == FoldIds(Retry, Now, {i \in LiveIn(Now) : fate[i] = "retried"})
             s == DropFailed(retried)
         IN /\ \A i \in LiveIn(Now) : fate[i] = "retried" =>
                 kept <= peers[i].attempts /\ (kept < ResyncLimit => CanOwn(Now))
            /\ Become(DropFailed(FoldIds(LAMBDA t, i : PeerState(t, i, fate[i]), s, LiveIn(s))))

PartyNext ==
  \/ \E i \in Ids, p \in Players : Admit(i, p) \/ StageHandoff(i, p)
  \/ \E i \in Ids : \/ AuthorizeHandoff(i) \/ Disconnect(i) \/ ReceiveReady(i)
                    \/ ReceiveDecoded(i) \/ ReceiveResync(i)
  \/ Tick
  \/ Publish

PartySpec == PartyInit /\ [][PartyNext]_vars

-----------------------------------------------------------------------------
(* Properties.                                                              *)

\* The party size, which scales the enemies and decides whether the run goes on,
\* is the number of heroes that take part, however streams came and went
\* (set_player_activity, add_player_with_activity and remove_player each adjust it).
PartySizeExact == sim.party = Cardinality(ActiveIn(sim))

\* Nobody holds the party up: when everyone who takes part is ready the run has
\* moved on, whether the last of them became ready, left, or was dropped
\* (reconcile_ready after every change of membership).
NobodyHoldsUp == sim.phase \in Waiting => ~AllReady(sim)

\* One stream controls a Traveler.  Streams have their own epoch, never one newer
\* than the last given out, a staged replacement outranks the stream it replaces,
\* and a hero takes part exactly on behalf of a stream whose activation was
\* committed, and with it every stream that may act.
OneController ==
  LET live == LiveIn(Now)
  IN /\ \A i, j \in live : peers[i].player = peers[j].player => i = j
     /\ \A i \in live : peers[i].own <= ownership[peers[i].player]
     /\ \A p \in Players : handoffs[p].id # 0 =>
          /\ handoffs[p].id \notin live
          /\ handoffs[p].next > handoffs[p].own
          /\ handoffs[p].next <= ownership[p]
     /\ \A p \in Players : sim.hero[p].active <=>
          \E i \in live : peers[i].player = p /\ peers[i].committed
     /\ \A i \in live : peers[i].active => peers[i].committed

\* Who takes part, who controls whom and who is waited for fit together.
PartySound == PartySizeExact /\ NobodyHoldsUp /\ OneController

\* Leaving and coming back heals nobody: a hero that is down gets up by a chosen
\* reward, the end of an encounter, the next room or a new run (resume_player
\* restores participation "without refreshing health").
ReturnDoesNotHeal ==
  [][\A p \in Players :
       ~sim.hero[p].alive /\ sim'.hero[p].alive =>
         \/ sim'.phase # sim.phase \/ sim'.room # sim.room
         \/ sim.hero[p].offers /\ \E i \in Ids : peers[i].player = p /\ peers[i].active]_vars

\* "Each player chooses their own rewards": in a reward phase every hero that
\* takes part and has not finished has something to choose from.
ChooserHasOffer ==
  sim.phase = "Reward" =>
    \A p \in ActiveIn(sim) : sim.hero[p].ready \/ sim.hero[p].offers

\* A stream given to a Traveler who takes part can be started: the owner
\* checkpoint of the hero it belongs to is valid under the stream's epoch, so
\* that the hero and its participation survive a resynchronization.
ResyncKeepsHero ==
  \A i \in LiveIn(Now) : peers[i].ready /\ peers[i].committed => CheckpointValid(Now, i)
=============================================================================
