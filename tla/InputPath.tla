------------------------------- MODULE InputPath ------------------------------
(***************************************************************************)
(* From a key press to a command: one frame of the client reads keys and   *)
(* buttons (client input/capture.rs), runs the menu actions they mean,     *)
(* samples the held controls and the pressed actions, and journals the     *)
(* sample with its time (journal_hardware in network/mod.rs and            *)
(* engine/net/src/input.rs); the fixed update later drains the journal     *)
(* into commands, one per tick and one action per command, and sends them  *)
(* with older ones (generate_commands, retry_pending_commands).            *)
(*                                                                         *)
(* An action of the player is the number of its press; the held controls   *)
(* are the number of the frame that sampled them, 0 when they are neutral. *)
(* Time counts half ticks.  The host is the one a solo player talks to.    *)
(*                                                                         *)
(* Left out: pointer and stick geometry, mute and slot selection (they     *)
(* stay on the client), autoplay, choices, how a charge edge is resolved (Surge),   *)
(* the link below (ClientLink), and the lead that chooses a target         *)
(* (PredictedSession).  A command names no action that was lost with its   *)
(* view: a lance or a beam pressed without a coherent view is no press.    *)
(***************************************************************************)
EXTENDS Integers, Sequences, FiniteSets
LOCAL INSTANCE SequencesExt

CONSTANTS
  EdgeSlots,       \* actions one frame, and one command's drain, can hold (8)
  JournalRoom,     \* samples the journal keeps (256)
  BacklogRoom,     \* actions waiting for a command (32)
  FutureTicks,     \* CommandLimits.future_ticks
  Redundancy,      \* records of one packet (8)
  MaxMoment,       \* bound: the time of the last frame
  MaxPresses,      \* bound: presses of a behaviour
  MaxKeys,         \* bound: menu keys of a behaviour
  MaxCommitted,    \* bound: committed ticks
  MaxAhead         \* bound: ticks a command's target is ahead of the committed one

VARIABLES
  moment,     \* Time<Real>.elapsed() of the frame
  fixed,      \* the frame's fixed update is still to come
  panel,      \* DreamPreferences: paused, build_open
  trigger,    \* the beam button, and CapturedBeam.1: it was held last frame
  feed,       \* the Session: status, journal, deadline, backlog, sequence, frontier, retried
  outbox,     \* Runtime.pending, oldest first
  menu,       \* Runtime.in_flight_action (0 none) and action_seq
  hosted,     \* the authority: paused, phase, queued menus, restarts
  committed,  \* simulation_clock.committed()
  seen,       \* history: the samples journaled in this session
  authored,   \* history: the commands generated in this session
  offered,    \* history: commands sent while the server could admit them
  spent       \* presses, keys and restarts asked for so far

inputVars == <<moment, fixed, panel, trigger, feed, outbox, menu, hosted, committed,
               seen, authored, offered, spent>>

NoTime == -1

\* A sample is journaled where the session takes it: from its Welcome on.
NewFeed(tick) ==
  [status |-> "active", held |-> 0, samples |-> <<>>, closed |-> NoTime,
   deadline |-> 0, backlog |-> <<>>, sequence |-> 0, frontier |-> tick, retried |-> NoTime]

InputInit ==
  /\ moment = 0 /\ committed = 0 /\ fixed = FALSE
  /\ panel = [paused |-> FALSE, build |-> FALSE]
  /\ trigger = [down |-> FALSE, was |-> FALSE]
  /\ feed = NewFeed(0)
  /\ outbox = <<>> /\ seen = <<>> /\ authored = <<>> /\ offered = {}
  /\ menu = [flight |-> 0, last |-> 0]
  /\ hosted = [paused |-> FALSE, phase |-> "combat", menus |-> <<>>, applied |-> 0, restarts |-> 0]
  /\ spent = [presses |-> 0, keys |-> 0, restarts |-> 0]

-----------------------------------------------------------------------------
(* Menu keys.                                                               *)

Keys == {"Escape", "Tab", "F5", "Enter"}

Ending == hosted.phase = "defeat"
MenuOpen(p) == p.paused \/ p.build

\* keyboard_actions: what a pressed key means is decided before any of the
\* frame's actions runs.
Meant(key) ==
  CASE key = "Escape" -> "TogglePause"
    [] key = "Tab" -> "ToggleBuild"
    [] key = "F5" /\ (panel.paused \/ Ending) -> "Restart"
    [] key = "Enter" /\ MenuOpen(panel) -> "TogglePause"
    [] key = "Enter" /\ Ending -> "Restart"
    [] OTHER -> "nothing"

KeyOrder == <<"Escape", "Tab", "F5", "Enter">>

UiActions(keys) ==
  SelectSeq([i \in 1..Len(KeyOrder) |->
               IF KeyOrder[i] \in keys THEN Meant(KeyOrder[i]) ELSE "nothing"],
            LAMBDA a : a # "nothing")

\* send_action: one action at a time, except that a pause always goes.
Sent(s, kind) ==
  IF feed.status # "active" \/ (s.menu.flight # 0 /\ kind \notin {"Pause", "Resume"})
  THEN s
  ELSE [s EXCEPT !.menu = [flight |-> s.menu.last + 1, last |-> s.menu.last + 1],
                 !.menus = Append(@, [sequence |-> s.menu.last + 1, kind |-> kind])]

\* apply_ui_actions for one action.
Toggled(s, next) ==
  Sent([s EXCEPT !.panel = next], IF MenuOpen(next) THEN "Pause" ELSE "Resume")

Done(s, action) ==
  CASE action = "Restart" ->
         [Sent(s, "Restart") EXCEPT !.panel = [paused |-> FALSE, build |-> FALSE]]
    [] action = "TogglePause" ->
         Toggled(s, IF s.panel.build THEN [s.panel EXCEPT !.build = FALSE]
                    ELSE [s.panel EXCEPT !.paused = ~@])
    [] action = "ToggleBuild" ->
         Toggled(s, [paused |-> FALSE, build |-> ~s.panel.build])

Applied(actions) ==
  LET done[i \in 0..Len(actions)] ==
        IF i = 0 THEN [panel |-> panel, menu |-> menu, menus |-> hosted.menus]
        ELSE Done(done[i - 1], actions[i])
  IN done[Len(actions)]

-----------------------------------------------------------------------------
(* One frame: PreUpdate.                                                    *)

\* capture_input: with a menu open, outside combat or while text is edited
\* nothing is pressed and nothing is held, and a held beam is let go.
Suppressed(p, typing) == MenuOpen(p) \/ hosted.phase # "combat" \/ typing

\* The beam's edges of a frame.
BeamEdges(p, typing, down, pressed) ==
  CASE Suppressed(p, typing) -> IF trigger.was THEN <<"stop">> ELSE <<>>
    [] pressed -> <<"begin">>
    [] trigger.was /\ ~down -> <<"stop">>
    [] OTHER -> <<>>

\* A press and its number: the charge edges and the lance, the beam, then the
\* dash and the casts, which journal_hardware adds from the captured input.
Numbered(kinds) == [i \in 1..Len(kinds) |-> [press |-> spent.presses + i, kind |-> kinds[i]]]

Pressed(p, typing, hands, coherent) ==
  LET lance == IF hands.lance /\ ~Suppressed(p, typing) THEN <<"lance">> ELSE <<>>
      beam == LET edges == BeamEdges(p, typing, hands.down, hands.down /\ ~trigger.down)
              IN IF edges = <<"begin">> /\ ~coherent THEN <<>> ELSE edges
      cast == IF hands.cast /\ ~Suppressed(p, typing) THEN <<"cast">> ELSE <<>>
  IN lance \o beam \o cast

\* Session::recover.
Recovered(f) ==
  [f EXCEPT !.status = "recovering", !.samples = <<>>, !.held = 0, !.closed = NoTime,
            !.deadline = 0, !.backlog = <<>>, !.retried = NoTime]

\* InputJournal::capture takes the sample.
Captures(f, at) == at > f.closed /\ Len(f.samples) < JournalRoom

\* keyboard_actions, apply_ui_actions, capture_input and journal_hardware.
InputFrame(wait, keys, typing, hands, coherent) ==
  \E s \in {Applied(IF typing THEN <<>> ELSE UiActions(keys))} :
  \E kinds \in {Pressed(s.panel, typing, hands, coherent)} :
    LET now    == moment + wait
        sample == [at |-> now, edges |-> Numbered(kinds),
                   held |-> IF Suppressed(s.panel, typing) THEN 0 ELSE now]
    IN
    /\ moment' = now /\ now <= MaxMoment /\ fixed' = TRUE
    /\ panel' = s.panel /\ menu' = s.menu
    /\ hosted' = [hosted EXCEPT !.menus = s.menus]
    /\ trigger' = [down |-> hands.down, was |-> hands.down /\ ~Suppressed(s.panel, typing)]
    /\ IF feed.status # "active" THEN UNCHANGED <<feed, seen>>
       ELSE IF Len(kinds) > EdgeSlots \/ ~Captures(feed, now)
       THEN /\ feed' = Recovered(feed)
            /\ UNCHANGED seen
       ELSE /\ feed' = [feed EXCEPT !.samples = Append(@, sample)]
            /\ seen' = Append(seen, sample)
    /\ spent' = [presses |-> spent.presses + Len(kinds),
                 keys |-> spent.keys + Cardinality(keys),
                 restarts |-> spent.restarts +
                   IF feed.status = "active" /\ ~typing /\ "F5" \in keys /\ panel.paused
                   THEN 1 ELSE 0]
    /\ spent'.presses <= MaxPresses /\ spent'.keys <= MaxKeys
    /\ UNCHANGED <<outbox, committed, authored, offered>>

-----------------------------------------------------------------------------
(* One fixed update: predict_and_send.                                      *)

Later(a, b) == IF a > b THEN a ELSE b

\* drain_until takes the samples through the deadline, which come first.
Due(f, deadline) == SelectSeq(f.samples, LAMBDA s : s.at <= deadline)

EdgesOf(samples) ==
  LET all[i \in 0..Len(samples)] == IF i = 0 THEN <<>> ELSE all[i - 1] \o samples[i].edges
  IN all[Len(samples)]

HeldAfter(held, samples) == IF samples = <<>> THEN held ELSE samples[Len(samples)].held

\* Session::command_sample: a tick behind the newest one is due a tick earlier,
\* and never before the deadline of the command before it.
DeadlineOf(f, behind) == Later(moment - 2 * behind, f.deadline)

Overfull(f, deadline) ==
  \/ Len(EdgesOf(Due(f, deadline))) > EdgeSlots
  \/ Len(f.backlog) + Len(EdgesOf(Due(f, deadline))) > BacklogRoom


\* Session::next_action queues the drained actions; one leaves per command.
NextBacklog(f, deadline) == f.backlog \o EdgesOf(Due(f, deadline))

\* The command of one tick.
CommandFor(f, tick, deadline) ==
  [sequence |-> f.sequence + 1, target |-> tick, deadline |-> deadline,
   held |-> HeldAfter(f.held, Due(f, deadline)),
   action |-> LET b == NextBacklog(f, deadline) IN IF b = <<>> THEN <<>> ELSE <<b[1]>>]

AfterCommand(f, tick, deadline) ==
  LET b == NextBacklog(f, deadline)
      due == Due(f, deadline)
  IN [f EXCEPT !.samples = SubSeq(@, Len(due) + 1, Len(@)),
               !.held = HeldAfter(@, due), !.closed = deadline, !.deadline = deadline,
               !.backlog = IF b = <<>> THEN b ELSE Tail(b),
               !.sequence = @ + 1, !.frontier = tick]

\* The commands of the ticks first..last, the session after them, and the
\* packets: each carries its command and the newest ones before it.
Packet(box) == {box[i].sequence : i \in {j \in 1..Len(box) : j > Len(box) - Redundancy}}

Authored(first, last) ==
  LET run[t \in (first - 1)..last] ==
        IF t = first - 1 THEN [feed |-> feed, box |-> outbox, new |-> <<>>, sent |-> {}, failed |-> FALSE]
        ELSE LET r == run[t - 1]
                 d == DeadlineOf(r.feed, last - t)
             IN IF r.failed \/ Overfull(r.feed, d) THEN [r EXCEPT !.failed = TRUE]
                ELSE LET c == CommandFor(r.feed, t, d)
                         box == Append(r.box, c)
                     IN [feed |-> AfterCommand(r.feed, t, d), box |-> box,
                         new |-> Append(r.new, c), sent |-> r.sent \cup Packet(box), failed |-> FALSE]
  IN run[last]

Admissible(c) == c.target > committed /\ c.target <= committed + FutureTicks

\* The retry starts one tick too late.
MutantRetried(f, box, covered) ==
  IF committed <= f.retried + 1 THEN {}
  ELSE {box[i].sequence : i \in {j \in 1..Len(box) : Admissible(box[j])}} \ covered

\* retry_pending_commands: once per committed tick, every admissible command
\* that the frame has not sent already.
Retried(f, box, covered) ==
  IF committed <= f.retried THEN {}
  ELSE {box[i].sequence : i \in {j \in 1..Len(box) : Admissible(box[j])}} \ covered

OfferedNow(box, sent) ==
  {box[i].sequence : i \in {j \in 1..Len(box) : Admissible(box[j]) /\ box[j].sequence \in sent}}

\* generate_commands with a target: behind a forecast gap only the newest tick
\* authors a command, and the ticks before it are predicted without one.
Generate(target, gap) ==
  /\ fixed /\ fixed' = FALSE
  /\ feed.status = "active"
  /\ target \in (feed.frontier + 1)..(committed + MaxAhead)
  /\ feed.sequence = 0 => gap
  /\ \E r \in {Authored(IF gap THEN target ELSE feed.frontier + 1, target)} :
       IF r.failed
       THEN /\ feed' = Recovered(r.feed)
            /\ outbox' = r.box
            /\ authored' = authored \o r.new
            /\ offered' = offered \cup OfferedNow(r.box, r.sent)
       ELSE /\ feed' = [r.feed EXCEPT !.retried = Later(@, committed)]
            /\ outbox' = r.box
            /\ authored' = authored \o r.new
            /\ offered' = offered \cup OfferedNow(r.box, r.sent \cup Retried(r.feed, r.box, r.sent))
  /\ UNCHANGED <<moment, panel, trigger, menu, hosted, committed, seen, spent>>

\* generate_commands without a target, or one already predicted.
RetryOnly ==
  /\ fixed /\ fixed' = FALSE
  /\ feed.status = "active" /\ committed > feed.retried
  /\ feed' = [feed EXCEPT !.retried = committed]
  /\ offered' = offered \cup OfferedNow(outbox, Retried(feed, outbox, {}))
  /\ UNCHANGED <<moment, panel, trigger, outbox, menu, hosted, committed, seen, authored, spent>>

-----------------------------------------------------------------------------
(* The host, and what the client hears of it.                               *)

\* DreamAuthority::menu for the only player.
Served(h, kind) ==
  CASE kind = "Pause" -> [h EXCEPT !.paused = TRUE]
    [] kind = "Resume" -> [h EXCEPT !.paused = FALSE]

\* A tick of the host runs the oldest menu action, and its Finalized reaches
\* the client: commands through it are answered, the menu action is applied.
Finalize ==
  /\ committed < MaxCommitted
  /\ hosted.menus # <<>> => Head(hosted.menus).kind # "Restart"
  /\ committed' = committed + 1
  /\ IF hosted.menus = <<>> THEN UNCHANGED <<hosted, menu>>
     ELSE LET m == Head(hosted.menus)
          IN /\ hosted' = [Served(hosted, m.kind) EXCEPT !.menus = Tail(@)]
             /\ menu' = [menu EXCEPT !.flight = IF @ <= m.sequence THEN 0 ELSE @]
  /\ outbox' = SelectSeq(outbox, LAMBDA c : c.target > committed + 1)
  /\ fixed' = FALSE
  /\ UNCHANGED <<moment, panel, trigger, feed, seen, authored, offered, spent>>

\* A Welcome: the session, the commands and the menu start again.
Fresh ==
  /\ feed' = NewFeed(committed + 1)
  /\ outbox' = <<>> /\ seen' = <<>> /\ authored' = <<>> /\ offered' = {}
  /\ panel' = [paused |-> FALSE, build |-> FALSE]
  /\ menu' = [flight |-> 0, last |-> 0]
  /\ committed' = committed + 1 /\ fixed' = FALSE

\* The host restarts the run for the player who asked and welcomes them again.
Restart ==
  /\ committed < MaxCommitted
  /\ hosted.menus # <<>> /\ Head(hosted.menus).kind = "Restart"
  /\ hosted' = [paused |-> FALSE, phase |-> "combat", menus |-> <<>>, applied |-> 0,
                restarts |-> hosted.restarts + 1]
  /\ Fresh
  /\ UNCHANGED <<moment, trigger, spent>>

\* The resynchronization a recovering session asked for.
Rejoin ==
  /\ feed.status = "recovering" /\ committed < MaxCommitted
  /\ hosted' = [hosted EXCEPT !.menus = <<>>]
  /\ Fresh
  /\ UNCHANGED <<moment, trigger, spent>>

\* The player falls, and with them the solo party.
Defeat ==
  /\ hosted.phase = "combat" /\ ~hosted.paused /\ ~fixed /\ moment < MaxMoment
  /\ hosted' = [hosted EXCEPT !.phase = "defeat"]
  /\ UNCHANGED <<moment, fixed, panel, trigger, feed, outbox, menu, committed, seen, authored, offered, spent>>

Hands == [down : BOOLEAN, lance : BOOLEAN, cast : BOOLEAN]

\* What the hands do, and a missing view, matter only where they are looked at.
Distinct(keys, typing, hands, coherent) ==
  /\ typing => ~MenuOpen(panel) /\ keys = {} /\ ~hands.lance /\ ~hands.cast
  /\ MenuOpen(panel) /\ keys = {} => ~hands.lance /\ ~hands.cast
  /\ ~coherent => ~typing /\ hands.down /\ ~trigger.down /\ ~hands.lance

InputNext ==
  \/ \E wait \in 1..2, keys \in {k \in SUBSET Keys : Cardinality(k) <= MaxKeys - spent.keys},
        typing \in BOOLEAN, hands \in Hands, coherent \in BOOLEAN :
       /\ moment < MaxMoment
       /\ Distinct(keys, typing, hands, coherent)
       /\ InputFrame(wait, keys, typing, hands, coherent)
  \/ \E ahead \in 1..2, gap \in BOOLEAN : Generate(feed.frontier + ahead, gap)
  \/ RetryOnly
  \/ Finalize
  \/ Restart
  \/ Rejoin
  \/ Defeat

InputSpec == InputInit /\ [][InputNext]_inputVars

-----------------------------------------------------------------------------
(* Properties.                                                              *)

ActionsOf(cs) ==
  LET all[i \in 0..Len(cs)] == IF i = 0 THEN <<>> ELSE all[i - 1] \o cs[i].action
  IN all[Len(cs)]

\* The samples taken no later than a time.
Through(at) == SelectSeq(seen, LAMBDA s : s.at <= at)

\* Every press of a live session is in exactly one place, in the order of the
\* presses: in a command, waiting for one, or in the journal; a command never
\* carries a press later than its deadline; and it holds the controls as they
\* were last sampled by then.  So a slow frame, several ticks in one frame and
\* a forecast gap neither lose, repeat nor reorder an action
\* (InputJournal::drain_until, Session::command_sample, next_action).  A beam
\* that was begun and is no longer held has been stopped.
InputExact ==
  /\ feed.status = "active" =>
       ActionsOf(authored) \o feed.backlog \o EdgesOf(feed.samples) = EdgesOf(seen)
  /\ \A i \in 1..Len(authored) :
       LET c == authored[i] IN
       /\ c.held = HeldAfter(0, Through(c.deadline))
       /\ IsPrefix(ActionsOf(SubSeq(authored, 1, i)), EdgesOf(Through(c.deadline)))
  /\ feed.status = "active" =>
       LET beams == SelectSeq(EdgesOf(seen), LAMBDA e : e.kind \in {"begin", "stop"})
       IN beams # <<>> /\ beams[Len(beams)].kind = "begin" => trigger.was

\* Once the client has tried at a committed tick, every waiting command that
\* the server could admit has been sent at a time it could (the doc comment of
\* retry_pending_commands: "Progress can make an immutable Future command
\* eligible after it has left normal newest-eight redundancy").
AdmissibleOffered ==
  feed.status = "active" /\ feed.retried = committed =>
    \A i \in 1..Len(outbox) : Admissible(outbox[i]) => outbox[i].sequence \in offered

\* F5 while the menu is open restarts the run of a solo player
\* (docs/dreamwake.md: "F5 while paused or after an ending"): the request is on
\* its way or served.  send_action drops it while another action is in flight.
RestartKept ==
  spent.restarts <= hosted.restarts
    + Cardinality({i \in DOMAIN hosted.menus : hosted.menus[i].kind = "Restart"})
=============================================================================
