---------------------------- MODULE ContractReplay ----------------------------
(***************************************************************************)
(* The executable contract of commands, prediction and replay              *)
(* (todo/reference_model/model.py): one server, one client, and a network  *)
(* that may lose, repeat and reorder what each sends the other.  Beside    *)
(* them, sharing nothing, its spawn registry.                              *)
(*                                                                         *)
(* The random state, which changes with every shot and with nothing else,  *)
(* is left out: the ammunition already counts the shots.  A command's      *)
(* sequence number is its target tick, as the client's caller numbers      *)
(* them, so the client never sends two payloads under one number.          *)
(* Abstractions: one epoch and stream; validation of types and ranges.     *)
(***************************************************************************)
EXTENDS Integers, FiniteSets, TLC
LOCAL INSTANCE FiniteSetsExt
LOCAL INSTANCE Functions

CONSTANTS
  Impulse,          \* Dependency.impulse by tick
  Ammo, Cooldown,   \* State.ammo at first (20), ticks between shots (3)
  TopSpeed,         \* 8
  FutureWindow, HeldGrace, AuditWindow,
  HistoryCapacity, ReplayCap,
  Spawns,           \* keys of predicted spawns
  Bindings,         \* authoritative entities
  MaxTick           \* bound

ContractAssumption ==
  {Ammo, TopSpeed, FutureWindow, HeldGrace, AuditWindow, HistoryCapacity, ReplayCap, MaxTick}
    \subseteq Nat

VARIABLES
  authority,   \* class Server
  predictor,   \* class Client
  flying,      \* commands sent
  registry     \* class SpawnRegistry

contractVars == <<authority, predictor, flying, registry>>

ToSpeed(v) == Max({-TopSpeed, Min({TopSpeed, v})})

\* step: the state after a command, and whether it shot.
Stepped(s, c) ==
  LET velocity == ToSpeed(s.velocity + c.move + Impulse[c.target])
      cooldown == Max({0, s.cooldown - 1})
      shot == c.fire /\ s.ammo > 0 /\ cooldown = 0
  IN [shot |-> shot,
      state |-> [tick |-> c.target, x |-> s.x + velocity, velocity |-> velocity,
                 ammo |-> IF shot THEN s.ammo - 1 ELSE s.ammo,
                 cooldown |-> IF shot THEN Cooldown ELSE cooldown]]

FirstState == [tick |-> 0, x |-> 0, velocity |-> 0, ammo |-> Ammo, cooldown |-> 0]

Commands(t) == [target : {t}, move : {0, 1}, fire : BOOLEAN]

From(f, first) == Restrict(f, {t \in DOMAIN f : t >= first})

-----------------------------------------------------------------------------
(* Server.                                                                  *)

\* submit, by its answer; what it refuses by raising is "error".
Submitted(c) ==
  CASE c.target \in DOMAIN authority.admitted ->
         IF authority.admitted[c.target] = c THEN "duplicate" ELSE "error"
    [] c.target <= authority.state.tick -> "late"
    [] c.target > authority.state.tick + FutureWindow -> "future"
    [] c.target \in DOMAIN authority.pending -> "error"
    [] OTHER -> "accepted"

Submit(c) ==
  /\ Submitted(c) = "accepted"
  /\ authority' = [authority EXCEPT !.pending = (c.target :> c) @@ @,
                                    !.admitted = (c.target :> c) @@ @]
  /\ UNCHANGED <<predictor, flying, registry>>

\* Mutant: a substitute repeats the whole last command.
MutantExecuted(t) ==
  IF t \in DOMAIN authority.pending THEN authority.pending[t]
  ELSE [target |-> t, move |-> authority.lastMove, fire |-> authority.missing < HeldGrace]

\* What advance executes: the admitted command, or a substitute that holds the
\* last movement for a while and never fires.
Executed(t) ==
  IF t \in DOMAIN authority.pending THEN authority.pending[t]
  ELSE [target |-> t, fire |-> FALSE,
        move |-> IF authority.missing + 1 <= HeldGrace THEN authority.lastMove ELSE 0]

Advance ==
  LET t == authority.state.tick + 1
      c == Executed(t)
      admitted == t \in DOMAIN authority.pending
      after == Stepped(authority.state, c)
      oldest == t - AuditWindow
  IN /\ t <= MaxTick
     /\ authority' =
          [state |-> after.state,
           pending |-> Restrict(authority.pending, DOMAIN authority.pending \ {t}),
           admitted |-> From(authority.admitted, oldest + 1),
           receipts |-> From((t :> IF admitted THEN "executed" ELSE "substituted")
                               @@ authority.receipts, oldest + 1),
           history |-> From((t :> after.state) @@ authority.history, oldest),
           ran |-> From((t :> c) @@ authority.ran, oldest + 1),
           committed |-> authority.committed \cup (IF after.shot THEN {t} ELSE {}),
           lastMove |-> IF admitted THEN c.move ELSE authority.lastMove,
           missing |-> IF admitted THEN 0 ELSE authority.missing + 1]
     /\ UNCHANGED <<predictor, flying, registry>>

-----------------------------------------------------------------------------
(* Client, with its EventJournal.                                           *)

\* observe: an effect starts once, and shows again if it was cancelled.
Seen(j, keys) ==
  [j EXCEPT !.started = @ \cup keys, !.active = @ \cup keys,
            !.starts = @ + Cardinality(keys \ j.started)]

\* predict.
Predict(c) ==
  LET p == predictor
      after == Stepped(p.state, c)
      shots == IF after.shot THEN {c.target} ELSE {}
      oldest == c.target - HistoryCapacity
  IN /\ c.target = p.state.tick + 1 /\ c.target <= MaxTick
     /\ predictor' =
          [p EXCEPT !.state = after.state,
                    !.commands = From((c.target :> c) @@ @, oldest + 1),
                    !.events = From((c.target :> shots) @@ @, oldest + 1),
                    !.history = From((c.target :> after.state) @@ @, oldest),
                    !.journal = Seen(@, shots)]
     /\ flying' = flying \cup {c}
     /\ UNCHANGED <<authority, registry>>

\* Mutant: only the position is restored before the replay.
MutantReplayed(s) ==
  LET run[t \in s.tick..predictor.state.tick] ==
        IF t = s.tick THEN [shot |-> FALSE, state |-> [predictor.history[t] EXCEPT !.x = s.x]]
        ELSE Stepped(run[t - 1].state, predictor.commands[t])
  IN run

\* The states and shots of a replay from s.
Replayed(s) ==
  LET run[t \in s.tick..predictor.state.tick] ==
        IF t = s.tick THEN [shot |-> FALSE, state |-> s]
        ELSE Stepped(run[t - 1].state, predictor.commands[t])
  IN run

\* The guards of reconcile; where it raises, nothing changes.
CanReconcile(s) ==
  /\ s.tick > predictor.last
  /\ s.tick <= predictor.state.tick
  /\ predictor.state.tick - s.tick <= ReplayCap
  /\ \A t \in s.tick + 1..predictor.state.tick : t \in DOMAIN predictor.commands

Reconcile(s) ==
  LET p == predictor
      run == Replayed(s)
      ticks == s.tick + 1..p.state.tick
      old == UNION {p.events[t] : t \in {n \in DOMAIN p.events : n > s.tick}}
      new == {t \in ticks : run[t].shot}
      cancelled == old \ new
  IN /\ CanReconcile(s)
     /\ predictor' =
          [p EXCEPT !.state = run[p.state.tick].state,
                    !.history = [t \in {s.tick} \cup ticks |-> run[t].state] @@ @,
                    !.events = [t \in ticks |-> IF run[t].shot THEN {t} ELSE {}] @@ @,
                    !.journal = Seen([@ EXCEPT !.active = @ \ cancelled,
                                               !.cancelled = @ \cup cancelled], new),
                    !.last = s.tick]
     /\ UNCHANGED <<authority, flying, registry>>

-----------------------------------------------------------------------------
(* SpawnRegistry: a key is unbound, or bound to an entity; its outcome.     *)

Unbound == "unbound"

PredictSpawn(k) ==
  /\ k \notin DOMAIN registry.bindings
  /\ registry' = [registry EXCEPT !.bindings = (k :> Unbound) @@ @, !.alive = @ \cup {k}]
  /\ UNCHANGED <<authority, predictor, flying>>

LocalDespawn(k) ==
  /\ k \in registry.alive
  /\ registry' = [registry EXCEPT !.alive = @ \ {k}]
  /\ UNCHANGED <<authority, predictor, flying>>

\* Mutant: binding shows the spawn.
MutantAcceptedSpawn(k, e) ==
  [registry EXCEPT !.bindings[k] = e, !.terminal[k] = "accepted", !.alive = @ \cup {k}]

AcceptedSpawn(k, e) == [registry EXCEPT !.bindings[k] = e, !.terminal[k] = "accepted"]

AcceptSpawn(k, e) ==
  /\ k \in DOMAIN registry.bindings
  /\ registry.terminal[k] # "rejected"
  /\ registry.bindings[k] \in {Unbound, e}
  /\ registry' = AcceptedSpawn(k, e)
  /\ UNCHANGED <<authority, predictor, flying>>

RejectSpawn(k) ==
  /\ k \in DOMAIN registry.bindings
  /\ registry.terminal[k] # "accepted"
  /\ registry' = [registry EXCEPT !.terminal[k] = "rejected", !.alive = @ \ {k}]
  /\ UNCHANGED <<authority, predictor, flying>>

ContractInit ==
  /\ authority = [state |-> FirstState, pending |-> << >>, admitted |-> << >>,
                  receipts |-> << >>, history |-> (0 :> FirstState), ran |-> << >>,
                  committed |-> {}, lastMove |-> 0, missing |-> 0]
  /\ predictor = [state |-> FirstState, history |-> (0 :> FirstState), commands |-> << >>,
                  events |-> << >>, last |-> -1,
                  journal |-> [active |-> {}, started |-> {}, cancelled |-> {}, starts |-> 0]]
  /\ flying = {}
  /\ registry = [bindings |-> << >>, alive |-> {}, terminal |-> [k \in Spawns |-> "none"]]

RegistryStep ==
  \E k \in Spawns : \/ PredictSpawn(k) \/ LocalDespawn(k) \/ RejectSpawn(k)
                    \/ \E e \in Bindings : AcceptSpawn(k, e)

ReplayStep ==
  \/ \E c \in flying : Submit(c)
  \/ Advance
  \/ \E c \in Commands(predictor.state.tick + 1) : Predict(c)
  \/ \E t \in DOMAIN authority.history : Reconcile(authority.history[t])

\* The two share nothing: a behaviour is one or the other.
ContractNext ==
  \/ DOMAIN registry.bindings = {} /\ ReplayStep
  \/ predictor.state.tick = 0 /\ authority.state.tick = 0 /\ RegistryStep

ContractSpec == ContractInit /\ [][ContractNext]_contractVars

-----------------------------------------------------------------------------
\* From the newest checkpoint on, the client's history is the server's for as
\* long as the server ran what the client predicted, whatever was lost, late,
\* repeated or corrected before; beyond it exactly the predicted shots are
\* shown, each started once; and the server commits a shot only of a command
\* it admitted for that tick, never of a substitute.
ContractKept ==
  LET p == predictor
      a == authority
      agree(t) == \A n \in p.last + 1..t : n \in DOMAIN a.ran /\ n \in DOMAIN p.commands
                                            /\ a.ran[n] = p.commands[n]
  IN /\ \A t \in DOMAIN p.history \cap DOMAIN a.history :
          t >= p.last /\ t > 0 /\ agree(t) => p.history[t] = a.history[t]
     /\ \A t \in DOMAIN p.events :
          t > p.last => (t \in p.journal.active <=> t \in p.events[t])
     /\ p.journal.starts = Cardinality(p.journal.started)
     /\ \A t \in a.committed \cap DOMAIN a.receipts : a.receipts[t] = "executed"
=============================================================================
