------------------------------ MODULE Identity -------------------------------
(***************************************************************************)
(* Traveler identities: the server's registry of claimed ids               *)
(* (games/dreamwake/server/src/admission.rs), the profiles a device saves  *)
(* (client/src/identity.rs), the panel that edits them                     *)
(* (client/src/plugins/ui/identity.rs) and the connect and disconnect that *)
(* use them (client/src/plugins/network/mod.rs).                           *)
(*                                                                         *)
(* Native processes share one file under a sidecar lock and save within    *)
(* one call; browser tabs share the local storage of one browser under a   *)
(* Web Lock and save in a task that a later frame picks up.  A secret is a *)
(* number, fresh when it is drawn.  A server process may crash at any      *)
(* point of a registration and reopens its file; a client process may      *)
(* close at any time.                                                      *)
(*                                                                         *)
(* Left out: the encodings and their size limits, the widgets and texts,   *)
(* the retries of a bootstrap (they repeat one request), and corruption of *)
(* a file by someone else beyond a read that fails.                        *)
(***************************************************************************)
EXTENDS Naturals, FiniteSets, TLC

CONSTANTS
  Natives,        \* native client processes of one machine
  Tabs,           \* browser tabs of one browser
  Ids,            \* player ids, positive numbers
  Servers,        \* server addresses
  Home,           \* the address a client starts with
  MaxIdentities,  \* MAX_IDENTITIES of a registry
  MaxProfiles,    \* MAX_PROFILES of a device
  MaxSecrets,     \* bound: secrets drawn
  Players,        \* bound: the processes whose panel is used
  MaxRequests     \* bound: bootstraps under way at once

IdentityAssumption ==
  /\ Natives \cap Tabs = {}
  /\ Home \in Servers
  /\ Ids \subseteq Nat \ {0}
  /\ {MaxIdentities, MaxProfiles, MaxSecrets} \subseteq Nat \ {0}

Processes == Natives \cup Tabs

VARIABLES
  registry,  \* [Servers -> [memory, disk]], each a partial map from ids to secrets
  saved,     \* [{"file", "browser"} -> the saved document]
  tabIds,    \* [Tabs -> [Servers -> the id of session storage, or 0]]
  client,    \* [Processes -> TravelerProfile with its panel and connection]
  requests,  \* bootstrap requests under way
  drawn,     \* secrets drawn so far
  granted    \* every <<server, id, secret>> a server has answered Ok

identityVars == <<registry, saved, tabIds, client, requests, drawn, granted>>

StoreOf(p) == IF p \in Natives THEN "file" ELSE "browser"

NoMap == <<>>
NoJob == [stage |-> "none"]

\* A document without profiles stands for the missing file.
NoDocument == [selected |-> 0, profiles |-> NoMap]

\* draft is the input's id from a save on: before it, nothing depends on it.
ClosedPanel == [open |-> FALSE, draft |-> 0, saving |-> 0, join |-> FALSE]

Closed == [up |-> FALSE, server |-> Home, id |-> 0, secret |-> 0,
           locked |-> FALSE, initialized |-> FALSE, error |-> FALSE, unreadable |-> FALSE,
           job |-> NoJob, conn |-> "off", panel |-> ClosedPanel]

IdentityInit ==
  /\ registry = [s \in Servers |-> [memory |-> NoMap, disk |-> NoMap]]
  /\ saved = [d \in {"file", "browser"} |-> NoDocument]
  /\ tabIds = [t \in Tabs |-> [s \in Servers |-> 0]]
  /\ client = [p \in Processes |-> Closed]
  /\ requests = {}
  /\ drawn = 0
  /\ granted = {}

-----------------------------------------------------------------------------
(* Saving a selection.                                                     *)

\* The id a request selects: want is 0 for Restore.
SelectedId(server, doc, tab, want, fallback) ==
  CASE want # 0                                     -> want
    [] tab # 0                                      -> tab
    [] <<server, doc.selected>> \in DOMAIN doc.profiles -> doc.selected
    [] OTHER                                        -> fallback.id

\* The latest document is not looked up for the credential.
MutantPrepared(server, doc, tab, want, fallback, fresh) ==
  LET id == SelectedId(server, doc, tab, want, fallback)
      secret == IF id = fallback.id THEN fallback.secret ELSE fresh
  IN [ok |-> TRUE, server |-> server, id |-> id, secret |-> secret,
      doc |-> [selected |-> id, profiles |-> (<<server, id>> :> secret) @@ doc.profiles]]

\* prepare_selection.
Prepared(server, doc, tab, want, fallback, fresh) ==
  LET id     == SelectedId(server, doc, tab, want, fallback)
      known  == <<server, id>> \in DOMAIN doc.profiles
      secret == IF known THEN doc.profiles[server, id]
                ELSE IF id = fallback.id THEN fallback.secret ELSE fresh
  IN [ok |-> known \/ Cardinality(DOMAIN doc.profiles) < MaxProfiles,
      server |-> server, id |-> id, secret |-> secret,
      doc |-> [selected |-> id, profiles |-> doc.profiles @@ (<<server, id>> :> secret)]]

\* commit.
Committed(c, s) ==
  [c EXCEPT !.server = s.server, !.id = s.id, !.secret = s.secret,
            !.initialized = TRUE, !.error = FALSE, !.unreadable = FALSE]

Pending(c) == c.job # NoJob
IsReady(c) == c.initialized /\ ~Pending(c) /\ ~c.error
Locked(c)  == [c EXCEPT !.locked = TRUE, !.conn = "booting"]

\* lock, at the end of connect: the request carries the selected credential.
Request(p, c) == [from |-> p, live |-> TRUE, server |-> c.server, id |-> c.id, secret |-> c.secret]
Booting(c)    == IF IsReady(c) THEN Locked(c) ELSE [c EXCEPT !.conn = "off"]
Sent(p, c)    == IF IsReady(c) THEN {Request(p, c)} ELSE {}

\* disconnect_runtime: what is left of a connection, and of its requests.
Released(c)  == [c EXCEPT !.locked = FALSE, !.conn = "off"]
Orphaned(p)  == {IF r.from = p THEN [r EXCEPT !.live = FALSE] ELSE r : r \in requests}

\* A panel without an input cannot be edited or saved.
HasInput(c) == c.panel.open /\ ~c.locked /\ (c.initialized \/ ~Pending(c))

\* finish_selection: the panel closes and asks for a connection.
Finished(c, join) ==
  IF join /\ c.panel.open
  THEN [c EXCEPT !.panel.open = FALSE, !.conn = "asked"]
  ELSE [c EXCEPT !.panel.draft = 0]

\* The input is not compared with the saved id.
MutantPanelFinished(c) ==
  LET done == [c EXCEPT !.panel.saving = 0, !.panel.join = FALSE]
  IN IF c.panel.saving # 0 /\ ~c.error THEN Finished(done, c.panel.join) ELSE done

\* finish_pending_save: a join goes on only while the input still shows the
\* id that was saved.
PanelFinished(c) ==
  LET done == [c EXCEPT !.panel.saving = 0, !.panel.join = FALSE]
  IN IF /\ c.panel.saving # 0
        /\ IsReady(c) /\ c.id = c.panel.saving
        /\ c.panel.open /\ c.panel.draft = c.panel.saving
     THEN Finished(done, c.panel.join) ELSE [done EXCEPT !.panel.draft = 0]

-----------------------------------------------------------------------------
(* Client processes.                                                       *)

\* write_private_file replaces the file as a whole or leaves it.
Written(doc, outcome) == IF outcome = "done" THEN [saved EXCEPT !["file"] = doc] ELSE saved

\* select_id on the file: busy lock, unwritable file, full document, or done.
\* fallback is the selected credential, server the one selected for.
NativeSelects(p, c, server, want, fallback, outcome) ==
  LET s == Prepared(server, saved["file"], 0, want, fallback, drawn + 1)
  IN /\ outcome = "done" => s.ok
     /\ saved' = Written(s.doc, outcome)
     /\ drawn' = IF s.secret > drawn /\ outcome = "done" THEN s.secret ELSE drawn
     /\ UNCHANGED tabIds

\* begin_browser_selection.
Began(c, server, want, fallback) ==
  [c EXCEPT !.error = FALSE,
            !.job = [stage |-> "asked", server |-> server, want |-> want, fallback |-> fallback]]

Selection(c) == [id |-> c.id, secret |-> c.secret]

\* TravelerProfile::load of a native process with --player-id want or none;
\* id is the random default.
LoadNative(p, id, want, outcome) ==
  LET doc    == saved["file"]
      known  == <<Home, doc.selected>> \in DOMAIN doc.profiles
      start  == IF known THEN [id |-> doc.selected, secret |-> doc.profiles[Home, doc.selected]]
                ELSE [id |-> id, secret |-> drawn + 1]
      target == IF want = 0 THEN start.id ELSE want
      s      == Prepared(Home, doc, 0, target, start, drawn + 2)
      opened == [Closed EXCEPT !.up = TRUE, !.initialized = TRUE]
  IN /\ ~client[p].up
     /\ outcome = "done" => s.ok
     /\ client' = [client EXCEPT ![p] =
          CASE outcome = "done"   -> Committed(opened, s)
            [] outcome = "failed" -> [opened EXCEPT !.id = start.id, !.secret = start.secret,
                                                    !.error = TRUE]
            [] OTHER              -> [opened EXCEPT !.id = id, !.secret = drawn + 1,
                                                    !.error = TRUE, !.unreadable = TRUE]]
     /\ saved' = Written(s.doc, outcome)
     /\ drawn' = IF client'[p].secret > drawn THEN client'[p].secret ELSE drawn
     /\ UNCHANGED <<registry, tabIds, requests, granted>>

\* The browser's load starts a Restore; id is the random default.
LoadTab(p, id) ==
  LET fallback == [id |-> id, secret |-> drawn + 1]
      opened   == [Closed EXCEPT !.up = TRUE, !.id = id, !.secret = drawn + 1]
  IN /\ ~client[p].up
     /\ client' = [client EXCEPT ![p] = Began(opened, Home, 0, fallback)]
     /\ drawn' = drawn + 1
     /\ UNCHANGED <<registry, saved, tabIds, requests, granted>>

\* The callback inside the Web Lock.  unsaved: the lock timed out, or storage
\* could not be read or written.  half: local storage was written and session
\* storage was not.
TabSaves(p, outcome) ==
  LET job == client[p].job
      s   == Prepared(job.server, saved["browser"], tabIds[p][job.server], job.want, job.fallback,
                      drawn + 1)
  IN /\ job.stage = "asked"
     /\ outcome # "unsaved" => s.ok
     /\ saved' = IF outcome = "unsaved" THEN saved ELSE [saved EXCEPT !["browser"] = s.doc]
     /\ tabIds' = IF outcome = "done" THEN [tabIds EXCEPT ![p][job.server] = s.id] ELSE tabIds
     /\ drawn' = IF outcome # "unsaved" /\ s.secret > drawn THEN s.secret ELSE drawn
     /\ client' = [client EXCEPT ![p].job =
          IF outcome = "done"
          THEN [stage |-> "saved", server |-> s.server, id |-> s.id, secret |-> s.secret]
          ELSE [stage |-> "failed"]]
     /\ UNCHANGED <<registry, requests, granted>>

\* One frame: identity::poll, connect_when_profile_ready, finish_pending_save.
Poll(p) ==
  LET job    == client[p].job
      idle   == [client[p] EXCEPT !.job = NoJob]
      polled == IF job.stage = "saved" THEN Committed(idle, job) ELSE [idle EXCEPT !.error = TRUE]
      linked == IF polled.conn = "waiting" THEN Booting(polled) ELSE polled
  IN /\ job.stage \in {"saved", "failed"}
     /\ client' = [client EXCEPT ![p] = PanelFinished(linked)]
     /\ requests' = requests \cup (IF polled.conn = "waiting" THEN Sent(p, polled) ELSE {})
     /\ UNCHANGED <<registry, saved, tabIds, drawn, granted>>

\* use_server: the profile after it.  The new server gets a fresh secret for
\* the selected id unless it already has one.
UsedServer(p, c, server, fallback, outcome) ==
  CASE server = c.server \/ Pending(c) -> c
    [] p \in Tabs       -> Began(c, server, 0, fallback)
    [] outcome = "done" -> Committed(c, Prepared(server, saved["file"], 0, c.id, fallback, drawn + 1))
    [] OTHER            -> c

\* connect to a server: use_server, then wait for the save or lock.  From a
\* connection it is DisconnectClient first.
Connect(p, server, outcome) ==
  LET c        == Released(client[p])
      fallback == [id |-> c.id, secret |-> drawn + 1]
      tried    == UsedServer(p, c, server, fallback, outcome)
      failed   == server # c.server /\ (Pending(c) \/ (p \in Natives /\ outcome # "done"))
      next     == CASE failed        -> tried
                    [] Pending(tried) -> [tried EXCEPT !.conn = "waiting"]
                    [] OTHER         -> Booting(tried)
  IN /\ c.up /\ client[p].conn \notin {"booting", "up"}
     /\ IF server # c.server /\ ~Pending(c)
        THEN IF p \in Natives
             THEN /\ outcome = "done" => ~c.unreadable
                  /\ NativeSelects(p, c, server, c.id, fallback, outcome)
             ELSE drawn' = drawn + 1 /\ UNCHANGED <<saved, tabIds>>
        ELSE outcome = "done" /\ UNCHANGED <<saved, tabIds, drawn>>
     /\ client' = [client EXCEPT ![p] = next]
     /\ requests' = requests \cup (IF failed \/ Pending(tried) THEN {} ELSE Sent(p, tried))
     /\ UNCHANGED <<registry, granted>>

\* disconnect, by the player or from the panel.
DisconnectClient(p) ==
  /\ client[p].conn # "off"
  /\ client' = [client EXCEPT ![p] = Released(client[p])]
  /\ requests' = Orphaned(p)
  /\ UNCHANGED <<registry, saved, tabIds, drawn, granted>>

\* The process ends; a tab's session storage survives a reload.
CloseProcess(p) ==
  /\ client[p].up
  /\ client' = [client EXCEPT ![p] = Closed]
  /\ requests' = Orphaned(p)
  /\ UNCHANGED <<registry, saved, tabIds, drawn, granted>>

-----------------------------------------------------------------------------
(* The panel.                                                              *)

\* A connection that was asked for begins before the next click is handled.
OpenPanel(p) ==
  /\ p \in Players
  /\ client[p].up /\ ~client[p].panel.open
  /\ client[p].conn # "asked"
  /\ client' = [client EXCEPT ![p].panel = [ClosedPanel EXCEPT !.open = TRUE]]
  /\ UNCHANGED <<registry, saved, tabIds, requests, drawn, granted>>

ClosePanel(p) ==
  /\ client[p].panel.open
  /\ client' = [client EXCEPT ![p].panel = ClosedPanel]
  /\ UNCHANGED <<registry, saved, tabIds, requests, drawn, granted>>

\* The input is edited while its id is being saved.
Edit(p, id) ==
  /\ HasInput(client[p])
  /\ client[p].panel.saving # 0
  /\ client' = [client EXCEPT ![p].panel.draft = id]
  /\ UNCHANGED <<registry, saved, tabIds, requests, drawn, granted>>

\* apply_save_request, once the edits are in: select_id of the input.
Save(p, want, join, outcome) ==
  LET c == [client[p] EXCEPT !.panel.draft = want]
      s == Prepared(c.server, saved["file"], 0, want, Selection(c), drawn + 1)
  IN /\ HasInput(c) /\ ~Pending(c) /\ ~c.unreadable
     /\ IF p \in Natives
        THEN /\ NativeSelects(p, c, c.server, want, Selection(c), outcome)
             /\ client' = [client EXCEPT ![p] =
                             IF outcome = "done" THEN Finished(Committed(c, s), join) ELSE client[p]]
        ELSE /\ outcome = "done"
             /\ client' = [client EXCEPT ![p] =
                             [Began(c, c.server, want, Selection(c)) EXCEPT
                                !.panel.saving = want, !.panel.join = join]]
             /\ UNCHANGED <<saved, tabIds, drawn>>
     /\ UNCHANGED <<registry, requests, granted>>

-----------------------------------------------------------------------------
(* The server.                                                             *)

Accepts(memory, r) ==
  IF r.id \in DOMAIN memory THEN memory[r.id] = r.secret
  ELSE Cardinality(DOMAIN memory) < MaxIdentities

\* The registry in memory is ahead of the one on disk.
MutantRegistered(reg, r) ==
  [reg EXCEPT !.memory = @ @@ (r.id :> r.secret)]

\* persist: the new file replaces the old one as a whole.
Persisted(reg, next) == [reg EXCEPT !.disk = next]

\* persist, then the insertion.
Registered(reg, r) ==
  LET next == reg.memory @@ (r.id :> r.secret)
  IN IF r.id \in DOMAIN reg.memory THEN reg ELSE [Persisted(reg, next) EXCEPT !.memory = next]

Reopened(reg) == [reg EXCEPT !.memory = reg.disk]

\* admit: verify_or_register under its lock, and the client's poll_network.
\* refused: denied, or the file could not be written.  crashed: the process
\* died before or after the rename, without an answer, and was restarted.
Admit(r, outcome) ==
  LET reg   == registry[r.server]
      up    == client[r.from]
      after == IF r.live THEN [client EXCEPT ![r.from] =
                                 IF outcome = "ok" THEN [up EXCEPT !.conn = "up"] ELSE Released(up)]
               ELSE client
  IN /\ r \in requests
     /\ outcome \in {"ok", "crashedAfter"} => Accepts(reg.memory, r)
     /\ registry' = [registry EXCEPT ![r.server] =
          CASE outcome = "ok"            -> Registered(reg, r)
            [] outcome = "crashedAfter"  -> Reopened(Registered(reg, r))
            [] outcome = "crashedBefore" -> Reopened(reg)
            [] OTHER                     -> reg]
     /\ granted' = IF outcome = "ok" THEN granted \cup {<<r.server, r.id, r.secret>>} ELSE granted
     /\ client' = after
     /\ requests' = requests \ {r}
     /\ UNCHANGED <<saved, tabIds, drawn>>

NativeOutcomes == {"done", "failed"}

IdentityNext ==
  \/ drawn + 2 <= MaxSecrets /\
       \/ \E p \in Natives, id \in Ids, want \in Ids \cup {0},
             o \in NativeOutcomes \cup {"unreadable"} : LoadNative(p, id, want, o)
       \/ \E p \in Tabs, id \in Ids : LoadTab(p, id)
  \/ drawn < MaxSecrets /\
       \/ \E p \in Tabs, o \in {"done", "unsaved", "half"} : TabSaves(p, o)
       \/ \E p \in Processes, s \in Servers, o \in NativeOutcomes :
            Cardinality(requests) < MaxRequests /\ Connect(p, s, o)
       \/ \E p \in Processes, id \in Ids, join \in BOOLEAN, o \in NativeOutcomes : Save(p, id, join, o)
  \/ \E p \in Processes : Cardinality(requests) < MaxRequests /\ Poll(p)
  \/ \E p \in Processes : DisconnectClient(p) \/ CloseProcess(p)
                          \/ OpenPanel(p) \/ ClosePanel(p)
  \/ \E p \in Processes, id \in Ids : Edit(p, id)
  \/ \E r \in requests, o \in {"ok", "refused", "crashedBefore", "crashedAfter"} : Admit(r, o)

IdentitySpec == IdentityInit /\ [][IdentityNext]_identityVars

-----------------------------------------------------------------------------

\* A claim lasts: no id of a server is ever granted to two secrets, whatever
\* crashes in between (admission.rs, verify_or_register and persist), and the
\* device that was granted an id still has its secret saved, whatever other
\* tabs and processes saved since (identity.rs, prepare_selection; netcode.md:
\* "concurrent tabs cannot replace each other's credentials").
ClaimKept ==
  \A g \in granted :
    /\ \A h \in granted : h[1] = g[1] /\ h[2] = g[2] => h[3] = g[3]
    /\ \E d \in DOMAIN saved :
         <<g[1], g[2]>> \in DOMAIN saved[d].profiles /\ saved[d].profiles[g[1], g[2]] = g[3]

\* A panel that asks for a connection has saved the id it shows, and that is
\* the id in use (ui/identity.rs, finish_pending_save: "Save your edited ID
\* before joining").
JoinsAsShown ==
  \A p \in Processes :
    client[p].conn = "asked" => client[p].id = client[p].panel.draft /\ IsReady(client[p])

\* A player stays who they are, on every device, tab and server.
IdentityKept == ClaimKept /\ JoinsAsShown
=============================================================================
