-------------------------------- MODULE Soak --------------------------------
(***************************************************************************)
(* The supervisor of a soak run (scripts/qualify-game-soak.py): it starts  *)
(* the processes, follows the trace a client appends to while the client   *)
(* writes it (TraceReader), audits every row (ClientAudit), fixes the end  *)
(* of the evidence, interrupts the processes, reads what is left and gives *)
(* a verdict.                                                              *)
(*                                                                         *)
(* One client and the server stand for all processes.  A row is two units  *)
(* long, so that half of one can be seen; it says whether the client is    *)
(* active and which incarnation of one entity's scope it holds.  A segment *)
(* holds SegmentRows rows.  The other values of a row, which are compared  *)
(* with limits one by one, are the flag sound.  Between two reads of the   *)
(* file system the client goes on.  Time is a choice, except that a live   *)
(* client must show an active row within MaxIdle polls.  Resource samples, *)
(* the interval reports, the hashes of finished segments, the clock of the *)
(* machine and the files the supervisor writes are left out.               *)
(***************************************************************************)
EXTENDS Integers, Sequences, FiniteSets
LOCAL INSTANCE FiniteSetsExt

CONSTANTS
  SegmentRows,  \* rows of a trace segment
  MaxRows,      \* bound on the rows a client writes
  MaxIdle       \* Limits.inactive_seconds, in polls

SoakAssumption == {SegmentRows, MaxRows, MaxIdle} \subseteq Nat \ {0}

VARIABLES
  written,    \* the rows of the trace, in order; the last may be half there
  half,       \* the last row is half written
  files,      \* segments that exist
  tracked,    \* the client: its stream, its scope of the entity and the newest it had
  process,    \* process -> "running", how it ended ("clean", "error", "killed") or "stuck"
  reader,     \* TraceReader
  audit,      \* ClientAudit
  stage,      \* where the supervisor is
  evidence    \* the report, and whether a process was lost before the cutoff

soakVars == <<written, half, files, tracked, process, reader, audit, stage, evidence>>

Processes == {"client", "server"}
Alive     == {"running", "stuck"}
None      == <<0, 0>>

SoakInit ==
  /\ written = <<>> /\ half = FALSE /\ files = 1
  /\ tracked = [epoch |-> 1, scope |-> None, newest |-> None]
  /\ process = [p \in Processes |-> "running"]
  /\ reader = [segment |-> 0, offset |-> 0, total |-> 0, size |-> 0, rows |-> 0, grew |-> FALSE]
  /\ audit = [epoch |-> 0, old |-> None, closed |-> FALSE, held |-> FALSE,
              active |-> FALSE, idle |-> 0, rows |-> <<>>]
  /\ stage = "monitor"
  /\ evidence = [cutoff |-> -1, lost |-> FALSE, started |-> FALSE, reached |-> FALSE,
                 stopped |-> {}, failures |-> {}, verdict |-> "none"]

\* The failures are told apart only as those of reading the trace and all others.
Failed(e, reason) == [e EXCEPT !.failures = @ \cup {reason}]

-----------------------------------------------------------------------------
(* The client, as far as its trace shows it.                                *)

\* Rows of a segment and its size in units.
SegmentOf(i) == (i - 1) \div SegmentRows
SizeOf(segment) ==
  2 * Cardinality({i \in DOMAIN written : SegmentOf(i) = segment})
  - (IF half /\ SegmentOf(Len(written)) = segment THEN 1 ELSE 0)
Visible == 2 * Len(written) - (IF half THEN 1 ELSE 0)

\* What happened to the scope since the last row: nothing, an exit, an entry, a
\* new generation, or, in a client that is wrong, the return of what it had.
Scopes ==
  {tracked.scope, None, <<tracked.newest[1] + 1, 1>>}
  \cup (IF tracked.newest # None THEN {<<tracked.newest[1], tracked.newest[2] + 1>>, tracked.newest} ELSE {})

Later(a, b) == a[1] > b[1] \/ (a[1] = b[1] /\ a[2] > b[2])

\* The client's steps matter where they fall between two reads of its files, those
\* of a process where one of them is watched; elsewhere they would only commute.  Once the run
\* has failed no row is begun and the processes end as they should.
Writing  == process["client"] \in Alive /\ stage \in {"monitor", "read", "next", "cutoff", "cleanup", "read2"}
Watching == stage \in {"monitor", "cutoff", "persist", "cleanup"} /\ evidence.failures = {}

BeginRow(active, scope, sound) ==
  /\ (active /\ sound) \/ (active # sound /\ scope = tracked.scope)
  /\ Writing
  /\ evidence.failures = {}
  /\ ~half /\ Len(written) < MaxRows /\ SegmentOf(Len(written) + 1) = files - 1
  /\ written' = Append(written, [active |-> active, epoch |-> tracked.epoch, scope |-> scope, sound |-> sound])
  /\ half' = TRUE
  /\ tracked' = [tracked EXCEPT !.scope = scope,
                                !.newest = IF Later(scope, @) THEN scope ELSE @]
  /\ UNCHANGED <<files, process, reader, audit, stage, evidence>>

\* A new stream, or a restarted match, names the scopes afresh.
Rebind ==
  /\ Writing /\ evidence.failures = {} /\ ~half
  /\ tracked.epoch = 1 /\ tracked.newest # None /\ Len(written) < MaxRows
  /\ tracked' = [epoch |-> 2, scope |-> None, newest |-> None]
  /\ UNCHANGED <<written, half, files, process, reader, audit, stage, evidence>>

EndRow ==
  /\ Writing /\ half /\ half' = FALSE
  /\ UNCHANGED <<written, files, tracked, process, reader, audit, stage, evidence>>

\* The next segment exists before the first byte of it.
Rotate ==
  /\ Writing
  /\ ~half /\ SegmentOf(Len(written) + 1) = files
  /\ files' = files + 1
  /\ UNCHANGED <<written, half, tracked, process, reader, audit, stage, evidence>>

\* A process ends by itself.
Exit(p, code) ==
  /\ process[p] = "running" /\ Watching
  /\ process' = [process EXCEPT ![p] = code]
  /\ evidence' = IF evidence.cutoff < 0 THEN [evidence EXCEPT !.lost = TRUE] ELSE evidence
  /\ UNCHANGED <<written, half, files, tracked, reader, audit, stage>>

-----------------------------------------------------------------------------
(* ClientAudit.                                                             *)

\* An incarnation that was left is taken for the same one.
MutantResurrected(a, scope) == a.old # None /\ Later(a.old, scope)

Resurrected(a, scope) ==
  a.old # None /\ (Later(a.old, scope) \/ (a.closed /\ scope = a.old))

\* The scopes of another stream are forgotten.
Bound(a, row) ==
  IF row.epoch = a.epoch THEN a
  ELSE [a EXCEPT !.epoch = row.epoch, !.old = None, !.closed = FALSE, !.held = FALSE]

\* receive for an active row: the scope it holds and the one it has left.
Tracked(a, scope) ==
  IF scope # None THEN [a EXCEPT !.old = scope, !.closed = FALSE, !.held = TRUE]
  ELSE [a EXCEPT !.closed = @ \/ a.held, !.held = FALSE]

Sound(a, row) ==
  /\ row.sound
  /\ row.active => row.epoch >= a.epoch
  /\ row.active /\ row.scope # None => ~Resurrected(Bound(a, row), row.scope)

Received(a, i) ==
  LET row == written[i]
      seen == [a EXCEPT !.rows = Append(@, i), !.active = row.active]
  IN IF row.active THEN [Tracked(Bound(seen, row), row.scope) EXCEPT !.idle = 0] ELSE seen

\* The rows from first to last, up to one that is not sound.
Audited(a, first, last) ==
  LET after[i \in (first - 1)..Max({last, first - 1})] ==
        IF i = first - 1 THEN [audit |-> a, sound |-> TRUE]
        ELSE IF ~after[i - 1].sound \/ ~Sound(after[i - 1].audit, written[i])
        THEN [after[i - 1] EXCEPT !.sound = FALSE]
        ELSE [audit |-> Received(after[i - 1].audit, i), sound |-> TRUE]
  IN after[Max({last, first - 1})]

-----------------------------------------------------------------------------
(* TraceReader.poll in the steps between which the client goes on: the size *)
(* of the segment, the bytes up to it and their rows, and the decision to   *)
(* go on with the next segment.  The stages ending in 2 are the polls of    *)
(* finish_trace.  A row is audited as it is read: a poll that fails later   *)
(* has failed the run either way.                                           *)

Draining == stage \in {"size2", "read2", "next2", "polled2"}
In(name) == stage \in {name, name \o "2"}
Go(name) == stage' = IF Draining THEN name \o "2" ELSE name

\* A failure of the monitoring leads to the cutoff, one of the drain to the verdict.
Fail(reason) ==
  /\ evidence' = Failed(evidence, reason)
  /\ stage' = IF Draining THEN "judge" ELSE "cutoff"

PollSize ==
  /\ In("size")
  /\ reader' = [reader EXCEPT !.size = SizeOf(reader.segment)]
  /\ Go("read")
  /\ UNCHANGED <<written, half, files, tracked, process, audit, evidence>>

\* finish_trace audits the rows that begin before the cutoff.
LastAudited(last) == IF Draining THEN Min({last, (evidence.cutoff + 1) \div 2}) ELSE last

\* At most the budget of a poll is read; the rows that end in it are parsed.
PollRead(bytes) ==
  /\ In("read") /\ bytes <= reader.size - reader.offset
  /\ bytes = 0 => reader.size = reader.offset
  /\ LET offset == reader.offset + bytes
         first  == reader.segment * SegmentRows + (reader.offset \div 2) + 1
         last   == reader.segment * SegmentRows + (offset \div 2)
         result == Audited(audit, first, LastAudited(last))
     IN IF last >= first /\ first # reader.rows + 1
        THEN Fail("trace") /\ UNCHANGED <<reader, audit>>
        ELSE /\ reader' = [reader EXCEPT !.offset = offset, !.total = @ + bytes,
                                         !.grew = @ \/ bytes > 0,
                                         !.rows = IF last >= first THEN last ELSE @]
             /\ audit' = result.audit
             /\ IF result.sound
                THEN Go(IF offset = reader.size THEN "next" ELSE "polled") /\ UNCHANGED evidence
                ELSE Fail("run")
  /\ UNCHANGED <<written, half, files, tracked, process>>

\* The size of the segment is not read again.
MutantUnread(r) == FALSE

\* The writer went on with the segment before it left it.
Unread(r) == SizeOf(r.segment) # r.offset

PollNext ==
  /\ In("next")
  /\ CASE files <= reader.segment + 1 -> Go("polled") /\ UNCHANGED <<reader, evidence>>
       [] files > reader.segment + 1 /\ Unread(reader) -> Go("size") /\ UNCHANGED <<reader, evidence>>
       [] OTHER ->
            IF reader.offset % 2 = 1 THEN Fail("trace") /\ UNCHANGED reader
            ELSE /\ reader' = [reader EXCEPT !.segment = @ + 1, !.offset = 0]
                 /\ Go("size") /\ UNCHANGED evidence
  /\ UNCHANGED <<written, half, files, tracked, process, audit>>

Polling == [reader EXCEPT !.grew = FALSE]

-----------------------------------------------------------------------------
(* supervise.                                                               *)

Exited == {p \in Processes : process[p] # "running"}

\* One turn of the loop: the processes, then a poll or, before it is due, none.
Monitor(due) ==
  /\ stage = "monitor"
  /\ IF Exited # {} THEN Fail("run") /\ UNCHANGED reader
     ELSE stage' = (IF due THEN "size" ELSE "deadline") /\ reader' = Polling /\ UNCHANGED evidence
  /\ UNCHANGED <<written, half, files, tracked, process, audit>>

\* check_liveness.
Halted(a) == a.idle >= MaxIdle

\* The rest of the turn: the start of the measurement, the liveness checks.
\* egress: the server's own samples are fresh.
Check(egress) ==
  /\ stage = "polled"
  /\ LET started == evidence.started \/ (audit.active /\ egress)
     IN /\ audit' = [audit EXCEPT !.idle = Min({@ + 1, MaxIdle + 1})]
        /\ IF started /\ (Halted(audit) \/ ~egress) THEN Fail("run")
           ELSE stage' = "deadline" /\ evidence' = [evidence EXCEPT !.started = started]
  /\ UNCHANGED <<written, half, files, tracked, process, reader>>

Deadline(reached) ==
  /\ stage = "deadline" /\ (reached => evidence.started)
  /\ stage' = IF reached THEN "cutoff" ELSE "monitor"
  /\ evidence' = [evidence EXCEPT !.reached = reached]
  /\ UNCHANGED <<written, half, files, tracked, process, reader, audit>>

\* The startup limit, the resource checks and the operator can end any turn.
Abandon ==
  /\ stage = "monitor" /\ Fail("run")
  /\ UNCHANGED <<written, half, files, tracked, process, reader, audit>>

\* measurement_cutoff, and then the processes.
Cutoff ==
  /\ stage = "cutoff" /\ stage' = "persist"
  /\ evidence' = [evidence EXCEPT !.cutoff = Visible]
  /\ UNCHANGED <<written, half, files, tracked, process, reader, audit>>

Persist ==
  /\ stage = "persist" /\ stage' = "cleanup"
  /\ evidence' = IF Exited = {} THEN evidence
                 ELSE [Failed(evidence, "run") EXCEPT !.cutoff = reader.total]
  /\ UNCHANGED <<written, half, files, tracked, process, reader, audit>>

\* cleanup of one process: it ends on the interrupt or is killed; if neither
\* stops it, it is stuck and runs on.
Cleanup(p, code) ==
  /\ stage = "cleanup" /\ p \notin evidence.stopped
  /\ p = "client" => "server" \in evidence.stopped
  /\ code # "clean" => evidence.failures = {}
  /\ process' = [process EXCEPT ![p] = IF @ = "running" THEN code ELSE @]
  /\ evidence' = [evidence EXCEPT !.stopped = @ \cup {p}]
  /\ stage' = IF evidence'.stopped = Processes THEN "size2" ELSE stage
  /\ reader' = Polling
  /\ UNCHANGED <<written, half, files, tracked, audit>>

\* finish_trace polls until nothing is left; finish refuses a truncated row and
\* an empty trace.
Drained ==
  /\ stage = "polled2"
  /\ IF reader.grew THEN stage' = "size2" /\ reader' = Polling /\ UNCHANGED evidence
     ELSE /\ stage' = "judge" /\ UNCHANGED reader
          /\ evidence' = IF reader.offset % 2 = 1 \/ reader.rows = 0 THEN Failed(evidence, "trace") ELSE evidence
  /\ UNCHANGED <<written, half, files, tracked, process, audit>>

\* fresh: sources, egress and the thresholds of a full run; saved: the final
\* report could be written.
Judge(fresh, saved) ==
  /\ stage = "judge" /\ stage' = "verdict"
  /\ evidence' = [evidence EXCEPT !.verdict =
       IF /\ evidence.reached /\ evidence.failures = {} /\ fresh /\ saved
          /\ audit.active
          /\ \A p \in Processes : process[p] = "clean"
       THEN "passed" ELSE "failed"]
  /\ UNCHANGED <<written, half, files, tracked, process, reader, audit>>

SoakNext ==
  \/ \E active, sound \in BOOLEAN, scope \in Scopes : BeginRow(active, scope, sound)
  \/ Rebind \/ EndRow \/ Rotate
  \/ \E p \in Processes : Exit(p, IF p = "client" THEN "clean" ELSE "error")
  \/ \E due \in BOOLEAN : Monitor(due)
  \/ PollSize
  \/ \E bytes \in {0, 1, reader.size - reader.offset} : PollRead(bytes)
  \/ PollNext
  \/ \E egress \in BOOLEAN : Check(egress)
  \/ \E reached \in BOOLEAN : Deadline(reached)
  \/ Abandon \/ Cutoff \/ Persist
  \/ \E p \in Processes, code \in {"clean", "killed", "stuck"} : Cleanup(p, code)
  \/ Drained
  \/ \E fresh, saved \in BOOLEAN : Judge(fresh, saved)

SoakSpec == SoakInit /\ [][SoakNext]_soakVars

-----------------------------------------------------------------------------
\* What the audited rows must show: every value within its limits, and no
\* incarnation of the scope after a newer one or after it was left.
Holding  == {i \in DOMAIN audit.rows : written[i].active /\ written[i].scope # None}
Coherent ==
  /\ \A i \in DOMAIN audit.rows : written[i].sound
  /\ \A i, j \in Holding : (i < j /\ written[i].epoch = written[j].epoch) =>
       /\ ~Later(written[i].scope, written[j].scope)
       /\ written[i].scope = written[j].scope =>
            \A k \in i..j : written[k].active => written[k].scope # None

\* A soak run passes only on evidence that holds: every row that had begun by the
\* cutoff was audited once and in order, and none after it; the rows are coherent and
\* the last shows an active client; every process lived to the cutoff and stopped on
\* its interrupt.  And the reader blames a trace only when it was left with half a row
\* or without one, however its reads fall between the writes;
\* a client that could not be stopped may still be writing (TraceReader.poll,
\* finish_trace, supervise).
SoakVerdict ==
  /\ evidence.verdict = "passed" =>
       /\ audit.rows = [i \in 1..((evidence.cutoff + 1) \div 2) |-> i]
       /\ Coherent
       /\ audit.rows # <<>> /\ written[Len(audit.rows)].active
       /\ ~evidence.lost
       /\ \A p \in Processes : process[p] = "clean"
  /\ "trace" \in evidence.failures =>
       /\ evidence.stopped = Processes
       /\ half \/ written = <<>> \/ process["client"] = "stuck"
=============================================================================
