--------------------------- MODULE CollabSession ----------------------------
(***************************************************************************)
(* A collaboration session: its tables and its event log (sqlite-collab),  *)
(* the handlers that change them (collab.ts), and the bridge that copies   *)
(* what a worker does with a session's job into the log (the pump of       *)
(* collab-hub.ts).  Every handler is synchronous and every change of the   *)
(* tables is one transaction with its events, so handlers are actions;     *)
(* only the process can die between two transactions of one handler.       *)
(***************************************************************************)
EXTENDS Integers, Sequences, FiniteSets

CONSTANTS
  User,
  Owner,           \* who creates the session
  Admin,           \* users that administer the tenant, while they have a role
  NoUser,          \* the driver of a session nobody drives
  Job, Doc,
  Notes,           \* DEFAULT_NOTES_DOC_ID
  MaxEvents,       \* MAX_SESSION_EVENTS
  MaxOverflow,     \* events past it that complete a run (1000 in the code)
  MaxParticipants, \* MAX_PARTICIPANTS_PER_SESSION
  MaxDocs,         \* MAX_DOCS_PER_SESSION
  MaxChunks,       \* bound on the output of a job
  MaxCrashes       \* bound on the crashes of the server

ASSUME SessionAssumption ==
  /\ Owner \in User /\ Admin \subseteq User /\ NoUser \notin User
  /\ IsFiniteSet(User) /\ Notes \in Doc
  /\ {MaxEvents, MaxOverflow, MaxChunks, MaxCrashes} \subseteq Nat
  /\ {MaxParticipants, MaxDocs} \subseteq Nat \ {0}

VARIABLES
  operators, \* users with at least the operator role
  job,       \* the jobs table, as far as the pump reads it
  status, driver, \* the session row; its seq is the length of log
  present,   \* participants that have not left
  run,       \* collab_runs
  docs,      \* collab_docs: the revision of each document
  log,       \* collab_events
  tracked,   \* in memory: the runs the hub follows
  up,        \* the server process is up
  crashes    \* how often it died

sessionVars == <<operators, job, status, driver, present, run, docs, log, tracked, up, crashes>>
tables      == <<status, driver, present, run, docs, log>>

Terminal == {"succeeded", "failed", "canceled"}
Open(j)  == run[j].status \in {"queued", "running"}

\* activeRun.  Mutant: it is not asked for.
NeverBusy == FALSE
Busy == \E j \in Job : Open(j)

\* A document, run or user set grows by a key.
With(f, x, y) == [z \in DOMAIN f \cup {x} |-> IF z = x THEN y ELSE f[z]]

----------------------------------------------------------------------------
\* Events, and the state they add up to.

Event(type, actor)         == [type |-> type, actor |-> actor]
Handed(by, to)             == [type |-> "control.handover", actor |-> by, to |-> to]
RunEvent(type, j)          == [type |-> type, job |-> j]
OutputEvent(j, n)          == [type |-> "command.output", job |-> j, chunk |-> n]
FinishedEvent(j, outcome)  == [type |-> "command.finished", job |-> j, status |-> outcome]
DocEvent(type, u, d, rev)  == [type |-> type, actor |-> u, doc |-> d, rev |-> rev]

\* The state of a client that has none.
NoView == [seq |-> 0, status |-> "none", driver |-> NoUser, present |-> {},
           runs |-> <<>>, docs |-> <<>>]

\* applyCollabEvent, for the next event of the log.
applyCollabEvent(v, e) ==
  LET next == [v EXCEPT !.seq = @ + 1]
  IN  CASE e.type = "session.started"    -> [next EXCEPT !.status = "active", !.driver = e.actor]
        [] e.type = "participant.joined" -> [next EXCEPT !.present = @ \cup {e.actor}]
        [] e.type = "participant.left"   -> [next EXCEPT !.present = @ \ {e.actor}]
        [] e.type = "control.handover"   -> [next EXCEPT !.driver = e.to]
        [] e.type = "command.queued"     ->
             [next EXCEPT !.runs = With(@, e.job, [status |-> "queued", output |-> <<>>])]
        [] e.type = "command.started"    -> [next EXCEPT !.runs[e.job].status = "running"]
        [] e.type = "command.output"     -> [next EXCEPT !.runs[e.job].output = Append(@, e.chunk)]
        [] e.type = "command.finished"   -> [next EXCEPT !.runs[e.job].status = e.status]
        [] e.type \in {"doc.created", "doc.op"} -> [next EXCEPT !.docs = With(@, e.doc, e.rev)]
        [] e.type = "session.ended"      -> [next EXCEPT !.status = "ended"]

\* foldCollabEvents.
Fold(events) ==
  LET view[n \in 0 .. Len(events)] ==
        IF n = 0 THEN NoView ELSE applyCollabEvent(view[n - 1], events[n])
  IN  view[Len(events)]

\* The chunks that a log holds of a job, in the order of the log.
AddOutput(output, e, j) ==
  IF e.type = "command.output" /\ e.job = j THEN Append(output, e.chunk) ELSE output
OutputIn(events, j) ==
  LET output[n \in 0 .. Len(events)] ==
        IF n = 0 THEN <<>> ELSE AddOutput(output[n - 1], events[n], j)
  IN  output[Len(events)]

OutputOf(j) == OutputIn(log, j)

\* snapshot: the tables, and the output from the log.
Snapshot ==
  [seq |-> Len(log), status |-> status, driver |-> driver, present |-> present,
   runs |-> [j \in {k \in Job : run[k].status # "none"} |->
               [status |-> run[j].status, output |-> OutputOf(j)]],
   docs |-> docs]

\* The last sequence number append gives out.
Capacity(overflow) == IF overflow THEN MaxEvents + MaxOverflow ELSE MaxEvents

\* append, as many times as there are events; LOG_FULL rolls all of it back.
AppendAll(events) ==
  /\ Len(log \o events) <= Capacity(FALSE)
  /\ log' = log \o events

----------------------------------------------------------------------------
\* Sessions.  Every handler needs the operator role (resolveSession).

Acts(u) == up /\ u \in operators
ActsIn(u) == Acts(u) /\ status = "active"
IsAdmin(u) == u \in operators /\ u \in Admin

CreateSession ==
  /\ Acts(Owner) /\ status = "none"
  /\ AppendAll(<<Event("session.started", Owner), DocEvent("doc.created", Owner, Notes, 0),
                 Event("participant.joined", Owner)>>)
  /\ status' = "active" /\ driver' = Owner /\ present' = {Owner}
  /\ docs' = With(docs, Notes, 0)
  /\ UNCHANGED <<operators, job, run, tracked, up, crashes>>

JoinSession(u) ==
  /\ ActsIn(u)
  /\ u \notin present
  /\ Cardinality(present) < MaxParticipants
  /\ AppendAll(<<Event("participant.joined", u)>>)
  /\ present' = present \cup {u}
  /\ UNCHANGED <<operators, job, status, driver, run, docs, tracked, up, crashes>>

\* The driver after the driver u left: the owner, if present.
Successor(u) == IF Owner # u /\ Owner \in present THEN Owner ELSE NoUser

\* Mutant: the change of control is not logged.
LeaveSessionQuietly(u) ==
  /\ ActsIn(u)
  /\ u \in present
  /\ present' = present \ {u}
  /\ driver' = IF driver = u THEN Successor(u) ELSE driver
  /\ AppendAll(<<Event("participant.left", u)>>)
  /\ UNCHANGED <<operators, job, status, run, docs, tracked, up, crashes>>

LeaveSession(u) ==
  /\ ActsIn(u)
  /\ u \in present
  /\ present' = present \ {u}
  /\ IF driver = u
     THEN /\ driver' = Successor(u)
          /\ AppendAll(<<Event("participant.left", u), Handed(u, Successor(u))>>)
     ELSE AppendAll(<<Event("participant.left", u)>>) /\ UNCHANGED driver
  /\ UNCHANGED <<operators, job, status, run, docs, tracked, up, crashes>>

\* Mutant: the owner may give control to somebody who is not there.
HandoverToAnyone(by, to) ==
  /\ ActsIn(by)
  /\ by \in {driver, Owner}
  /\ to \in operators
  /\ AppendAll(<<Handed(by, to)>>)
  /\ driver' = to
  /\ UNCHANGED <<operators, job, status, present, run, docs, tracked, up, crashes>>

HandoverControl(by, to) ==
  /\ ActsIn(by)
  /\ by \in {driver, Owner}
  /\ to \in present /\ to \in operators
  /\ AppendAll(<<Handed(by, to)>>)
  /\ driver' = to
  /\ UNCHANGED <<operators, job, status, present, run, docs, tracked, up, crashes>>

CanEnd(u) ==
  /\ ActsIn(u)
  /\ u = Owner \/ IsAdmin(u)
  /\ ~Busy
  /\ Len(log) < Capacity(FALSE)

EndSession(u) ==
  /\ CanEnd(u)
  /\ AppendAll(<<Event("session.ended", u)>>)
  /\ status' = "ended"
  /\ UNCHANGED <<operators, job, driver, present, run, docs, tracked, up, crashes>>

CreateDoc(u, d) ==
  /\ ActsIn(u) /\ u \in present
  /\ d \notin DOMAIN docs
  /\ Cardinality(DOMAIN docs) < MaxDocs
  /\ AppendAll(<<DocEvent("doc.created", u, d, 0)>>)
  /\ docs' = With(docs, d, 0)
  /\ UNCHANGED <<operators, job, status, driver, present, run, tracked, up, crashes>>

\* submitDocOp commits an edit (SharedDoc has the edit itself).
SubmitDocOp(u, d) ==
  /\ ActsIn(u) /\ u \in present
  /\ d \in DOMAIN docs
  /\ AppendAll(<<DocEvent("doc.op", u, d, docs[d] + 1)>>)
  /\ docs' = With(docs, d, docs[d] + 1)
  /\ UNCHANGED <<operators, job, status, driver, present, run, tracked, up, crashes>>

----------------------------------------------------------------------------
\* Runs.

QueuedJob  == [status |-> "queued", chunks |-> 0, started |-> FALSE]
MayRun(u, j) == ActsIn(u) /\ driver = u /\ ~Busy /\ job[j].status = "none"

\* runCommand: the job is queued, then linked to the session; when the log has no
\* room for it, it is canceled again.
RunCommand(u, j) ==
  /\ MayRun(u, j)
  /\ IF Len(log) < Capacity(FALSE)
     THEN /\ AppendAll(<<RunEvent("command.queued", j)>>)
          /\ job' = [job EXCEPT ![j] = QueuedJob]
          /\ run' = [run EXCEPT ![j] = [status |-> "queued", forwarded |-> 0]]
          /\ tracked' = tracked \cup {j}
     ELSE /\ job' = [job EXCEPT ![j] = [QueuedJob EXCEPT !.status = "canceled"]]
          /\ UNCHANGED <<log, run, tracked>>
  /\ UNCHANGED <<operators, status, driver, present, docs, up, crashes>>

Die == /\ crashes < MaxCrashes
       /\ crashes' = crashes + 1
       /\ up' = FALSE
       /\ tracked' = {}

\* The process dies when the job is queued and not yet linked.
RunCutShort(u, j) ==
  /\ MayRun(u, j)
  /\ Die
  /\ job' = [job EXCEPT ![j] = QueuedJob]
  /\ UNCHANGED <<operators, tables>>

\* The events a run is behind its job.
Starts(j, row) ==
  IF run[j].status = "queued" /\ (row.status = "running" \/ row.started)
  THEN <<RunEvent("command.started", j)>> ELSE <<>>
Ends(j, row) ==
  IF row.status \in Terminal THEN <<FinishedEvent(j, row.status)>> ELSE <<>>

\* readOutput.  Mutant: from the first chunk on.
UnreadFromTheStart(j, row) == [i \in 1 .. row.chunks |-> OutputEvent(j, i)]
Unread(j, row) ==
  [i \in 1 .. row.chunks - run[j].forwarded |-> OutputEvent(j, run[j].forwarded + i)]

\* The events of a sequence that the log has room for, after another sequence.
Fitting(events, before) ==
  [i \in {k \in DOMAIN events : Len(log \o before) + k <= Capacity(FALSE)} |-> events[i]]

\* pumpRun: bring a run's events up to date with its job, in one transaction.
\* Output that finds the log full is skipped for good; the start and the end of
\* the run may overflow the log.
Pump(j, row) ==
  LET started == Starts(j, row)
      events  == started \o Fitting(Unread(j, row), started) \o Ends(j, row)
  IN  IF Open(j) /\ row.status # "queued" /\ Len(log \o events) <= Capacity(TRUE)
      THEN /\ log' = log \o events
           /\ run' = [run EXCEPT ![j] = [status |-> row.status, forwarded |-> row.chunks]]
      ELSE UNCHANGED <<log, run>>

\* The hub stops following a run that has ended.
Followed(jobs) == tracked' = {j \in jobs : run'[j].status \in {"queued", "running"}}

\* What may happen to a job: a claim, a refusal, output, an end, a cancel.
JobSteps(row) ==
  CASE row.status = "queued"  -> {[row EXCEPT !.status = "running", !.started = TRUE],
                                  [row EXCEPT !.status = "failed"],
                                  [row EXCEPT !.status = "canceled"]}
    [] row.status = "running" -> {[row EXCEPT !.status = s] : s \in Terminal} \cup
                                 {[row EXCEPT !.chunks = n] :
                                    n \in {row.chunks + 1} \cap (1 .. MaxChunks)}
    [] OTHER -> {}

\* The handlers of the job queue tell the event bus what they did, and the hub
\* pumps; the pump may fail (its error is logged).
JobActivity(j) ==
  /\ up
  /\ \E row \in JobSteps(job[j]) :
       /\ job' = [job EXCEPT ![j] = row]
       /\ \/ j \in tracked /\ Pump(j, row) /\ Followed(tracked)
          \/ UNCHANGED <<log, run, tracked>>
  /\ UNCHANGED <<operators, status, driver, present, docs, up, crashes>>

\* The poller.
Poll(j) ==
  /\ up /\ j \in tracked
  /\ Pump(j, job[j])
  /\ Followed(tracked)
  /\ UNCHANGED <<operators, job, status, driver, present, docs, up, crashes>>

Crash ==
  /\ up
  /\ Die
  /\ UNCHANGED <<operators, job, tables>>

\* Mutant: open runs are not picked up.
RestartAfresh ==
  /\ ~up
  /\ up' = TRUE
  /\ UNCHANGED <<operators, job, tables, tracked, crashes>>

\* recover: follow and pump the open run (there is one at most).
Restart ==
  /\ ~up
  /\ up' = TRUE
  /\ IF Busy THEN \E j \in Job : Open(j) /\ Pump(j, job[j]) /\ Followed({j})
     ELSE UNCHANGED <<run, log, tracked>>
  /\ UNCHANGED <<operators, job, status, driver, present, docs, crashes>>

\* setMember and removeMember (also from the administration CLI, when the server
\* is down).
SetMember(u) ==
  /\ operators' = IF u \in operators THEN operators \ {u} ELSE operators \cup {u}
  /\ UNCHANGED <<job, tables, tracked, up, crashes>>

----------------------------------------------------------------------------

SessionInit ==
  /\ operators = User
  /\ job = [j \in Job |-> [status |-> "none", chunks |-> 0, started |-> FALSE]]
  /\ status = "none" /\ driver = NoUser
  /\ present = {}
  /\ run = [j \in Job |-> [status |-> "none", forwarded |-> 0]]
  /\ docs = <<>>
  /\ log = <<>>
  /\ tracked = {}
  /\ up = TRUE /\ crashes = 0

SessionNext ==
  \/ CreateSession
  \/ \E u \in User : \/ JoinSession(u)
                     \/ LeaveSession(u)
                     \/ EndSession(u)
                     \/ SetMember(u)
                     \/ \E to \in User : HandoverControl(u, to)
                     \/ \E d \in Doc : CreateDoc(u, d) \/ SubmitDocOp(u, d)
                     \/ \E j \in Job : RunCommand(u, j) \/ RunCutShort(u, j)
  \/ \E j \in Job : JobActivity(j) \/ Poll(j)
  \/ Crash
  \/ Restart

\* The server is started again, and the poller runs for as long as it is up.
SessionFairness == WF_sessionVars(Restart) /\ \A j \in Job : WF_sessionVars(Poll(j))

SessionSpec == SessionInit /\ [][SessionNext]_sessionVars
FairSessionSpec == SessionSpec /\ SessionFairness

----------------------------------------------------------------------------
\* Properties.

JobRow   == [status : {"none", "queued", "running"} \cup Terminal,
             chunks : 0 .. MaxChunks, started : BOOLEAN]
RunRow   == [status : {"none", "queued", "running"} \cup Terminal, forwarded : 0 .. MaxChunks]

\* Types, the limits on participants, documents and the log, and that the hub
\* follows nothing but open runs, and only while it is up.
SessionTypeOK ==
  /\ operators \subseteq User
  /\ job \in [Job -> JobRow] /\ run \in [Job -> RunRow]
  /\ status \in {"none", "active", "ended"}
  /\ driver \in User \cup {NoUser}
  /\ present \subseteq User /\ Cardinality(present) <= MaxParticipants
  /\ DOMAIN docs \subseteq Doc /\ Cardinality(DOMAIN docs) <= MaxDocs
  /\ Len(log) <= Capacity(TRUE)
  /\ up \in BOOLEAN /\ crashes \in 0 .. MaxCrashes
  /\ tracked \subseteq {j \in Job : up /\ Open(j)}

\* What a late joiner is given, the tables and the output found in the log, is
\* what everybody else has who applied the events one by one: "snapshot(seq N) ==
\* fold(events 1..N)" (sqlite-collab.ts:30, docs/control-plane.md section 14.2).
SnapshotIsFold == status # "none" => Snapshot = Fold(log)

\* Control is nobody's or of a user who has a seat, whoever left, came back, was
\* demoted or was given it (leave, handover).
DriverHasSeat == driver \in present \cup {NoUser}

\* "Only one command is queued/running per session", although the check is made
\* against runs, which follow their jobs with a delay and across restarts
\* (runCommand, activeRun).
OneRunAtATime == \A i, j \in Job : Open(i) /\ Open(j) => i = j

\* The state of a session makes sense, between any two requests and wake-ups.
SessionConsistent == SessionTypeOK /\ DriverHasSeat /\ OneRunAtATime

\* An ended session is "read-only history": nothing is open that could still
\* write to it, and nothing does (end, pumpRun).
EndedIsFinal == [][status = "ended" => UNCHANGED tables /\ \A j \in Job : ~Open(j)]_sessionVars

\* The output of a run is logged once and in order, through every mix of wake-up,
\* poll, failed pump and restart, and all that was forwarded is there unless the
\* log was full (pumpRun: "Idempotent and safe to call at any time").
OutputLoggedOnce ==
  \A j \in Job :
    /\ OutputOf(j) = [i \in 1 .. Len(OutputOf(j)) |-> i]
    /\ Len(OutputOf(j)) # run[j].forwarded => Len(log) >= Capacity(FALSE)

\* A run whose job is over is seen to be over, whatever wake-ups were missed,
\* however often the server died and even if the log is full: the console does
\* not show it as running for ever (pumpRun, recover, the poller).
FinishedJobIsLogged ==
  \A j \in Job : Open(j) /\ job[j].status \in Terminal ~> ~Open(j)
=============================================================================
