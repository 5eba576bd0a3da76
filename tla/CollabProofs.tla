---------------------------- MODULE CollabProofs ----------------------------
(***************************************************************************)
(* Proofs about CollabSession and CollabStream, for every set of users,    *)
(* jobs, documents and readers, and every limit.                           *)
(*                                                                         *)
(* First the session: its types and limits; that its tables are the fold   *)
(* of its log (the reducer of the clients computes the same as the         *)
(* server's transactions); that the output of a run is logged once, in     *)
(* order, over crashes of the hub.  Then the streams.  They only read a    *)
(* session, so what was proved of one holds of one that streams its        *)
(* events; and what a client has read, together with what is on its way to *)
(* it, is the log.                                                         *)
(***************************************************************************)
EXTENDS CollabStream, InductionLemmas, FiniteSetTheorems, SequenceTheorems, TLAPS

UserEvents == [type : {"session.started", "participant.joined", "participant.left",
                       "session.ended"},
               actor : User]
HandoverEvents == [type : {"control.handover"}, actor : User, to : User \cup {NoUser}]
RunEvents      == [type : {"command.queued", "command.started"}, job : Job]
OutputEvents   == [type : {"command.output"}, job : Job, chunk : Int]
FinishedEvents == [type : {"command.finished"}, job : Job, status : Terminal]
DocEvents      == [type : {"doc.created", "doc.op"}, actor : User, doc : Doc, rev : Nat]
LogEvent == UserEvents \cup HandoverEvents \cup RunEvents \cup OutputEvents \cup
            FinishedEvents \cup DocEvents

\* The inductive invariant: the type invariant by subject, and that the log is a
\* sequence, that the documents are finitely many, with numbers for revisions, and
\* that a session that is not there has none.
PeopleOK ==
  /\ operators \subseteq User
  /\ status \in {"none", "active", "ended"}
  /\ driver \in User \cup {NoUser}
  /\ present \subseteq User /\ Cardinality(present) <= MaxParticipants
DocsOK ==
  /\ DOMAIN docs \subseteq Doc /\ Cardinality(DOMAIN docs) <= MaxDocs
  /\ docs \in [DOMAIN docs -> Nat] /\ IsFiniteSet(DOMAIN docs)
  /\ status = "none" => DOMAIN docs = {}
LogOK == log \in Seq(LogEvent) /\ Len(log) <= Capacity(TRUE)
RunsOK ==
  /\ job \in [Job -> JobRow] /\ run \in [Job -> RunRow]
  /\ up \in BOOLEAN /\ crashes \in 0 .. MaxCrashes
  /\ tracked \subseteq {j \in Job : up /\ Open(j)}
SessionInv == PeopleOK /\ DocsOK /\ LogOK /\ RunsOK

----------------------------------------------------------------------------
\* The log.

LEMMA LimitType ==
  /\ MaxEvents \in Nat /\ MaxOverflow \in Nat /\ MaxChunks \in Nat /\ MaxCrashes \in Nat
  /\ MaxParticipants \in Nat \ {0} /\ MaxDocs \in Nat \ {0}
BY SessionAssumption

LEMMA UserEventType ==
  ASSUME NEW u \in User,
         NEW t \in {"session.started", "participant.joined", "participant.left", "session.ended"}
  PROVE  Event(t, u) \in LogEvent
<1>1. Event(t, u) \in UserEvents
  BY DEF Event, UserEvents
<1>2. QED
  BY <1>1 DEF LogEvent

LEMMA HandoverType ==
  ASSUME NEW u \in User, NEW to \in User \cup {NoUser}
  PROVE  Handed(u, to) \in LogEvent
<1>1. Handed(u, to) \in HandoverEvents
  BY DEF Handed, HandoverEvents
<1>2. QED
  BY <1>1 DEF LogEvent

LEMMA DocEventType ==
  ASSUME NEW u \in User, NEW d \in Doc, NEW r \in Nat, NEW t \in {"doc.created", "doc.op"}
  PROVE  DocEvent(t, u, d, r) \in LogEvent
<1>1. DocEvent(t, u, d, r) \in DocEvents
  BY DEF DocEvent, DocEvents
<1>2. QED
  BY <1>1 DEF LogEvent

LEMMA RunEventTypes ==
  ASSUME NEW j \in Job
  PROVE  /\ RunEvent("command.queued", j) \in LogEvent
         /\ RunEvent("command.started", j) \in LogEvent
         /\ \A n \in Int : OutputEvent(j, n) \in LogEvent
         /\ \A s \in Terminal : FinishedEvent(j, s) \in LogEvent
<1>1. /\ RunEvent("command.queued", j) \in RunEvents
      /\ RunEvent("command.started", j) \in RunEvents
  BY DEF RunEvent, RunEvents
<1>2. \A n \in Int : OutputEvent(j, n) \in OutputEvents
  BY DEF OutputEvent, OutputEvents
<1>3. \A s \in Terminal : FinishedEvent(j, s) \in FinishedEvents
  BY DEF FinishedEvent, FinishedEvents
<1>4. QED
  BY <1>1, <1>2, <1>3 DEF LogEvent

\* A transaction that is not rolled back leaves a log within its limit.
LEMMA AppendAllType ==
  ASSUME log \in Seq(LogEvent), NEW events \in Seq(LogEvent), AppendAll(events)
  PROVE  log' \in Seq(LogEvent) /\ Len(log') <= Capacity(TRUE)
<1>1. Len(log \o events) <= MaxEvents /\ log' = log \o events
  BY DEF AppendAll, Capacity
<1>2. log \o events \in Seq(LogEvent) /\ Len(log \o events) \in Nat
  BY ConcatProperties
<1>3. Len(log') <= MaxEvents + MaxOverflow
  BY <1>1, <1>2, LimitType
<1>4. QED
  BY <1>1, <1>2, <1>3 DEF Capacity

LEMMA AppendOne ==
  ASSUME LogOK, NEW e \in LogEvent, AppendAll(<<e>>)
  PROVE  LogOK'
<1>1. <<e>> \in Seq(LogEvent)
  OBVIOUS
<1>2. QED
  BY <1>1, AppendAllType DEF LogOK

LEMMA AppendTwo ==
  ASSUME LogOK, NEW e \in LogEvent, NEW f \in LogEvent, AppendAll(<<e, f>>)
  PROVE  LogOK'
<1>1. <<e, f>> \in Seq(LogEvent)
  OBVIOUS
<1>2. QED
  BY <1>1, AppendAllType DEF LogOK

LEMMA AppendThree ==
  ASSUME LogOK, NEW e \in LogEvent, NEW f \in LogEvent, NEW g \in LogEvent,
         AppendAll(<<e, f, g>>)
  PROVE  LogOK'
<1>1. <<e, f, g>> \in Seq(LogEvent)
  OBVIOUS
<1>2. QED
  BY <1>1, AppendAllType DEF LogOK

LEMMA RoomForPrefix ==
  ASSUME NEW len \in Nat, NEW used \in Nat, NEW max \in Nat
  PROVE  \E n \in 0 .. len : \A k \in 1 .. len : used + k <= max <=> k <= n
<1>1. CASE max < used
  BY <1>1
<1>2. CASE used <= max /\ max - used < len
  <2>1. \A k \in 1 .. len : used + k <= max <=> k <= max - used
    BY <1>2
  <2>2. max - used \in 0 .. len
    BY <1>2
  <2>3. QED
    BY <2>1, <2>2
<1>3. CASE used <= max /\ len <= max - used
  BY <1>3
<1>4. QED
  BY <1>1, <1>2, <1>3

\* The events the log has room for are the first ones.
LEMMA FittingType ==
  ASSUME log \in Seq(LogEvent), NEW events \in Seq(LogEvent), NEW before \in Seq(LogEvent)
  PROVE  Fitting(events, before) \in Seq(LogEvent)
<1>1. /\ Len(log \o before) \in Nat
      /\ Len(events) \in Nat /\ DOMAIN events = 1 .. Len(events)
  BY ConcatProperties, LenProperties
<1>2. PICK n \in 0 .. Len(events) :
        \A k \in 1 .. Len(events) : Len(log \o before) + k <= MaxEvents <=> k <= n
  BY <1>1, LimitType, RoomForPrefix
<1>3. \A i \in 1 .. n : events[i] \in LogEvent
  BY <1>1, ElementOfSeq
<1>4. [i \in 1 .. n |-> events[i]] \in Seq(LogEvent)
  BY <1>1, <1>3
<1>5. {k \in DOMAIN events : Len(log \o before) + k <= MaxEvents} = 1 .. n
  BY <1>1, <1>2
<1>6. QED
  BY <1>4, <1>5 DEF Fitting, Capacity

LEMMA PumpedType ==
  ASSUME log \in Seq(LogEvent), run \in [Job -> RunRow],
         NEW j \in Job, NEW row \in JobRow
  PROVE  /\ Starts(j, row) \in Seq(LogEvent)
         /\ Fitting(Unread(j, row), Starts(j, row)) \in Seq(LogEvent)
         /\ Ends(j, row) \in Seq(LogEvent)
<1>1. Starts(j, row) \in Seq(LogEvent)
  BY RunEventTypes DEF Starts
<1>2. Ends(j, row) \in Seq(LogEvent)
  BY RunEventTypes DEF Ends
<1>3. Unread(j, row) \in Seq(LogEvent)
  <2>1. PICK n \in Int, m \in Int : m = run[j].forwarded /\ n = row.chunks - m
    BY SessionAssumption DEF JobRow, RunRow
  <2>2. \A i \in 1 .. n : OutputEvent(j, m + i) \in LogEvent
    BY RunEventTypes
  <2>3. Unread(j, row) = [i \in 1 .. n |-> OutputEvent(j, m + i)]
    BY <2>1 DEF Unread
  <2>4. CASE n < 0
    BY <2>3, <2>4
  <2>5. CASE n >= 0
    BY <2>2, <2>3, <2>5
  <2>6. QED
    BY <2>4, <2>5
<1>4. QED
  BY <1>1, <1>2, <1>3, FittingType

\* A pump leaves a log within its larger limit, and touches no run but its own and
\* nothing when that has ended.
LEMMA PumpType ==
  ASSUME log \in Seq(LogEvent), Len(log) <= Capacity(TRUE), run \in [Job -> RunRow],
         NEW j \in Job, NEW row \in JobRow, Pump(j, row)
  PROVE  /\ log' \in Seq(LogEvent) /\ Len(log') <= Capacity(TRUE)
         /\ run' \in [Job -> RunRow]
         /\ \A i \in Job : i # j => run'[i] = run[i]
         /\ ~Open(j) => UNCHANGED <<log, run>>
<1> DEFINE events == Starts(j, row) \o Fitting(Unread(j, row), Starts(j, row)) \o Ends(j, row)
<1>1. log \o events \in Seq(LogEvent)
  <2>1. Starts(j, row) \o Fitting(Unread(j, row), Starts(j, row)) \in Seq(LogEvent)
    BY PumpedType
  <2>2. QED
    BY <2>1, PumpedType
<1>2. CASE Open(j) /\ row.status # "queued" /\ Len(log \o events) <= Capacity(TRUE)
  <2>1. log' = log \o events
    BY <1>2 DEF Pump
  <2>2. run' = [run EXCEPT ![j] = [status |-> row.status, forwarded |-> row.chunks]]
    BY <1>2 DEF Pump
  <2>3. [status |-> row.status, forwarded |-> row.chunks] \in RunRow
    BY DEF JobRow, RunRow
  <2>4. run' \in [Job -> RunRow] /\ \A i \in Job : i # j => run'[i] = run[i]
    BY <2>2, <2>3
  <2>5. QED
    BY <1>1, <1>2, <2>1, <2>4
<1>3. CASE ~(Open(j) /\ row.status # "queued" /\ Len(log \o events) <= Capacity(TRUE))
  <2>1. log' = log /\ run' = run
    BY <1>3 DEF Pump
  <2>2. QED
    BY <2>1
<1>4. QED
  BY <1>2, <1>3

----------------------------------------------------------------------------
\* Documents.

LEMMA GrownType ==
  ASSUME DocsOK, NEW d \in Doc, NEW r \in Nat,
         d \in DOMAIN docs \/ Cardinality(DOMAIN docs) < MaxDocs,
         docs' = With(docs, d, r), status' # "none"
  PROVE  DocsOK'
<1>1. DOMAIN docs' = DOMAIN docs \cup {d}
  BY DEF With
<1>2. docs' \in [DOMAIN docs' -> Nat]
  BY DEF With, DocsOK
<1>3. /\ IsFiniteSet(DOMAIN docs')
      /\ Cardinality(DOMAIN docs') =
           IF d \in DOMAIN docs THEN Cardinality(DOMAIN docs) ELSE Cardinality(DOMAIN docs) + 1
  BY <1>1, FS_AddElement DEF DocsOK
<1>4. Cardinality(DOMAIN docs) \in Nat /\ MaxDocs \in Nat
  BY SessionAssumption, FS_CardinalityType DEF DocsOK
<1>5. Cardinality(DOMAIN docs') <= MaxDocs
  BY <1>3, <1>4 DEF DocsOK
<1>6. QED
  BY <1>1, <1>2, <1>3, <1>5 DEF DocsOK

----------------------------------------------------------------------------
\* The session's actions.

LEMMA PresentFinite ==
  ASSUME PeopleOK
  PROVE  IsFiniteSet(present) /\ Cardinality(present) \in Nat /\ MaxParticipants \in Nat
BY SessionAssumption, FS_Subset, FS_CardinalityType DEF PeopleOK

LEMMA CreateSessionInv ==
  ASSUME SessionInv, CreateSession
  PROVE  SessionInv'
<1>1. PeopleOK'
  <2>1. Cardinality({Owner}) = 1
    BY FS_Singleton
  <2>2. QED
    BY <2>1, SessionAssumption DEF SessionInv, PeopleOK, CreateSession
<1>2. DocsOK'
  <2>1. Cardinality(DOMAIN docs) < MaxDocs
    BY FS_EmptySet, SessionAssumption DEF SessionInv, DocsOK, CreateSession
  <2>2. QED
    BY <2>1, GrownType, SessionAssumption DEF SessionInv, CreateSession
<1>3. LogOK'
  <2>1. /\ Event("session.started", Owner) \in LogEvent
        /\ DocEvent("doc.created", Owner, Notes, 0) \in LogEvent
        /\ Event("participant.joined", Owner) \in LogEvent
    BY UserEventType, DocEventType, SessionAssumption
  <2>2. QED
    BY <2>1, AppendThree DEF SessionInv, CreateSession
<1>4. RunsOK'
  BY DEF SessionInv, RunsOK, CreateSession, Open
<1>5. QED
  BY <1>1, <1>2, <1>3, <1>4 DEF SessionInv

LEMMA JoinSessionInv ==
  ASSUME SessionInv, NEW u \in User, JoinSession(u)
  PROVE  SessionInv'
<1>1. PeopleOK'
  <2>1. Cardinality(present') = Cardinality(present) + 1
    BY PresentFinite, FS_AddElement DEF SessionInv, JoinSession
  <2>2. QED
    BY <2>1, PresentFinite DEF SessionInv, PeopleOK, JoinSession
<1>2. DocsOK'
  BY DEF SessionInv, DocsOK, JoinSession
<1>3. LogOK'
  BY UserEventType, AppendOne DEF SessionInv, JoinSession
<1>4. RunsOK'
  BY DEF SessionInv, RunsOK, JoinSession, Open
<1>5. QED
  BY <1>1, <1>2, <1>3, <1>4 DEF SessionInv

LEMMA LeaveSessionInv ==
  ASSUME SessionInv, NEW u \in User, LeaveSession(u)
  PROVE  SessionInv'
<1>1. Successor(u) \in User \cup {NoUser}
  BY SessionAssumption DEF Successor
<1>2. PeopleOK'
  <2>1. Cardinality(present') <= Cardinality(present) /\ Cardinality(present') \in Nat
    BY PresentFinite, FS_Subset, FS_CardinalityType DEF SessionInv, LeaveSession
  <2>2. driver' \in User \cup {NoUser}
    BY <1>1 DEF SessionInv, PeopleOK, LeaveSession
  <2>3. QED
    BY <2>1, <2>2, PresentFinite DEF SessionInv, PeopleOK, LeaveSession
<1>3. DocsOK'
  BY DEF SessionInv, DocsOK, LeaveSession
<1>4. LogOK'
  <2>1. Event("participant.left", u) \in LogEvent /\ Handed(u, Successor(u)) \in LogEvent
    BY <1>1, UserEventType, HandoverType
  <2>2. CASE driver = u
    BY <2>1, <2>2, AppendTwo DEF SessionInv, LeaveSession
  <2>3. CASE driver # u
    BY <2>1, <2>3, AppendOne DEF SessionInv, LeaveSession
  <2>4. QED
    BY <2>2, <2>3
<1>5. RunsOK'
  BY DEF SessionInv, RunsOK, LeaveSession, Open
<1>6. QED
  BY <1>2, <1>3, <1>4, <1>5 DEF SessionInv

LEMMA HandoverControlInv ==
  ASSUME SessionInv, NEW by \in User, NEW to \in User,
         HandoverControl(by, to)
  PROVE  SessionInv'
<1>1. PeopleOK'
  BY DEF SessionInv, PeopleOK, HandoverControl
<1>2. DocsOK'
  BY DEF SessionInv, DocsOK, HandoverControl
<1>3. LogOK'
  BY HandoverType, AppendOne DEF SessionInv, HandoverControl
<1>4. RunsOK'
  BY DEF SessionInv, RunsOK, HandoverControl, Open
<1>5. QED
  BY <1>1, <1>2, <1>3, <1>4 DEF SessionInv

LEMMA EndSessionInv ==
  ASSUME SessionInv, NEW u \in User, EndSession(u)
  PROVE  SessionInv'
<1>1. PeopleOK'
  BY DEF SessionInv, PeopleOK, EndSession
<1>2. DocsOK'
  BY DEF SessionInv, DocsOK, EndSession
<1>3. LogOK'
  BY UserEventType, AppendOne DEF SessionInv, EndSession
<1>4. RunsOK'
  BY DEF SessionInv, RunsOK, EndSession, Open
<1>5. QED
  BY <1>1, <1>2, <1>3, <1>4 DEF SessionInv

LEMMA CreateDocInv ==
  ASSUME SessionInv, NEW u \in User, NEW d \in Doc, CreateDoc(u, d)
  PROVE  SessionInv'
<1>1. PeopleOK'
  BY DEF SessionInv, PeopleOK, CreateDoc
<1>2. DocsOK'
  BY GrownType DEF SessionInv, CreateDoc, ActsIn
<1>3. LogOK'
  BY DocEventType, AppendOne DEF SessionInv, CreateDoc
<1>4. RunsOK'
  BY DEF SessionInv, RunsOK, CreateDoc, Open
<1>5. QED
  BY <1>1, <1>2, <1>3, <1>4 DEF SessionInv

LEMMA SubmitDocOpInv ==
  ASSUME SessionInv, NEW u \in User, NEW d \in Doc, SubmitDocOp(u, d)
  PROVE  SessionInv'
<1>1. PeopleOK'
  BY DEF SessionInv, PeopleOK, SubmitDocOp
<1>2. docs[d] + 1 \in Nat
  BY DEF SessionInv, DocsOK, SubmitDocOp
<1>3. DocsOK'
  BY <1>2, GrownType DEF SessionInv, SubmitDocOp, ActsIn
<1>4. LogOK'
  BY <1>2, DocEventType, AppendOne DEF SessionInv, SubmitDocOp
<1>5. RunsOK'
  BY DEF SessionInv, RunsOK, SubmitDocOp, Open
<1>6. QED
  BY <1>1, <1>3, <1>4, <1>5 DEF SessionInv

LEMMA SetMemberInv ==
  ASSUME SessionInv, NEW u \in User, SetMember(u)
  PROVE  SessionInv'
BY DEF SessionInv, PeopleOK, DocsOK, LogOK, RunsOK, SetMember, Open, tables

----------------------------------------------------------------------------
\* The actions on runs.

LEMMA RowTypes ==
  /\ QueuedJob \in JobRow
  /\ [QueuedJob EXCEPT !.status = "canceled"] \in JobRow
  /\ \A row \in JobRow : JobSteps(row) \subseteq JobRow
<1>1. QueuedJob \in JobRow /\ [QueuedJob EXCEPT !.status = "canceled"] \in JobRow
  <2>1. 0 \in 0 .. MaxChunks
    BY LimitType
  <2>2. QueuedJob \in JobRow
    BY <2>1 DEF QueuedJob, JobRow
  <2>3. QED
    BY <2>2 DEF JobRow, Terminal
<1>2. ASSUME NEW row \in JobRow, NEW next \in JobSteps(row)
      PROVE  next \in JobRow
  <2>1. CASE row.status = "queued"
    BY <1>2, <2>1 DEF JobSteps, JobRow, Terminal
  <2>2. CASE row.status = "running"
    <3>1. CASE \E s \in Terminal : next = [row EXCEPT !.status = s]
      BY <3>1 DEF JobRow
    <3>2. CASE \E n \in 1 .. MaxChunks : next = [row EXCEPT !.chunks = n]
      BY <3>2, LimitType DEF JobRow
    <3>3. QED
      BY <1>2, <2>2, <3>1, <3>2 DEF JobSteps
  <2>3. CASE row.status \notin {"queued", "running"}
    BY <1>2, <2>3 DEF JobSteps
  <2>4. QED
    BY <2>1, <2>2, <2>3
<1>3. QED
  BY <1>1, <1>2

LEMMA RunCommandInv ==
  ASSUME SessionInv, NEW u \in User, NEW j \in Job, RunCommand(u, j)
  PROVE  SessionInv'
<1>1. PeopleOK' /\ DocsOK'
  BY DEF SessionInv, PeopleOK, DocsOK, RunCommand
<1>2. CASE Len(log) < Capacity(FALSE)
  <2>1. LogOK'
    BY <1>2, RunEventTypes, AppendOne DEF SessionInv, RunCommand
  <2>2. [status |-> "queued", forwarded |-> 0] \in RunRow
    BY LimitType DEF RunRow
  <2>3. /\ job' = [job EXCEPT ![j] = QueuedJob]
        /\ run' = [run EXCEPT ![j] = [status |-> "queued", forwarded |-> 0]]
        /\ tracked' = tracked \cup {j}
        /\ up /\ UNCHANGED <<up, crashes>>
    BY <1>2 DEF RunCommand, MayRun, ActsIn, Acts
  <2>4. RunsOK'
    BY <2>2, <2>3, RowTypes DEF SessionInv, RunsOK, Open
  <2>5. QED
    BY <1>1, <2>1, <2>4 DEF SessionInv
<1>3. CASE ~(Len(log) < Capacity(FALSE))
  <2>1. LogOK'
    BY <1>3 DEF SessionInv, LogOK, RunCommand
  <2>2. RunsOK'
    BY <1>3, RowTypes DEF SessionInv, RunsOK, RunCommand, Open
  <2>3. QED
    BY <1>1, <2>1, <2>2 DEF SessionInv
<1>4. QED
  BY <1>2, <1>3

LEMMA DieInv ==
  ASSUME SessionInv, Die, UNCHANGED <<operators, tables>>, job' \in [Job -> JobRow]
  PROVE  SessionInv'
<1>1. PeopleOK' /\ DocsOK' /\ LogOK'
  BY DEF SessionInv, PeopleOK, DocsOK, LogOK, tables
<1>2. RunsOK'
  <2>1. crashes' \in 0 .. MaxCrashes
    BY LimitType DEF SessionInv, RunsOK, Die
  <2>2. up' \in BOOLEAN /\ tracked' = {}
    BY DEF Die
  <2>3. run' \in [Job -> RunRow]
    BY DEF SessionInv, RunsOK, tables
  <2>4. QED
    BY <2>1, <2>2, <2>3 DEF RunsOK
<1>3. QED
  BY <1>1, <1>2 DEF SessionInv

LEMMA CrashInv ==
  ASSUME SessionInv, Crash \/ \E u \in User, j \in Job : RunCutShort(u, j)
  PROVE  SessionInv'
<1>1. Die /\ UNCHANGED <<operators, tables>>
  BY DEF Crash, RunCutShort
<1>2. job' \in [Job -> JobRow]
  BY RowTypes DEF SessionInv, RunsOK, Crash, RunCutShort
<1>3. QED
  BY <1>1, <1>2, DieInv

\* The steps of a pump, whoever started it.
LEMMA PumpInv ==
  ASSUME SessionInv, NEW j \in Job, NEW row \in JobRow, NEW jobs \in SUBSET Job,
         Pump(j, row), Followed(jobs),
         \A i \in jobs : i = j \/ Open(i), \A i \in jobs : up',
         job' \in [Job -> JobRow], up' \in BOOLEAN,
         UNCHANGED <<operators, status, driver, present, docs, crashes>>
  PROVE  SessionInv'
<1>1. PeopleOK' /\ DocsOK'
  BY DEF SessionInv, PeopleOK, DocsOK
<1>2. LogOK' /\ run' \in [Job -> RunRow]
  BY PumpType DEF SessionInv, LogOK, RunsOK
<1>3. RunsOK'
  BY <1>2 DEF SessionInv, RunsOK, Followed, Open
<1>4. QED
  BY <1>1, <1>2, <1>3 DEF SessionInv

LEMMA JobActivityInv ==
  ASSUME SessionInv, NEW j \in Job, JobActivity(j)
  PROVE  SessionInv'
<1>1. PICK row \in JobSteps(job[j]) :
        /\ job' = [job EXCEPT ![j] = row]
        /\ \/ j \in tracked /\ Pump(j, row) /\ Followed(tracked)
           \/ UNCHANGED <<log, run, tracked>>
  BY DEF JobActivity
<1>2. row \in JobRow /\ job' \in [Job -> JobRow]
  BY <1>1, RowTypes DEF SessionInv, RunsOK
<1>3. up /\ UNCHANGED <<operators, status, driver, present, docs, up, crashes>>
  BY DEF JobActivity
<1>4. CASE Pump(j, row) /\ Followed(tracked)
  <2>1. tracked \in SUBSET Job /\ \A i \in tracked : Open(i)
    BY DEF SessionInv, RunsOK
  <2>2. QED
    BY <1>2, <1>3, <1>4, <2>1, PumpInv DEF SessionInv, RunsOK
<1>5. CASE UNCHANGED <<log, run, tracked>>
  BY <1>2, <1>3, <1>5 DEF SessionInv, PeopleOK, DocsOK, LogOK, RunsOK, Open
<1>6. QED
  BY <1>1, <1>4, <1>5

LEMMA PollInv ==
  ASSUME SessionInv, NEW j \in Job, Poll(j)
  PROVE  SessionInv'
<1>1. job[j] \in JobRow /\ tracked \in SUBSET Job /\ \A i \in tracked : Open(i)
  BY DEF SessionInv, RunsOK
<1>2. QED
  BY <1>1, PumpInv DEF SessionInv, RunsOK, Poll

LEMMA RestartInv ==
  ASSUME SessionInv, Restart
  PROVE  SessionInv'
<1>1. CASE Busy
  <2>1. PICK j \in Job : Open(j) /\ Pump(j, job[j]) /\ Followed({j})
    BY <1>1 DEF Restart
  <2>2. job[j] \in JobRow
    BY DEF SessionInv, RunsOK
  <2>3. QED
    BY <2>1, <2>2, PumpInv DEF SessionInv, RunsOK, Restart
<1>2. CASE ~Busy
  BY <1>2 DEF SessionInv, PeopleOK, DocsOK, LogOK, RunsOK, Restart, Open
<1>3. QED
  BY <1>1, <1>2

----------------------------------------------------------------------------
\* Types.

LEMMA NextSessionInv ==
  ASSUME SessionInv, [SessionNext]_sessionVars
  PROVE  SessionInv'
<1>1. CASE UNCHANGED sessionVars
  BY <1>1 DEF SessionInv, PeopleOK, DocsOK, LogOK, RunsOK, Open, sessionVars
<1>2. CASE SessionNext
  BY <1>2, CreateSessionInv, JoinSessionInv, LeaveSessionInv, EndSessionInv, SetMemberInv,
     HandoverControlInv, CreateDocInv, SubmitDocOpInv, RunCommandInv, JobActivityInv,
     PollInv, CrashInv, RestartInv DEF SessionNext
<1>3. QED
  BY <1>1, <1>2

LEMMA InitSessionInv == SessionInit => SessionInv
<1> SUFFICES ASSUME SessionInit
             PROVE  SessionInv
  OBVIOUS
<1>1. Cardinality({}) = 0 /\ IsFiniteSet({}) /\ DOMAIN docs = {}
  BY FS_EmptySet DEF SessionInit
<1>2. PeopleOK
  BY <1>1, LimitType DEF SessionInit, PeopleOK
<1>3. DocsOK
  BY <1>1, LimitType DEF SessionInit, DocsOK
<1>4. log \in Seq(LogEvent) /\ Len(log) = 0
  BY EmptySeq DEF SessionInit
<1>5. LogOK
  BY <1>4, LimitType DEF LogOK, Capacity
<1>6. RunsOK
  <2>1. 0 \in 0 .. MaxChunks /\ 0 \in 0 .. MaxCrashes
    BY LimitType
  <2>2. [status |-> "none", chunks |-> 0, started |-> FALSE] \in JobRow
    BY <2>1 DEF JobRow
  <2>3. [status |-> "none", forwarded |-> 0] \in RunRow
    BY <2>1 DEF RunRow
  <2>4. QED
    BY <2>1, <2>2, <2>3 DEF SessionInit, RunsOK
<1>7. QED
  BY <1>2, <1>3, <1>5, <1>6 DEF SessionInv

LEMMA SessionIsTyped == SessionSpec => []SessionInv
BY InitSessionInv, NextSessionInv, PTL DEF SessionSpec

\* The tables keep their types and the limits on participants, documents and the
\* log hold, and the hub follows nothing but open runs, whatever crashes.
THEOREM SessionTypes == SessionSpec => []SessionTypeOK
<1>1. SessionInv => SessionTypeOK
  BY DEF SessionInv, PeopleOK, DocsOK, LogOK, RunsOK, SessionTypeOK
<1>2. QED
  BY <1>1, SessionIsTyped, PTL

----------------------------------------------------------------------------
\* Control.

LEMMA NextDriverHasSeat ==
  ASSUME DriverHasSeat, [SessionNext]_sessionVars
  PROVE  DriverHasSeat'
<1>1. CASE CreateSession
  BY <1>1 DEF CreateSession, DriverHasSeat
<1>2. ASSUME NEW u \in User, JoinSession(u)
      PROVE  DriverHasSeat'
  BY <1>2 DEF JoinSession, DriverHasSeat
<1>3. ASSUME NEW u \in User, LeaveSession(u)
      PROVE  DriverHasSeat'
  <2>1. CASE driver = u
    BY <1>3, <2>1 DEF LeaveSession, Successor, DriverHasSeat
  <2>2. CASE driver # u
    BY <1>3, <2>2 DEF LeaveSession, DriverHasSeat
  <2>3. QED
    BY <2>1, <2>2
<1>4. ASSUME NEW by \in User, NEW to \in User,
         HandoverControl(by, to)
      PROVE  DriverHasSeat'
  BY <1>4 DEF HandoverControl, DriverHasSeat
<1>5. CASE UNCHANGED <<driver, present>>
  BY <1>5 DEF DriverHasSeat
<1>6. QED
  BY <1>1, <1>2, <1>3, <1>4, <1>5 DEF SessionNext, sessionVars, EndSession, SetMember,
     CreateDoc, SubmitDocOp, RunCommand, RunCutShort, JobActivity, Poll, Crash, Restart, tables

\* Whoever leaves, comes back, is demoted or is given control, control is with a
\* user who has a seat, or with nobody.
THEOREM DriverIsPresent == SessionSpec => []DriverHasSeat
<1>1. SessionInit => DriverHasSeat
  BY DEF SessionInit, DriverHasSeat
<1>2. QED
  BY <1>1, NextDriverHasSeat, PTL DEF SessionSpec

----------------------------------------------------------------------------
\* Runs.

\* An ended session has no open run.  It is part of what makes EndedIsFinal hold.
EndedIsIdle == status = "ended" => \A j \in Job : ~Open(j)

\* A step starts a run only where there was none, and in an active session; it
\* ends a session only when there is no run.
LEMMA StepsOfRuns ==
  ASSUME SessionInv, [SessionNext]_sessionVars
  PROVE  /\ \/ \A j \in Job : Open(j)' => Open(j)
            \/ status = "active" /\ status' = "active" /\ ~Busy
               /\ \E j \in Job : \A i \in Job : Open(i)' => i = j
         /\ status' = "ended" /\ status # "ended" => ~Busy /\ UNCHANGED run
<1>1. ASSUME NEW u \in User, NEW j \in Job, RunCommand(u, j)
      PROVE  /\ status = "active" /\ status' = "active" /\ ~Busy
             /\ \A i \in Job : Open(i)' => i = j
  BY <1>1 DEF SessionInv, RunsOK, RunCommand, MayRun, ActsIn, Busy, Open
<1>2. ASSUME NEW j \in Job, NEW row \in JobRow, Pump(j, row)
      PROVE  \A i \in Job : Open(i)' => Open(i)
  BY <1>2, PumpType DEF SessionInv, LogOK, RunsOK, Open
<1>3. ASSUME NEW j \in Job, JobActivity(j)
      PROVE  \A i \in Job : Open(i)' => Open(i)
  <2>1. PICK row \in JobSteps(job[j]) : Pump(j, row) \/ UNCHANGED run
    BY <1>3 DEF JobActivity
  <2>2. row \in JobRow
    BY <2>1, RowTypes DEF SessionInv, RunsOK
  <2>3. QED
    BY <1>2, <2>1, <2>2 DEF Open
<1>4. ASSUME NEW j \in Job, Poll(j)
      PROVE  \A i \in Job : Open(i)' => Open(i)
  BY <1>2, <1>4 DEF Poll, SessionInv, RunsOK
<1>5. ASSUME Restart
      PROVE  \A i \in Job : Open(i)' => Open(i)
  <2>1. ASSUME NEW j \in Job, Pump(j, job[j])
        PROVE  \A i \in Job : Open(i)' => Open(i)
    BY <1>2, <2>1 DEF SessionInv, RunsOK
  <2>2. QED
    BY <1>5, <2>1 DEF Restart, Open
<1>6. ASSUME NEW u \in User, EndSession(u)
      PROVE  ~Busy /\ UNCHANGED run
  BY <1>6 DEF EndSession, CanEnd
<1>7. UNCHANGED run => \A i \in Job : Open(i)' => Open(i)
  BY DEF Open
<1>8. CASE UNCHANGED <<run, status>>
  BY <1>7, <1>8
<1>9. CASE \E j \in Job : JobActivity(j) \/ Poll(j)
  BY <1>3, <1>4, <1>9 DEF JobActivity, Poll
<1>10. CASE Restart
  BY <1>5, <1>10 DEF Restart
<1>11. CASE \E u \in User : EndSession(u) \/ \E j \in Job : RunCommand(u, j)
  BY <1>1, <1>6, <1>7, <1>11
<1>12. CASE CreateSession
  BY <1>7, <1>12 DEF CreateSession
<1>13. QED
  BY <1>8, <1>9, <1>10, <1>11, <1>12 DEF SessionNext, sessionVars, JoinSession, LeaveSession,
     SetMember, HandoverControl, CreateDoc, SubmitDocOp, RunCutShort, Crash, tables

LEMMA NextOneRun ==
  ASSUME SessionInv, OneRunAtATime, [SessionNext]_sessionVars
  PROVE  OneRunAtATime'
BY StepsOfRuns DEF OneRunAtATime

\* A session has one command queued or running at most, although runs follow their
\* jobs with a delay and the server may die at any moment.
THEOREM SessionRunsOne == SessionSpec => []OneRunAtATime
<1>1. SessionInit => OneRunAtATime
  BY DEF SessionInit, OneRunAtATime, Open
<1>2. QED
  BY <1>1, NextOneRun, SessionIsTyped, PTL DEF SessionSpec

\* The tables, control and the runs of a session make sense together, for any
\* number of users, jobs and documents.
THEOREM SessionStaysConsistent == SessionSpec => []SessionConsistent
<1>1. SessionTypeOK /\ DriverHasSeat /\ OneRunAtATime => SessionConsistent
  BY DEF SessionConsistent
<1>2. QED
  BY <1>1, SessionTypes, DriverIsPresent, SessionRunsOne, PTL

LEMMA NextEndedIsIdle ==
  ASSUME SessionInv, EndedIsIdle, [SessionNext]_sessionVars
  PROVE  EndedIsIdle'
BY StepsOfRuns DEF EndedIsIdle, Busy, Open

LEMMA IdleSessionStays ==
  ASSUME SessionInv, EndedIsIdle, status = "ended", [SessionNext]_sessionVars
  PROVE  UNCHANGED tables /\ \A j \in Job : ~Open(j)
<1>1. \A j \in Job : ~Open(j)
  BY DEF EndedIsIdle
<1>2. ASSUME NEW j \in Job, NEW row, Pump(j, row)
      PROVE  UNCHANGED <<log, run>>
  BY <1>1, <1>2 DEF Pump
<1>3. CASE \E j \in Job : JobActivity(j) \/ Poll(j)
  BY <1>1, <1>2, <1>3 DEF JobActivity, Poll, tables
<1>4. CASE Restart
  BY <1>1, <1>2, <1>4 DEF Restart, tables
<1>5. CASE Crash \/ (\E u \in User : SetMember(u) \/ \E j \in Job : RunCutShort(u, j))
  BY <1>1, <1>5 DEF Crash, SetMember, RunCutShort
<1>6. CASE UNCHANGED sessionVars
  BY <1>1, <1>6 DEF sessionVars, tables
<1>7. QED
  BY <1>1, <1>3, <1>4, <1>5, <1>6 DEF SessionNext, CreateSession, JoinSession, LeaveSession,
     EndSession, CanEnd, HandoverControl, CreateDoc, SubmitDocOp, RunCommand, MayRun, ActsIn

LEMMA SessionStaysIdle == SessionSpec => []EndedIsIdle
<1>1. SessionInit => EndedIsIdle
  BY DEF SessionInit, EndedIsIdle
<1>2. QED
  BY <1>1, NextEndedIsIdle, SessionIsTyped, PTL DEF SessionSpec

\* No wake-up, poll, restart or call changes a session that has ended.
THEOREM EndedSessionIsFinal == SessionSpec => EndedIsFinal
<1>1. SessionInv /\ EndedIsIdle /\ [SessionNext]_sessionVars =>
        [status = "ended" => UNCHANGED tables /\ \A j \in Job : ~Open(j)]_sessionVars
  BY IdleSessionStays
<1>2. QED
  BY <1>1, SessionStaysIdle, SessionIsTyped, PTL DEF SessionSpec, EndedIsFinal

----------------------------------------------------------------------------
\* The folds over the log.

\* The graph of the recursive function of Fold, and of that of OutputIn, up to n.
ViewsTo(events, n, view) ==
  view = [m \in 0 .. n |->
           IF m = 0 THEN NoView ELSE applyCollabEvent(view[m - 1], events[m])]
OutputsTo(events, j, n, output) ==
  output = [m \in 0 .. n |->
             IF m = 0 THEN <<>> ELSE AddOutput(output[m - 1], events[m], j)]

LEMMA ViewsExist ==
  ASSUME NEW events
  PROVE  \A n \in Nat : \E view : ViewsTo(events, n, view)
<1> DEFINE S == {n \in Nat : \E view : ViewsTo(events, n, view)}
<1>1. 0 \in S
  <2> DEFINE view == [m \in 0 .. 0 |-> NoView]
  <2>1. ViewsTo(events, 0, view)
    BY DEF ViewsTo
  <2>2. QED
    BY <2>1
<1>2. ASSUME NEW n \in Nat, n \in S
      PROVE  n + 1 \in S
  <2>1. PICK view : ViewsTo(events, n, view)
    BY <1>2
  <2> DEFINE longer == [m \in 0 .. n + 1 |->
               IF m <= n THEN view[m] ELSE applyCollabEvent(view[n], events[n + 1])]
  <2>2. ViewsTo(events, n + 1, longer)
    BY <2>1 DEF ViewsTo
  <2>3. QED
    BY <2>2
<1>3. \A n \in Nat : n \in S
  <2> HIDE DEF S
  <2>1. QED
    BY <1>1, <1>2, NatSetInduction
<1>4. QED
  BY <1>3

\* Logs that begin alike have the same views there.
LEMMA ViewsAgree ==
  ASSUME NEW n \in Nat, NEW m \in Nat, n <= m,
         NEW short, NEW long, \A k \in 1 .. n : short[k] = long[k],
         NEW v, NEW w, ViewsTo(short, n, v), ViewsTo(long, m, w)
  PROVE  \A k \in 0 .. n : v[k] = w[k]
<1> DEFINE S == {k \in Nat : k <= n => v[k] = w[k]}
<1>1. 0 \in S
  BY DEF ViewsTo
<1>2. ASSUME NEW k \in Nat, k \in S
      PROVE  k + 1 \in S
  BY <1>2 DEF ViewsTo
<1>3. \A k \in Nat : k \in S
  <2> HIDE DEF S
  <2>1. QED
    BY <1>1, <1>2, NatSetInduction
<1>4. QED
  BY <1>3

LEMMA FoldIsView ==
  ASSUME NEW events, Len(events) \in Nat
  PROVE  \E view : ViewsTo(events, Len(events), view) /\ Fold(events) = view[Len(events)]
<1> DEFINE view == CHOOSE v : ViewsTo(events, Len(events), v)
<1>1. ViewsTo(events, Len(events), view)
  BY ViewsExist
<1>2. Fold(events) = view[Len(events)]
  BY DEF Fold, ViewsTo
<1>3. QED
  BY <1>1, <1>2

LEMMA FoldEmpty == Fold(<<>>) = NoView
<1>1. PICK view : ViewsTo(<<>>, 0, view) /\ Fold(<<>>) = view[0]
  BY FoldIsView
<1>2. QED
  BY <1>1 DEF ViewsTo

LEMMA FoldAppend ==
  ASSUME NEW E, NEW events \in Seq(E), NEW e \in E
  PROVE  Fold(Append(events, e)) = applyCollabEvent(Fold(events), e)
<1> DEFINE n    == Len(events)
           more == Append(events, e)
<1>1. /\ n \in Nat /\ Len(more) = n + 1 /\ more[n + 1] = e
      /\ \A k \in 1 .. n : events[k] = more[k]
  OBVIOUS
<1>2. PICK v : ViewsTo(events, n, v) /\ Fold(events) = v[n]
  BY <1>1, FoldIsView
<1> HIDE DEF n, more
<1>3. PICK w : ViewsTo(more, n + 1, w) /\ Fold(more) = w[n + 1]
  BY <1>1, FoldIsView
<1>4. w[n + 1] = applyCollabEvent(w[n], more[n + 1])
  BY <1>1, <1>3 DEF ViewsTo
<1>5. v[n] = w[n]
  BY <1>1, <1>2, <1>3, ViewsAgree
<1>6. QED
  BY <1>1, <1>2, <1>3, <1>4, <1>5 DEF more

LEMMA OutputsExist ==
  ASSUME NEW events, NEW j
  PROVE  \A n \in Nat : \E output : OutputsTo(events, j, n, output)
<1> DEFINE S == {n \in Nat : \E output : OutputsTo(events, j, n, output)}
<1>1. 0 \in S
  <2> DEFINE output == [m \in 0 .. 0 |-> <<>>]
  <2>1. OutputsTo(events, j, 0, output)
    BY DEF OutputsTo
  <2>2. QED
    BY <2>1
<1>2. ASSUME NEW n \in Nat, n \in S
      PROVE  n + 1 \in S
  <2>1. PICK output : OutputsTo(events, j, n, output)
    BY <1>2
  <2> DEFINE longer == [m \in 0 .. n + 1 |->
               IF m <= n THEN output[m] ELSE AddOutput(output[n], events[n + 1], j)]
  <2>2. OutputsTo(events, j, n + 1, longer)
    BY <2>1 DEF OutputsTo
  <2>3. QED
    BY <2>2
<1>3. \A n \in Nat : n \in S
  <2> HIDE DEF S
  <2>1. QED
    BY <1>1, <1>2, NatSetInduction
<1>4. QED
  BY <1>3

LEMMA OutputsAgree ==
  ASSUME NEW n \in Nat, NEW m \in Nat, n <= m,
         NEW short, NEW long, \A k \in 1 .. n : short[k] = long[k],
         NEW j, NEW v, NEW w, OutputsTo(short, j, n, v), OutputsTo(long, j, m, w)
  PROVE  v[n] = w[n]
<1> DEFINE S == {k \in Nat : k <= n => v[k] = w[k]}
<1>1. 0 \in S
  BY DEF OutputsTo
<1>2. ASSUME NEW k \in Nat, k \in S
      PROVE  k + 1 \in S
  BY <1>2 DEF OutputsTo
<1>3. \A k \in Nat : k \in S
  <2> HIDE DEF S
  <2>1. QED
    BY <1>1, <1>2, NatSetInduction
<1>4. QED
  BY <1>3

LEMMA OutputIsFold ==
  ASSUME NEW events, Len(events) \in Nat, NEW j
  PROVE  \E output : /\ OutputsTo(events, j, Len(events), output)
                     /\ OutputIn(events, j) = output[Len(events)]
<1> DEFINE output == CHOOSE v : OutputsTo(events, j, Len(events), v)
<1>1. OutputsTo(events, j, Len(events), output)
  BY OutputsExist
<1>2. OutputIn(events, j) = output[Len(events)]
  BY DEF OutputIn, OutputsTo
<1>3. QED
  BY <1>1, <1>2

LEMMA OutputEmpty ==
  ASSUME NEW j
  PROVE  OutputIn(<<>>, j) = <<>>
<1>1. PICK output : OutputsTo(<<>>, j, 0, output) /\ OutputIn(<<>>, j) = output[0]
  BY OutputIsFold
<1>2. QED
  BY <1>1 DEF OutputsTo

LEMMA OutputAppend ==
  ASSUME NEW E, NEW events \in Seq(E), NEW e \in E, NEW j
  PROVE  OutputIn(Append(events, e), j) = AddOutput(OutputIn(events, j), e, j)
<1> DEFINE n    == Len(events)
           more == Append(events, e)
<1>1. /\ n \in Nat /\ Len(more) = n + 1 /\ more[n + 1] = e
      /\ \A k \in 1 .. n : events[k] = more[k]
  OBVIOUS
<1>2. PICK v : OutputsTo(events, j, n, v) /\ OutputIn(events, j) = v[n]
  BY <1>1, OutputIsFold
<1> HIDE DEF n, more
<1>3. PICK w : OutputsTo(more, j, n + 1, w) /\ OutputIn(more, j) = w[n + 1]
  BY <1>1, OutputIsFold
<1>4. w[n + 1] = AddOutput(w[n], more[n + 1], j)
  BY <1>1, <1>3 DEF OutputsTo
<1>5. v[n] = w[n]
  BY <1>1, <1>2, <1>3, OutputsAgree
<1>6. QED
  BY <1>1, <1>2, <1>3, <1>4, <1>5 DEF more

----------------------------------------------------------------------------
\* What each event does to what a client sees, and what it stands for in the tables.

\* The snapshot of given tables and log.
ViewOf(l, st, dr, pr, rn, dc) ==
  [seq |-> Len(l), status |-> st, driver |-> dr, present |-> pr,
   runs |-> [j \in {k \in Job : rn[k].status # "none"} |->
               [status |-> rn[j].status, output |-> OutputIn(l, j)]],
   docs |-> dc]

LEMMA OtherEventsKeepOutput ==
  ASSUME NEW l \in Seq(LogEvent), NEW e \in LogEvent, e.type # "command.output"
  PROVE  /\ Len(Append(l, e)) = Len(l) + 1
         /\ \A j \in Job : OutputIn(Append(l, e), j) = OutputIn(l, j)
BY OutputAppend DEF AddOutput

LEMMA StartedView ==
  ASSUME NEW l \in Seq(LogEvent), NEW u \in User, 
         NEW st, NEW dr, NEW pr, NEW rn, NEW dc
  PROVE  applyCollabEvent(ViewOf(l, st, dr, pr, rn, dc), Event("session.started", u)) =
           ViewOf(Append(l, Event("session.started", u)), "active", u, pr, rn, dc)
<1>1. Event("session.started", u) \in LogEvent
  BY UserEventType
<1>2. QED
  BY <1>1, OtherEventsKeepOutput DEF ViewOf, Event, applyCollabEvent

LEMMA JoinedView ==
  ASSUME NEW l \in Seq(LogEvent), NEW u \in User, 
         NEW st, NEW dr, NEW pr, NEW rn, NEW dc
  PROVE  applyCollabEvent(ViewOf(l, st, dr, pr, rn, dc), Event("participant.joined", u)) =
           ViewOf(Append(l, Event("participant.joined", u)), st, dr, pr \cup {u}, rn, dc)
<1>1. Event("participant.joined", u) \in LogEvent
  BY UserEventType
<1>2. QED
  BY <1>1, OtherEventsKeepOutput DEF ViewOf, Event, applyCollabEvent

LEMMA LeftView ==
  ASSUME NEW l \in Seq(LogEvent), NEW u \in User, 
         NEW st, NEW dr, NEW pr, NEW rn, NEW dc
  PROVE  applyCollabEvent(ViewOf(l, st, dr, pr, rn, dc), Event("participant.left", u)) =
           ViewOf(Append(l, Event("participant.left", u)), st, dr, pr \ {u}, rn, dc)
<1>1. Event("participant.left", u) \in LogEvent
  BY UserEventType
<1>2. QED
  BY <1>1, OtherEventsKeepOutput DEF ViewOf, Event, applyCollabEvent

LEMMA HandedView ==
  ASSUME NEW l \in Seq(LogEvent), NEW u \in User, NEW to \in User \cup {NoUser},
         NEW st, NEW dr, NEW pr, NEW rn, NEW dc
  PROVE  applyCollabEvent(ViewOf(l, st, dr, pr, rn, dc), Handed(u, to)) =
           ViewOf(Append(l, Handed(u, to)), st, to, pr, rn, dc)
<1>1. Handed(u, to) \in LogEvent
  BY HandoverType
<1>2. QED
  BY <1>1, OtherEventsKeepOutput DEF ViewOf, Handed, applyCollabEvent

LEMMA EndedView ==
  ASSUME NEW l \in Seq(LogEvent), NEW u \in User, 
         NEW st, NEW dr, NEW pr, NEW rn, NEW dc
  PROVE  applyCollabEvent(ViewOf(l, st, dr, pr, rn, dc), Event("session.ended", u)) =
           ViewOf(Append(l, Event("session.ended", u)), "ended", dr, pr, rn, dc)
<1>1. Event("session.ended", u) \in LogEvent
  BY UserEventType
<1>2. QED
  BY <1>1, OtherEventsKeepOutput DEF ViewOf, Event, applyCollabEvent

LEMMA DocViews ==
  ASSUME NEW l \in Seq(LogEvent), NEW u \in User, NEW d \in Doc, NEW r \in Nat,
         NEW t \in {"doc.created", "doc.op"},
         NEW st, NEW dr, NEW pr, NEW rn, NEW dc
  PROVE  applyCollabEvent(ViewOf(l, st, dr, pr, rn, dc), DocEvent(t, u, d, r)) =
           ViewOf(Append(l, DocEvent(t, u, d, r)), st, dr, pr, rn, With(dc, d, r))
<1>1. DocEvent(t, u, d, r) \in LogEvent
  BY DocEventType
<1>2. QED
  BY <1>1, OtherEventsKeepOutput DEF ViewOf, DocEvent, applyCollabEvent

LEMMA QueuedView ==
  ASSUME NEW l \in Seq(LogEvent), NEW j \in Job, OutputIn(l, j) = <<>>,
         NEW st, NEW dr, NEW pr, NEW dc, NEW rn, NEW next,
         next[j].status = "queued",
         \A i \in Job : i # j => next[i].status = rn[i].status
  PROVE  applyCollabEvent(ViewOf(l, st, dr, pr, rn, dc), RunEvent("command.queued", j)) =
           ViewOf(Append(l, RunEvent("command.queued", j)), st, dr, pr, next, dc)
<1> DEFINE longer == Append(l, RunEvent("command.queued", j))
           seen   == ViewOf(l, st, dr, pr, rn, dc)
           runs   == With(seen.runs, j, [status |-> "queued", output |-> <<>>])
<1>1. RunEvent("command.queued", j) \in LogEvent
  BY RunEventTypes
<1>2. runs = ViewOf(longer, st, dr, pr, next, dc).runs
  BY <1>1, OtherEventsKeepOutput DEF ViewOf, With, RunEvent
<1>3. applyCollabEvent(seen, RunEvent("command.queued", j)) =
        [[seen EXCEPT !.seq = @ + 1] EXCEPT !.runs = runs]
  BY DEF applyCollabEvent, RunEvent, ViewOf
<1>4. QED
  BY <1>1, <1>2, <1>3, OtherEventsKeepOutput DEF ViewOf, RunEvent

\* The start and the end of a run.
LEMMA BegunView ==
  ASSUME NEW l \in Seq(LogEvent), NEW j \in Job,
         NEW st, NEW dr, NEW pr, NEW dc, NEW rn, NEW next,
         rn[j].status # "none", next[j].status = "running",
         \A i \in Job : i # j => next[i].status = rn[i].status
  PROVE  applyCollabEvent(ViewOf(l, st, dr, pr, rn, dc), RunEvent("command.started", j)) =
           ViewOf(Append(l, RunEvent("command.started", j)), st, dr, pr, next, dc)
<1> DEFINE seen   == ViewOf(l, st, dr, pr, rn, dc)
           marked == [seen.runs EXCEPT ![j].status = "running"]
           longer == Append(l, RunEvent("command.started", j))
<1>1. RunEvent("command.started", j) \in LogEvent
  BY RunEventTypes
<1>2. Len(longer) = Len(l) + 1 /\ \A i \in Job : OutputIn(longer, i) = OutputIn(l, i)
  BY <1>1, OtherEventsKeepOutput DEF RunEvent
<1>3. ViewOf(longer, st, dr, pr, next, dc).runs = marked
  BY <1>2 DEF ViewOf, Terminal
<1>4. applyCollabEvent(seen, RunEvent("command.started", j)) =
        [[seen EXCEPT !.seq = @ + 1] EXCEPT !.runs = marked]
  BY DEF applyCollabEvent, RunEvent, ViewOf
<1>5. QED
  BY <1>2, <1>3, <1>4 DEF ViewOf

LEMMA FinishedView ==
  ASSUME NEW l \in Seq(LogEvent), NEW j \in Job, NEW outcome \in Terminal,
         NEW st, NEW dr, NEW pr, NEW dc, NEW rn, NEW next,
         rn[j].status # "none", next[j].status = outcome,
         \A i \in Job : i # j => next[i].status = rn[i].status
  PROVE  applyCollabEvent(ViewOf(l, st, dr, pr, rn, dc), FinishedEvent(j, outcome)) =
           ViewOf(Append(l, FinishedEvent(j, outcome)), st, dr, pr, next, dc)
<1> DEFINE seen   == ViewOf(l, st, dr, pr, rn, dc)
           marked == [seen.runs EXCEPT ![j].status = outcome]
           longer == Append(l, FinishedEvent(j, outcome))
<1>1. FinishedEvent(j, outcome) \in LogEvent
  BY RunEventTypes
<1>2. Len(longer) = Len(l) + 1 /\ \A i \in Job : OutputIn(longer, i) = OutputIn(l, i)
  BY <1>1, OtherEventsKeepOutput DEF FinishedEvent
<1>3. ViewOf(longer, st, dr, pr, next, dc).runs = marked
  BY <1>2 DEF ViewOf, Terminal
<1>4. applyCollabEvent(seen, FinishedEvent(j, outcome)) =
        [[seen EXCEPT !.seq = @ + 1] EXCEPT !.runs = marked]
  BY DEF applyCollabEvent, FinishedEvent, ViewOf
<1>5. QED
  BY <1>2, <1>3, <1>4 DEF ViewOf

LEMMA OutputView ==
  ASSUME NEW l \in Seq(LogEvent), NEW j \in Job, NEW n \in Int,
         NEW st, NEW dr, NEW pr, NEW rn, NEW dc, rn[j].status # "none"
  PROVE  applyCollabEvent(ViewOf(l, st, dr, pr, rn, dc), OutputEvent(j, n)) =
           ViewOf(Append(l, OutputEvent(j, n)), st, dr, pr, rn, dc)
<1> DEFINE seen   == ViewOf(l, st, dr, pr, rn, dc)
           longer == Append(l, OutputEvent(j, n))
<1>1. /\ OutputEvent(j, n) \in LogEvent
      /\ Len(longer) = Len(l) + 1
  BY RunEventTypes
<1>2. \A i \in Job : OutputIn(longer, i) =
        IF i = j THEN Append(OutputIn(l, i), n) ELSE OutputIn(l, i)
  BY <1>1, OutputAppend DEF AddOutput, OutputEvent
<1>3. ViewOf(longer, st, dr, pr, rn, dc).runs =
        [seen.runs EXCEPT ![j].output = Append(@, n)]
  BY <1>2 DEF ViewOf
<1>4. applyCollabEvent(seen, OutputEvent(j, n)) =
        [[seen EXCEPT !.seq = @ + 1] EXCEPT !.runs = [seen.runs EXCEPT ![j].output = Append(@, n)]]
  BY DEF applyCollabEvent, OutputEvent, ViewOf
<1>5. QED
  BY <1>1, <1>3, <1>4 DEF ViewOf

\* A log that goes on with n chunks of a job, after the first a.
Outputs(j, a, n)        == [i \in 1 .. n |-> OutputEvent(j, a + i)]
WithOutputs(l, j, a, n) == l \o Outputs(j, a, n)

LEMMA ConcatAppend ==
  ASSUME NEW E, NEW s \in Seq(E), NEW t \in Seq(E), NEW e \in E
  PROVE  s \o Append(t, e) = Append(s \o t, e) /\ s \o t \in Seq(E)
OBVIOUS

LEMMA OutputsType ==
  ASSUME NEW j \in Job, NEW a \in Int, NEW n \in Nat
  PROVE  Outputs(j, a, n) \in Seq(LogEvent) /\ Len(Outputs(j, a, n)) = n
<1>1. \A i \in 1 .. n : OutputEvent(j, a + i) \in LogEvent
  BY RunEventTypes
<1>2. QED
  BY <1>1 DEF Outputs

LEMMA NoOutputs ==
  ASSUME NEW l \in Seq(LogEvent), NEW j, NEW a
  PROVE  WithOutputs(l, j, a, 0) = l
<1>1. Outputs(j, a, 0) = <<>>
  BY DEF Outputs
<1>2. QED
  BY <1>1 DEF WithOutputs

LEMMA NextOutput ==
  ASSUME NEW l \in Seq(LogEvent), NEW j \in Job, NEW a \in Int, NEW n \in Nat
  PROVE  /\ WithOutputs(l, j, a, n) \in Seq(LogEvent)
         /\ OutputEvent(j, a + n + 1) \in LogEvent
         /\ WithOutputs(l, j, a, n + 1) =
              Append(WithOutputs(l, j, a, n), OutputEvent(j, a + n + 1))
<1> DEFINE e == OutputEvent(j, a + n + 1)
<1>1. Outputs(j, a, n + 1) = Append(Outputs(j, a, n), e)
  BY DEF Outputs
<1>2. e \in LogEvent
  <2>1. a + n + 1 \in Int
    OBVIOUS
  <2>2. QED
    BY <2>1, RunEventTypes
<1>3. Outputs(j, a, n) \in Seq(LogEvent)
  BY OutputsType
<1> HIDE DEF e
<1>4. l \o Append(Outputs(j, a, n), e) = Append(l \o Outputs(j, a, n), e)
  BY <1>2, <1>3, ConcatAppend
<1>5. l \o Outputs(j, a, n) \in Seq(LogEvent)
  BY <1>3, ConcatProperties
<1>6. QED
  BY <1>1, <1>2, <1>4, <1>5, Zenon DEF e, WithOutputs

LEMMA OutputsView ==
  ASSUME NEW l \in Seq(LogEvent), NEW j \in Job, NEW a \in Int,
         NEW st, NEW dr, NEW pr, NEW rn, NEW dc, rn[j].status # "none",
         Fold(l) = ViewOf(l, st, dr, pr, rn, dc)
  PROVE  \A n \in Nat :
           Fold(WithOutputs(l, j, a, n)) = ViewOf(WithOutputs(l, j, a, n), st, dr, pr, rn, dc)
<1> DEFINE good(k) == Fold(k) = ViewOf(k, st, dr, pr, rn, dc)
           S == {n \in Nat : good(WithOutputs(l, j, a, n))}
<1>1. 0 \in S
  BY NoOutputs
<1>2. ASSUME NEW k \in Seq(LogEvent), good(k), NEW m \in Int, OutputEvent(j, m) \in LogEvent
      PROVE  good(Append(k, OutputEvent(j, m)))
  BY <1>2, FoldAppend, OutputView
<1>3. ASSUME NEW n \in Nat, n \in S
      PROVE  n + 1 \in S
  <2> HIDE DEF good
  <2>1. a + n + 1 \in Int
    OBVIOUS
  <2> DEFINE k == WithOutputs(l, j, a, n)
             m == a + n + 1
  <2>2. /\ k \in Seq(LogEvent) /\ OutputEvent(j, m) \in LogEvent
        /\ WithOutputs(l, j, a, n + 1) = Append(k, OutputEvent(j, m))
    BY NextOutput
  <2>3. good(k)
    BY <1>3
  <2> HIDE DEF k, m
  <2>4. good(Append(k, OutputEvent(j, m)))
    BY <1>2, <2>1, <2>2, <2>3 DEF m
  <2>5. good(WithOutputs(l, j, a, n + 1))
    BY <2>2, <2>4, Zenon
  <2>6. QED
    BY <2>5
<1>4. \A n \in Nat : n \in S
  <2> HIDE DEF S
  <2>1. QED
    BY <1>1, <1>3, NatSetInduction
<1>5. QED
  BY <1>4

\* They add to the output of their job, in order, and to that of no other.
FirstChunks(n) == [i \in 1 .. n |-> i]

LEMMA OutputsOutput ==
  ASSUME NEW l \in Seq(LogEvent), NEW j \in Job, NEW a \in Int,
         OutputIn(l, j) = FirstChunks(a), a >= 0
  PROVE  \A n \in Nat : OutputIn(WithOutputs(l, j, a, n), j) = FirstChunks(a + n)
<1> DEFINE S == {n \in Nat : OutputIn(WithOutputs(l, j, a, n), j) = FirstChunks(a + n)}
<1>1. 0 \in S
  BY NoOutputs
<1>2. ASSUME NEW n \in Nat, n \in S
      PROVE  n + 1 \in S
  <2> DEFINE k == WithOutputs(l, j, a, n)
             e == OutputEvent(j, a + n + 1)
  <2>1. k \in Seq(LogEvent) /\ e \in LogEvent /\ WithOutputs(l, j, a, n + 1) = Append(k, e)
    BY NextOutput
  <2>2. e.type = "command.output" /\ e.job = j /\ e.chunk = a + n + 1
    BY DEF OutputEvent
  <2> HIDE DEF k, e
  <2>3. OutputIn(Append(k, e), j) = Append(OutputIn(k, j), a + n + 1)
    BY <2>1, <2>2, OutputAppend DEF AddOutput
  <2>4. Append(FirstChunks(a + n), a + n + 1) = FirstChunks(a + n + 1)
    BY DEF FirstChunks
  <2>5. OutputIn(WithOutputs(l, j, a, n + 1), j) = FirstChunks(a + n + 1)
    BY <1>2, <2>1, <2>3, <2>4 DEF k
  <2>6. QED
    BY <2>5
<1>3. \A n \in Nat : n \in S
  <2> HIDE DEF S
  <2>1. QED
    BY <1>1, <1>2, NatSetInduction
<1>4. QED
  BY <1>3

LEMMA OutputsOfOthers ==
  ASSUME NEW l \in Seq(LogEvent), NEW j \in Job, NEW a \in Int, NEW i \in Job, i # j
  PROVE  \A n \in Nat : OutputIn(WithOutputs(l, j, a, n), i) = OutputIn(l, i)
<1> DEFINE S == {n \in Nat : OutputIn(WithOutputs(l, j, a, n), i) = OutputIn(l, i)}
<1>1. 0 \in S
  BY NoOutputs
<1>2. ASSUME NEW n \in Nat, n \in S
      PROVE  n + 1 \in S
  <2> DEFINE k == WithOutputs(l, j, a, n)
             e == OutputEvent(j, a + n + 1)
  <2>1. k \in Seq(LogEvent) /\ e \in LogEvent /\ WithOutputs(l, j, a, n + 1) = Append(k, e)
    BY NextOutput
  <2>2. e.job = j
    BY DEF OutputEvent
  <2> HIDE DEF k, e
  <2>3. OutputIn(Append(k, e), i) = OutputIn(k, i)
    BY <2>1, <2>2, OutputAppend DEF AddOutput
  <2>4. OutputIn(WithOutputs(l, j, a, n + 1), i) = OutputIn(l, i)
    BY <1>2, <2>1, <2>3 DEF k
  <2>5. QED
    BY <2>4
<1>3. \A n \in Nat : n \in S
  <2> HIDE DEF S
  <2>1. QED
    BY <1>1, <1>2, NatSetInduction
<1>4. QED
  BY <1>3

----------------------------------------------------------------------------
\* The log and the tables.

\* The inductive invariant of the history: folding the log gives the snapshot, in
\* a session that is not there too, and nobody is present in that; a run is not
\* ahead of its job, and what never was started has no output.
HistoryInv ==
  /\ Snapshot = Fold(log)
  /\ status = "none" => present = {}
OutputsInv ==
  \A j \in Job :
    /\ run[j].forwarded <= job[j].chunks
    /\ run[j].status = "none" => run[j].forwarded = 0 /\ OutputOf(j) = <<>>
    /\ job[j].status = "none" => run[j].status = "none"
    /\ OutputOf(j) = [i \in 1 .. Len(OutputOf(j)) |-> i]
    /\ Len(OutputOf(j)) # run[j].forwarded => Len(log) >= MaxEvents

\* The output that is logged: a prefix of what is unread, and all of it unless the
\* log is full.
LEMMA FittingOutputs ==
  ASSUME log \in Seq(LogEvent), run \in [Job -> RunRow], NEW before \in Seq(LogEvent),
         NEW j \in Job, NEW row \in JobRow, run[j].forwarded <= row.chunks
  PROVE  \E n \in Nat :
           /\ n <= row.chunks - run[j].forwarded
           /\ Fitting(Unread(j, row), before) = Outputs(j, run[j].forwarded, n)
           /\ n # row.chunks - run[j].forwarded => Len(log \o before) + n >= MaxEvents
           /\ n > 0 => Len(log \o before) + n <= MaxEvents
<1> DEFINE f    == run[j].forwarded
           len  == row.chunks - f
           used == Len(log \o before)
<1>1. f \in Nat /\ len \in Nat /\ used \in Nat
  BY LimitType, ConcatProperties DEF JobRow, RunRow
<1>3. /\ DOMAIN Unread(j, row) = 1 .. len
      /\ \A i \in 1 .. len : Unread(j, row)[i] = OutputEvent(j, f + i)
  BY DEF Unread
<1> HIDE DEF f, len, used
<1>2. PICK n \in 0 .. len : \A k \in 1 .. len : used + k <= MaxEvents <=> k <= n
  BY <1>1, LimitType, RoomForPrefix
<1>4. {k \in 1 .. len : used + k <= MaxEvents} = 1 .. n
  BY <1>1, <1>2
<1>5. Fitting(Unread(j, row), before) =
        [i \in {k \in 1 .. len : used + k <= MaxEvents} |-> Unread(j, row)[i]]
  BY <1>3 DEF Fitting, Capacity, used
<1>6. Fitting(Unread(j, row), before) = Outputs(j, f, n)
  BY <1>1, <1>3, <1>4, <1>5 DEF Outputs
<1>7. n \in Nat /\ n <= len
  BY <1>1
<1>8. n # len => used + n >= MaxEvents
  <2>1. ASSUME n # len
        PROVE  n + 1 \in 1 .. len /\ ~(n + 1 <= n)
    BY <1>1, <2>1
  <2>2. n # len => ~(used + (n + 1) <= MaxEvents)
    BY <1>2, <2>1
  <2>3. QED
    BY <1>1, <1>7, <2>2, LimitType
<1>9. n > 0 => used + n <= MaxEvents
  BY <1>1, <1>2
<1>10. QED
  BY <1>6, <1>7, <1>8, <1>9 DEF f, len, used

LEMMA WithOutputsType ==
  ASSUME NEW l \in Seq(LogEvent), NEW j \in Job, NEW a \in Int, NEW n \in Nat
  PROVE  /\ WithOutputs(l, j, a, n) \in Seq(LogEvent)
         /\ Len(WithOutputs(l, j, a, n)) = Len(l) + n
<1>1. Outputs(j, a, n) \in Seq(LogEvent) /\ Len(Outputs(j, a, n)) = n
  BY OutputsType
<1>2. QED
  BY <1>1, ConcatProperties DEF WithOutputs

\* A run as a pump finds it, once the start is logged.
Begun(j, row) ==
  IF Starts(j, row) = <<>> THEN run
  ELSE [run EXCEPT ![j] = [status |-> "running", forwarded |-> run[j].forwarded]]

LEMMA StartsView ==
  ASSUME SessionInv, HistoryInv, NEW j \in Job, NEW row \in JobRow, Open(j)
  PROVE  /\ log \o Starts(j, row) \in Seq(LogEvent)
         /\ Len(log \o Starts(j, row)) \in {Len(log), Len(log) + 1}
         /\ Begun(j, row) \in [Job -> RunRow]
         /\ Fold(log \o Starts(j, row)) =
              ViewOf(log \o Starts(j, row), status, driver, present, Begun(j, row), docs)
         /\ \A i \in Job : OutputIn(log \o Starts(j, row), i) = OutputIn(log, i)
<1> DEFINE e == RunEvent("command.started", j)
           r == [status |-> "running", forwarded |-> run[j].forwarded]
<1>1. log \in Seq(LogEvent) /\ Fold(log) = ViewOf(log, status, driver, present, run, docs)
  BY DEF SessionInv, LogOK, HistoryInv, Snapshot, ViewOf, OutputOf
<1>2. run \in [Job -> RunRow] /\ r \in RunRow
  BY DEF SessionInv, RunsOK, RunRow
<1>3. e \in LogEvent /\ e.type = "command.started"
  BY RunEventTypes DEF RunEvent
<1>4. CASE Starts(j, row) = <<>>
  <2>1. log \o Starts(j, row) = log
    BY <1>1, <1>4
  <2>2. Begun(j, row) = run
    BY <1>4 DEF Begun
  <2>3. QED
    BY <1>1, <1>2, <2>1, <2>2
<1>5. CASE Starts(j, row) # <<>>
  <2>1. Starts(j, row) = <<e>>
    BY <1>5 DEF Starts
  <2>2. log \o Starts(j, row) = Append(log, e)
    BY <1>1, <2>1
  <2>3. Begun(j, row) = [run EXCEPT ![j] = r]
    BY <1>5 DEF Begun
  <2>4. run[j].status # "none"
    BY DEF Open
  <2>5. Fold(Append(log, e)) = applyCollabEvent(Fold(log), e)
    BY <1>1, <1>3, FoldAppend
  <2>6. applyCollabEvent(ViewOf(log, status, driver, present, run, docs), e) =
          ViewOf(Append(log, e), status, driver, present, Begun(j, row), docs)
    <3>1. Begun(j, row)[j].status = "running"
      BY <1>2, <2>3
    <3>2. \A i \in Job : i # j => Begun(j, row)[i].status = run[i].status
      BY <1>2, <2>3
    <3>3. QED
      BY <1>1, <2>4, <3>1, <3>2, BegunView
  <2>7. /\ Append(log, e) \in Seq(LogEvent) /\ Len(Append(log, e)) = Len(log) + 1
        /\ \A i \in Job : OutputIn(Append(log, e), i) = OutputIn(log, i)
    BY <1>1, <1>3, OtherEventsKeepOutput
  <2>8. [run EXCEPT ![j] = r] \in [Job -> RunRow]
    BY <1>2
  <2> HIDE DEF e, r
  <2>9. QED
    BY <1>1, <2>2, <2>3, <2>5, <2>6, <2>7, <2>8
<1>6. QED
  BY <1>4, <1>5

\* A log that goes on with the end of a run.
WithEnd(l, j, row) == l \o Ends(j, row)

LEMMA EndsLog ==
  ASSUME NEW l \in Seq(LogEvent), NEW j \in Job, NEW row \in JobRow
  PROVE  /\ \A i \in Job : OutputIn(WithEnd(l, j, row), i) = OutputIn(l, i)
         /\ Len(WithEnd(l, j, row)) \in Nat /\ Len(WithEnd(l, j, row)) >= Len(l)
<1> DEFINE e == FinishedEvent(j, row.status)
<1>1. CASE row.status \in Terminal
  <2>1. e \in LogEvent /\ e.type = "command.finished"
    BY <1>1, RunEventTypes DEF FinishedEvent
  <2>2. WithEnd(l, j, row) = Append(l, e)
    BY <1>1, <2>1 DEF WithEnd, Ends
  <2>3. Len(Append(l, e)) = Len(l) + 1 /\ \A i \in Job : OutputIn(Append(l, e), i) = OutputIn(l, i)
    BY <2>1, OtherEventsKeepOutput
  <2> HIDE DEF e
  <2>4. QED
    BY <2>2, <2>3
<1>2. CASE row.status \notin Terminal
  <2>1. WithEnd(l, j, row) = l
    BY <1>2 DEF WithEnd, Ends
  <2>2. QED
    BY <2>1
<1>3. QED
  BY <1>1, <1>2

LEMMA EndsView ==
  ASSUME NEW l \in Seq(LogEvent), NEW j \in Job, NEW row \in JobRow,
         row.status \in {"running"} \cup Terminal,
         NEW st, NEW dr, NEW pr, NEW dc, NEW rn, NEW next,
         rn[j].status # "none", next[j].status = row.status,
         row.status = "running" => rn[j].status = "running",
         \A i \in Job : i # j => next[i].status = rn[i].status,
         Fold(l) = ViewOf(l, st, dr, pr, rn, dc)
  PROVE  Fold(WithEnd(l, j, row)) = ViewOf(WithEnd(l, j, row), st, dr, pr, next, dc)
<1> DEFINE e == FinishedEvent(j, row.status)
<1>1. CASE row.status \in Terminal
  <2>1. e \in LogEvent
    BY <1>1, RunEventTypes
  <2>2. WithEnd(l, j, row) = Append(l, e)
    BY <1>1, <2>1 DEF WithEnd, Ends
  <2>3. Fold(Append(l, e)) = applyCollabEvent(Fold(l), e)
    BY <2>1, FoldAppend
  <2>4. applyCollabEvent(ViewOf(l, st, dr, pr, rn, dc), e) =
          ViewOf(Append(l, e), st, dr, pr, next, dc)
    BY <1>1, FinishedView
  <2> HIDE DEF e
  <2>5. QED
    BY <2>2, <2>3, <2>4
<1>2. CASE row.status = "running"
  <2>1. WithEnd(l, j, row) = l
    BY <1>2 DEF WithEnd, Ends, Terminal
  <2>2. \A i \in Job : next[i].status = rn[i].status
    BY <1>2
  <2>3. ViewOf(l, st, dr, pr, next, dc) = ViewOf(l, st, dr, pr, rn, dc)
    BY <2>2 DEF ViewOf
  <2>4. QED
    BY <2>1, <2>3
<1>3. QED
  BY <1>1, <1>2

\* A log that goes on with what a pump found unlogged.
WithStart(l, j, row) == l \o Starts(j, row)
Pumped(j, row, a, n) == log \o (Starts(j, row) \o Outputs(j, a, n) \o Ends(j, row))

LEMMA PumpedInSteps ==
  ASSUME log \in Seq(LogEvent), NEW j, NEW row, NEW a, NEW n,
         Starts(j, row) \in Seq(LogEvent), Outputs(j, a, n) \in Seq(LogEvent),
         Ends(j, row) \in Seq(LogEvent)
  PROVE  Pumped(j, row, a, n) =
           WithEnd(WithOutputs(WithStart(log, j, row), j, a, n), j, row)
BY DEF Pumped, WithStart, WithOutputs, WithEnd

\* What a pump does that has something to do.
CatchesUp(j, row) ==
  /\ log' = log \o (Starts(j, row) \o Fitting(Unread(j, row), Starts(j, row)) \o Ends(j, row))
  /\ run' = [run EXCEPT ![j] = [status |-> row.status, forwarded |-> row.chunks]]

\* A pump logs what it writes to the tables, and the output once and in order.
LEMMA PumpHistory ==
  ASSUME SessionInv, HistoryInv, OutputsInv, NEW j \in Job, NEW row \in JobRow,
         run[j].forwarded <= row.chunks, row.status # "none",
         Open(j), row.status # "queued",
         CatchesUp(j, row)
  PROVE  /\ Fold(log') = ViewOf(log', status, driver, present, run', docs)
         /\ \A i \in Job : i # j => OutputIn(log', i) = OutputIn(log, i)
         /\ Len(log') >= Len(log)
         /\ OutputIn(log', j) = [i \in 1 .. Len(OutputIn(log', j)) |-> i]
         /\ Len(OutputIn(log', j)) # row.chunks => Len(log') >= MaxEvents
<1> DEFINE f  == run[j].forwarded
           l1 == WithStart(log, j, row)
<1>1. /\ log \in Seq(LogEvent) /\ Len(log) \in Nat /\ run \in [Job -> RunRow]
      /\ f \in Nat /\ row.chunks \in Nat /\ MaxEvents \in Nat
  BY LimitType DEF SessionInv, LogOK, RunsOK, RunRow, JobRow
<1>2. /\ l1 \in Seq(LogEvent) /\ Len(l1) \in Nat /\ Len(l1) >= Len(log)
      /\ Begun(j, row) \in [Job -> RunRow]
      /\ Fold(l1) = ViewOf(l1, status, driver, present, Begun(j, row), docs)
      /\ \A i \in Job : OutputIn(l1, i) = OutputIn(log, i)
  BY <1>1, StartsView DEF WithStart
<1>3. PICK n \in Nat :
        /\ n <= row.chunks - f
        /\ Fitting(Unread(j, row), Starts(j, row)) = Outputs(j, f, n)
        /\ n # row.chunks - f => Len(l1) + n >= MaxEvents
        /\ n > 0 => Len(l1) + n <= MaxEvents
  BY <1>1, PumpedType, FittingOutputs DEF WithStart
<1>4. log' = WithEnd(WithOutputs(l1, j, f, n), j, row)
  <2>1. /\ Starts(j, row) \in Seq(LogEvent) /\ Outputs(j, f, n) \in Seq(LogEvent)
        /\ Ends(j, row) \in Seq(LogEvent)
    <3>1. f \in Int
      BY <1>1
    <3> HIDE DEF f
    <3>2. QED
      BY <1>1, <3>1, PumpedType, OutputsType
  <2>2. log' = Pumped(j, row, f, n)
    BY <1>3, Zenon DEF Pumped, CatchesUp
  <2>3. QED
    BY <1>1, <2>1, <2>2, PumpedInSteps
<1>5. Begun(j, row)[j].status # "none" /\ \A i \in Job : i # j => Begun(j, row)[i] = run[i]
  BY <1>1 DEF Begun, Open
<1>6. row.status = "running" => Begun(j, row)[j].status = "running"
  BY <1>1 DEF Begun, Starts, Open
<1>7. f \in Int /\ f >= 0
  BY <1>1
<1> DEFINE l2 == WithOutputs(l1, j, f, n)
<1> HIDE DEF l1, f
<1>8. l2 \in Seq(LogEvent) /\ Len(l2) = Len(l1) + n /\ Len(l2) \in Nat
  BY <1>2, <1>7, WithOutputsType
<1>9. Fold(l2) = ViewOf(l2, status, driver, present, Begun(j, row), docs)
  BY <1>2, <1>5, <1>7, OutputsView
<1>10. /\ \A i \in Job : i # j => OutputIn(l2, i) = OutputIn(log, i)
       /\ OutputIn(log, j) = FirstChunks(f) => OutputIn(l2, j) = FirstChunks(f + n)
  <2>1. \A i \in Job : i # j => OutputIn(l2, i) = OutputIn(l1, i)
    BY <1>2, <1>7, OutputsOfOthers
  <2>2. ASSUME OutputIn(l1, j) = FirstChunks(f)
        PROVE  OutputIn(l2, j) = FirstChunks(f + n)
    BY <1>2, <1>7, <2>2, OutputsOutput
  <2>3. QED
    BY <1>2, <2>1, <2>2
<1> HIDE DEF l2
<1>11. /\ Fold(log') = ViewOf(log', status, driver, present, run', docs)
       /\ \A i \in Job : OutputIn(log', i) = OutputIn(l2, i)
       /\ Len(log') >= Len(l2) /\ Len(log') \in Nat
  <2>1. PICK next :
          /\ next = run' /\ next[j].status = row.status
          /\ \A i \in Job : i # j => next[i].status = Begun(j, row)[i].status
    BY <1>1, <1>5 DEF CatchesUp
  <2>2. row.status \in {"running"} \cup Terminal
    BY DEF JobRow
  <2>3. log' = WithEnd(l2, j, row)
    BY <1>4 DEF l2
  <2>4. Fold(WithEnd(l2, j, row)) =
          ViewOf(WithEnd(l2, j, row), status, driver, present, next, docs)
    BY <1>5, <1>6, <1>8, <1>9, <2>1, <2>2, EndsView
  <2>5. QED
    BY <1>8, <2>1, <2>3, <2>4, EndsLog
<1>12. CASE Len(OutputIn(log, j)) = f
  <2>1. OutputIn(log, j) = FirstChunks(f)
    BY <1>12 DEF OutputsInv, OutputOf, FirstChunks
  <2>2. OutputIn(log', j) = FirstChunks(f + n)
    BY <1>10, <1>11, <2>1
  <2>3. Len(OutputIn(log', j)) = f + n
    BY <1>7, <2>2 DEF FirstChunks
  <2>4. f + n # row.chunks => Len(log') >= MaxEvents
    BY <1>1, <1>2, <1>3, <1>7, <1>8, <1>11 DEF f
  <2>5. QED
    BY <1>1, <1>2, <1>8, <1>10, <1>11, <2>2, <2>3, <2>4 DEF FirstChunks
<1>13. CASE Len(OutputIn(log, j)) # f
  <2>1. Len(log) >= MaxEvents
    BY <1>13 DEF OutputsInv, OutputOf, f
  <2>2. n = 0
    BY <1>1, <1>2, <1>3, <2>1
  <2>3. OutputIn(log', j) = OutputIn(log, j)
    BY <1>2, <1>11, <2>2, NoOutputs DEF l2
  <2>4. OutputIn(log, j) = [i \in 1 .. Len(OutputIn(log, j)) |-> i]
    BY DEF OutputsInv, OutputOf
  <2>5. Len(log') >= MaxEvents
    BY <1>1, <1>2, <1>8, <1>11, <2>1
  <2>6. QED
    BY <1>1, <1>2, <1>8, <1>10, <1>11, <2>3, <2>4, <2>5
<1>14. QED
  BY <1>12, <1>13

----------------------------------------------------------------------------
\* One lemma per action.

LEMMA SnapshotView ==
  /\ Snapshot = ViewOf(log, status, driver, present, run, docs)
  /\ Snapshot' = ViewOf(log', status', driver', present', run', docs')
  /\ \A j \in Job : OutputOf(j) = OutputIn(log, j) /\ OutputOf(j)' = OutputIn(log', j)
BY DEF Snapshot, ViewOf, OutputOf

\* Events that are no output leave the runs and their output as they were.
LEMMA OutputsKept ==
  ASSUME SessionInv, OutputsInv, UNCHANGED <<job, run>>,
         \A j \in Job : OutputIn(log', j) = OutputIn(log, j),
         Len(log') \in Nat, Len(log') >= Len(log)
  PROVE  OutputsInv'
<1>1. Len(log) \in Nat /\ MaxEvents \in Nat
  BY LimitType DEF SessionInv, LogOK
<1>2. QED
  BY <1>1, SnapshotView DEF OutputsInv

LEMMA AppendsOne ==
  ASSUME SessionInv, NEW e \in LogEvent, e.type # "command.output", AppendAll(<<e>>)
  PROVE  /\ log' = Append(log, e) /\ log \in Seq(LogEvent) /\ log' \in Seq(LogEvent)
         /\ Fold(log') = applyCollabEvent(Fold(log), e)
         /\ \A j \in Job : OutputIn(log', j) = OutputIn(log, j)
         /\ Len(log') \in Nat /\ Len(log') >= Len(log)
<1>1. log \in Seq(LogEvent)
  BY DEF SessionInv, LogOK
<1>2. log' = Append(log, e)
  BY <1>1 DEF AppendAll
<1>3. QED
  BY <1>1, <1>2, FoldAppend, OtherEventsKeepOutput

LEMMA AppendsTwo ==
  ASSUME SessionInv, NEW e \in LogEvent, NEW f \in LogEvent,
         e.type # "command.output", f.type # "command.output", AppendAll(<<e, f>>)
  PROVE  /\ log' = Append(Append(log, e), f)
         /\ log \in Seq(LogEvent) /\ Append(log, e) \in Seq(LogEvent)
         /\ Fold(log') = applyCollabEvent(applyCollabEvent(Fold(log), e), f)
         /\ \A j \in Job : OutputIn(log', j) = OutputIn(log, j)
         /\ Len(log') \in Nat /\ Len(log') >= Len(log)
<1>1. log \in Seq(LogEvent)
  BY DEF SessionInv, LogOK
<1>2. log' = Append(Append(log, e), f)
  BY <1>1 DEF AppendAll
<1>3. /\ Append(log, e) \in Seq(LogEvent)
      /\ Len(Append(log, e)) = Len(log) + 1 /\ Len(Append(Append(log, e), f)) = Len(log) + 2
  BY <1>1
<1>4. Fold(Append(log, e)) = applyCollabEvent(Fold(log), e)
  BY <1>1, FoldAppend
<1>5. Fold(Append(Append(log, e), f)) = applyCollabEvent(Fold(Append(log, e)), f)
  BY <1>3, FoldAppend
<1>6. \A j \in Job : OutputIn(Append(log, e), j) = OutputIn(log, j)
  BY <1>1, OtherEventsKeepOutput
<1>7. \A j \in Job : OutputIn(Append(Append(log, e), f), j) = OutputIn(Append(log, e), j)
  BY <1>3, OtherEventsKeepOutput
<1>8. Len(log) \in Nat
  BY <1>1
<1>9. QED
  BY <1>1, <1>2, <1>3, <1>4, <1>5, <1>6, <1>7, <1>8

LEMMA AppendsThree ==
  ASSUME SessionInv, NEW e \in LogEvent, NEW f \in LogEvent, NEW g \in LogEvent,
         e.type # "command.output", f.type # "command.output", g.type # "command.output",
         AppendAll(<<e, f, g>>)
  PROVE  /\ log' = Append(Append(Append(log, e), f), g)
         /\ log \in Seq(LogEvent) /\ Append(log, e) \in Seq(LogEvent)
         /\ Append(Append(log, e), f) \in Seq(LogEvent)
         /\ Fold(log') =
              applyCollabEvent(applyCollabEvent(applyCollabEvent(Fold(log), e), f), g)
         /\ \A j \in Job : OutputIn(log', j) = OutputIn(log, j)
         /\ Len(log') \in Nat /\ Len(log') >= Len(log)
<1>1. log \in Seq(LogEvent) /\ Len(log) \in Nat
  BY DEF SessionInv, LogOK
<1>2. log' = Append(Append(Append(log, e), f), g)
  BY <1>1 DEF AppendAll
<1>3. /\ Append(log, e) \in Seq(LogEvent) /\ Append(Append(log, e), f) \in Seq(LogEvent)
      /\ Len(Append(Append(Append(log, e), f), g)) = Len(log) + 3
  BY <1>1
<1>4. Fold(Append(log, e)) = applyCollabEvent(Fold(log), e)
  BY <1>1, FoldAppend
<1>5. Fold(Append(Append(log, e), f)) = applyCollabEvent(Fold(Append(log, e)), f)
  BY <1>3, FoldAppend
<1>6. Fold(Append(Append(Append(log, e), f), g)) =
        applyCollabEvent(Fold(Append(Append(log, e), f)), g)
  BY <1>3, FoldAppend
<1>7. \A j \in Job : OutputIn(Append(log, e), j) = OutputIn(log, j)
  BY <1>1, OtherEventsKeepOutput
<1>8. \A j \in Job : OutputIn(Append(Append(log, e), f), j) = OutputIn(Append(log, e), j)
  BY <1>3, OtherEventsKeepOutput
<1>9. \A j \in Job : OutputIn(Append(Append(Append(log, e), f), g), j) =
                       OutputIn(Append(Append(log, e), f), j)
  BY <1>3, OtherEventsKeepOutput
<1>10. QED
  BY <1>1, <1>2, <1>3, <1>4, <1>5, <1>6, <1>7, <1>8, <1>9

LEMMA CreateSessionHistory ==
  ASSUME SessionInv, HistoryInv, OutputsInv, CreateSession
  PROVE  HistoryInv' /\ OutputsInv'
<1> DEFINE a == Event("session.started", Owner)
           b == DocEvent("doc.created", Owner, Notes, 0)
           c == Event("participant.joined", Owner)
<1>1. /\ a \in LogEvent /\ b \in LogEvent /\ c \in LogEvent
      /\ a.type # "command.output" /\ b.type # "command.output" /\ c.type # "command.output"
  BY UserEventType, DocEventType, SessionAssumption DEF Event, DocEvent
<1>2. AppendAll(<<a, b, c>>) /\ UNCHANGED <<job, run>>
  BY DEF CreateSession
<1>3. /\ status' = "active" /\ driver' = Owner /\ present = {} /\ present' = {} \cup {Owner}
      /\ docs' = With(docs, Notes, 0) /\ Owner \in User /\ Notes \in Doc
  BY SessionAssumption DEF CreateSession, HistoryInv
<1>4. applyCollabEvent(ViewOf(log, status, driver, present, run, docs), a) =
        ViewOf(Append(log, a), "active", Owner, present, run, docs)
  BY <1>3, StartedView DEF SessionInv, LogOK
<1>5. applyCollabEvent(ViewOf(Append(log, a), "active", Owner, present, run, docs), b) =
        ViewOf(Append(Append(log, a), b), "active", Owner, present, run, With(docs, Notes, 0))
  <2>1. Append(log, a) \in Seq(LogEvent)
    BY <1>1 DEF SessionInv, LogOK
  <2>2. \A l \in Seq(LogEvent) :
          applyCollabEvent(ViewOf(l, "active", Owner, present, run, docs), b) =
            ViewOf(Append(l, b), "active", Owner, present, run, With(docs, Notes, 0))
    BY <1>3, DocViews
  <2> HIDE DEF a, b
  <2>3. QED
    BY <2>1, <2>2, Zenon
<1>6. applyCollabEvent(ViewOf(Append(Append(log, a), b), "active", Owner, present, run,
                              With(docs, Notes, 0)), c) =
        ViewOf(Append(Append(Append(log, a), b), c), "active", Owner, present \cup {Owner}, run,
               With(docs, Notes, 0))
  <2>1. Append(Append(log, a), b) \in Seq(LogEvent)
    BY <1>1 DEF SessionInv, LogOK
  <2>2. \A l \in Seq(LogEvent) :
          applyCollabEvent(ViewOf(l, "active", Owner, present, run, With(docs, Notes, 0)), c) =
            ViewOf(Append(l, c), "active", Owner, present \cup {Owner}, run,
                   With(docs, Notes, 0))
    BY <1>3, JoinedView
  <2> HIDE DEF a, b, c
  <2>3. QED
    BY <2>1, <2>2, Zenon
<1> HIDE DEF a, b, c
<1>7. Snapshot' = Fold(log')
  <2>1. log' = Append(Append(Append(log, a), b), c) /\
        Fold(log') = applyCollabEvent(applyCollabEvent(applyCollabEvent(Fold(log), a), b), c)
    BY <1>1, <1>2, AppendsThree
  <2>2. Fold(log) = ViewOf(log, status, driver, present, run, docs)
    BY SnapshotView DEF HistoryInv
  <2>3. Snapshot' = ViewOf(log', "active", Owner, {} \cup {Owner}, run, With(docs, Notes, 0))
    BY <1>2, <1>3, SnapshotView
  <2>4. QED
    BY <1>3, <1>4, <1>5, <1>6, <2>1, <2>2, <2>3, Zenon
<1>8. Snapshot' = Fold(log)'
  BY <1>7
<1>9. OutputsInv'
  BY <1>1, <1>2, AppendsThree, OutputsKept
<1>10. QED
  BY <1>3, <1>8, <1>9 DEF HistoryInv

LEMMA JoinSessionHistory ==
  ASSUME SessionInv, HistoryInv, OutputsInv, NEW u \in User, JoinSession(u)
  PROVE  HistoryInv' /\ OutputsInv'
<1> DEFINE e == Event("participant.joined", u)
<1>1. e \in LogEvent /\ e.type # "command.output"
  BY UserEventType DEF Event
<1>2. /\ AppendAll(<<e>>) /\ present' = present \cup {u} /\ status # "none"
      /\ UNCHANGED <<job, status, driver, run, docs>>
  BY DEF JoinSession, ActsIn
<1>3. applyCollabEvent(ViewOf(log, status, driver, present, run, docs), e) =
        ViewOf(Append(log, e), status, driver, present \cup {u}, run, docs)
  BY JoinedView DEF SessionInv, LogOK
<1> HIDE DEF e
<1>4. Snapshot' = Fold(log')
  BY <1>1, <1>2, <1>3, AppendsOne, SnapshotView DEF HistoryInv
<1>5. OutputsInv'
  BY <1>1, <1>2, AppendsOne, OutputsKept
<1>6. QED
  BY <1>2, <1>4, <1>5 DEF HistoryInv

LEMMA LeaveSessionHistory ==
  ASSUME SessionInv, HistoryInv, OutputsInv, NEW u \in User, LeaveSession(u)
  PROVE  HistoryInv' /\ OutputsInv'
<1> DEFINE e == Event("participant.left", u)
           f == Handed(u, Successor(u))
<1>1. e \in LogEvent /\ e.type # "command.output"
  BY UserEventType DEF Event
<1>2. Successor(u) \in User \cup {NoUser}
  BY SessionAssumption DEF Successor
<1>3. f \in LogEvent /\ f.type # "command.output"
  BY <1>2, HandoverType DEF Handed
<1>4. /\ present' = present \ {u} /\ status # "none" /\ UNCHANGED <<job, status, run, docs>>
      /\ driver = u => driver' = Successor(u) /\ AppendAll(<<e, f>>)
      /\ driver # u => driver' = driver /\ AppendAll(<<e>>)
  BY DEF LeaveSession, ActsIn
<1>5. applyCollabEvent(ViewOf(log, status, driver, present, run, docs), e) =
        ViewOf(Append(log, e), status, driver, present \ {u}, run, docs)
  BY LeftView DEF SessionInv, LogOK
<1>6. applyCollabEvent(ViewOf(Append(log, e), status, driver, present \ {u}, run, docs), f) =
        ViewOf(Append(Append(log, e), f), status, Successor(u), present \ {u}, run, docs)
  <2>1. Append(log, e) \in Seq(LogEvent)
    BY <1>1 DEF SessionInv, LogOK
  <2>2. \A l \in Seq(LogEvent) :
          applyCollabEvent(ViewOf(l, status, driver, present \ {u}, run, docs), f) =
            ViewOf(Append(l, f), status, Successor(u), present \ {u}, run, docs)
    BY <1>2, HandedView
  <2> HIDE DEF e, f
  <2>3. QED
    BY <2>1, <2>2, Zenon
<1> HIDE DEF e, f
<1>7. Snapshot' = Fold(log')
  <2>1. CASE driver = u
    BY <1>1, <1>3, <1>4, <1>5, <1>6, <2>1, AppendsTwo, SnapshotView DEF HistoryInv
  <2>2. CASE driver # u
    BY <1>1, <1>4, <1>5, <2>2, AppendsOne, SnapshotView DEF HistoryInv
  <2>3. QED
    BY <2>1, <2>2
<1>8. OutputsInv'
  <2>1. CASE driver = u
    BY <1>1, <1>3, <1>4, <2>1, AppendsTwo, OutputsKept
  <2>2. CASE driver # u
    BY <1>1, <1>4, <2>2, AppendsOne, OutputsKept
  <2>3. QED
    BY <2>1, <2>2
<1>9. QED
  BY <1>4, <1>7, <1>8 DEF HistoryInv

LEMMA HandoverControlHistory ==
  ASSUME SessionInv, HistoryInv, OutputsInv, NEW by \in User, NEW to \in User,
         HandoverControl(by, to)
  PROVE  HistoryInv' /\ OutputsInv'
<1> DEFINE e == Handed(by, to)
<1>1. e \in LogEvent /\ e.type # "command.output"
  BY HandoverType DEF Handed
<1>2. /\ AppendAll(<<e>>) /\ driver' = to /\ status # "none"
      /\ UNCHANGED <<job, status, present, run, docs>>
  BY DEF HandoverControl, ActsIn
<1>3. applyCollabEvent(ViewOf(log, status, driver, present, run, docs), e) =
        ViewOf(Append(log, e), status, to, present, run, docs)
  BY HandedView DEF SessionInv, LogOK
<1> HIDE DEF e
<1>4. Snapshot' = Fold(log')
  BY <1>1, <1>2, <1>3, AppendsOne, SnapshotView DEF HistoryInv
<1>5. OutputsInv'
  BY <1>1, <1>2, AppendsOne, OutputsKept
<1>6. QED
  BY <1>2, <1>4, <1>5 DEF HistoryInv

LEMMA EndSessionHistory ==
  ASSUME SessionInv, HistoryInv, OutputsInv, NEW u \in User, EndSession(u)
  PROVE  HistoryInv' /\ OutputsInv'
<1> DEFINE e == Event("session.ended", u)
<1>1. e \in LogEvent /\ e.type # "command.output"
  BY UserEventType DEF Event
<1>2. /\ AppendAll(<<e>>) /\ status' = "ended" /\ status # "none"
      /\ UNCHANGED <<job, driver, present, run, docs>>
  BY DEF EndSession, ActsIn, CanEnd
<1>3. applyCollabEvent(ViewOf(log, status, driver, present, run, docs), e) =
        ViewOf(Append(log, e), "ended", driver, present, run, docs)
  BY EndedView DEF SessionInv, LogOK
<1> HIDE DEF e
<1>4. Snapshot' = Fold(log')
  BY <1>1, <1>2, <1>3, AppendsOne, SnapshotView DEF HistoryInv
<1>5. OutputsInv'
  BY <1>1, <1>2, AppendsOne, OutputsKept
<1>6. QED
  BY <1>2, <1>4, <1>5 DEF HistoryInv

LEMMA CreateDocHistory ==
  ASSUME SessionInv, HistoryInv, OutputsInv, NEW u \in User, NEW d \in Doc, CreateDoc(u, d)
  PROVE  HistoryInv' /\ OutputsInv'
<1> DEFINE e == DocEvent("doc.created", u, d, 0)
<1>1. e \in LogEvent /\ e.type # "command.output"
  BY DocEventType DEF DocEvent
<1>2. /\ AppendAll(<<e>>) /\ docs' = With(docs, d, 0) /\ status # "none"
      /\ UNCHANGED <<job, status, driver, present, run>>
  BY DEF CreateDoc, ActsIn
<1>3. applyCollabEvent(ViewOf(log, status, driver, present, run, docs), e) =
        ViewOf(Append(log, e), status, driver, present, run, With(docs, d, 0))
  BY DocViews DEF SessionInv, LogOK
<1> HIDE DEF e
<1>4. Snapshot' = Fold(log')
  BY <1>1, <1>2, <1>3, AppendsOne, SnapshotView DEF HistoryInv
<1>5. OutputsInv'
  BY <1>1, <1>2, AppendsOne, OutputsKept
<1>6. QED
  BY <1>2, <1>4, <1>5 DEF HistoryInv

LEMMA SubmitDocOpHistory ==
  ASSUME SessionInv, HistoryInv, OutputsInv, NEW u \in User, NEW d \in Doc, SubmitDocOp(u, d)
  PROVE  HistoryInv' /\ OutputsInv'
<1> DEFINE e == DocEvent("doc.op", u, d, docs[d] + 1)
<1>1. docs[d] + 1 \in Nat
  BY DEF SessionInv, DocsOK, SubmitDocOp
<1>2. e \in LogEvent /\ e.type # "command.output"
  BY <1>1, DocEventType DEF DocEvent
<1>3. /\ AppendAll(<<e>>) /\ docs' = With(docs, d, docs[d] + 1) /\ status # "none"
      /\ UNCHANGED <<job, status, driver, present, run>>
  BY DEF SubmitDocOp, ActsIn
<1>4. applyCollabEvent(ViewOf(log, status, driver, present, run, docs), e) =
        ViewOf(Append(log, e), status, driver, present, run, With(docs, d, docs[d] + 1))
  BY <1>1, DocViews DEF SessionInv, LogOK
<1> HIDE DEF e
<1>5. Snapshot' = Fold(log')
  BY <1>2, <1>3, <1>4, AppendsOne, SnapshotView DEF HistoryInv
<1>6. OutputsInv'
  BY <1>2, <1>3, AppendsOne, OutputsKept
<1>7. QED
  BY <1>3, <1>5, <1>6 DEF HistoryInv

\* Steps that touch neither the log nor the tables but may give a job more rows.
LEMMA StillHistory ==
  ASSUME SessionInv, HistoryInv, OutputsInv, UNCHANGED tables,
         \A j \in Job : /\ run[j].forwarded <= job'[j].chunks
                        /\ job'[j].status = "none" => job[j].status = "none"
  PROVE  HistoryInv' /\ OutputsInv'
<1>1. HistoryInv'
  BY SnapshotView DEF HistoryInv, tables
<1>2. OutputsInv'
  BY SnapshotView DEF OutputsInv, tables
<1>3. QED
  BY <1>1, <1>2

LEMMA RunCommandHistory ==
  ASSUME SessionInv, HistoryInv, OutputsInv, NEW u \in User, NEW j \in Job, RunCommand(u, j)
  PROVE  HistoryInv' /\ OutputsInv'
<1> DEFINE e == RunEvent("command.queued", j)
<1>1. e \in LogEvent /\ e.type # "command.output"
  BY RunEventTypes DEF RunEvent
<1>2. /\ job[j].status = "none" /\ run[j].status = "none" /\ run[j].forwarded = 0
      /\ OutputIn(log, j) = <<>> /\ job \in [Job -> JobRow] /\ run \in [Job -> RunRow]
      /\ log \in Seq(LogEvent) /\ status # "none"
  BY SnapshotView DEF RunCommand, MayRun, ActsIn, OutputsInv, SessionInv, RunsOK, LogOK
<1>3. CASE Len(log) < Capacity(FALSE)
  <2>1. /\ AppendAll(<<e>>) /\ job' = [job EXCEPT ![j] = QueuedJob]
        /\ run' = [run EXCEPT ![j] = [status |-> "queued", forwarded |-> 0]]
        /\ UNCHANGED <<status, driver, present, docs>>
    BY <1>3 DEF RunCommand
  <2>2. PICK next : /\ next = run' /\ next[j].status = "queued"
                    /\ \A i \in Job : i # j => next[i].status = run[i].status
    BY <1>2, <2>1
  <2>3. applyCollabEvent(ViewOf(log, status, driver, present, run, docs), e) =
          ViewOf(Append(log, e), status, driver, present, next, docs)
    BY <1>2, <2>2, QueuedView
  <2> HIDE DEF e
  <2>4. Snapshot' = Fold(log')
    BY <1>1, <2>1, <2>2, <2>3, AppendsOne, SnapshotView DEF HistoryInv
  <2>5. /\ \A i \in Job : OutputIn(log', i) = OutputIn(log, i)
        /\ Len(log') \in Nat /\ Len(log') >= Len(log)
    BY <1>1, <2>1, AppendsOne
  <2>6. \A i \in Job : i # j => job'[i] = job[i] /\ run'[i] = run[i]
    BY <1>2, <2>1
  <2>7. /\ job'[j].chunks = 0 /\ job'[j].status = "queued"
        /\ run'[j].forwarded = 0 /\ run'[j].status = "queued"
    BY <1>2, <2>1 DEF QueuedJob
  <2>8. OutputsInv'
    <3>1. Len(log) \in Nat /\ MaxEvents \in Nat
      BY <1>2, LimitType
    <3>2. ASSUME NEW i \in Job, i # j
          PROVE  /\ run'[i].forwarded <= job'[i].chunks
                 /\ run'[i].status = "none" => run'[i].forwarded = 0 /\ OutputIn(log', i) = <<>>
                 /\ job'[i].status = "none" => run'[i].status = "none"
                 /\ OutputIn(log', i) = [k \in 1 .. Len(OutputIn(log', i)) |-> k]
                 /\ Len(OutputIn(log', i)) # run'[i].forwarded => Len(log') >= MaxEvents
      BY <2>5, <2>6, <3>1, <3>2, SnapshotView DEF OutputsInv
    <3>3. OutputIn(log', j) = <<>>
      BY <1>2, <2>5
    <3>4. /\ OutputIn(log', j) = [k \in 1 .. Len(OutputIn(log', j)) |-> k]
          /\ Len(OutputIn(log', j)) = 0
      BY <3>3
    <3>5. /\ run'[j].forwarded <= job'[j].chunks
          /\ run'[j].status = "none" => run'[j].forwarded = 0 /\ OutputIn(log', j) = <<>>
          /\ job'[j].status = "none" => run'[j].status = "none"
          /\ OutputIn(log', j) = [k \in 1 .. Len(OutputIn(log', j)) |-> k]
          /\ Len(OutputIn(log', j)) # run'[j].forwarded => Len(log') >= MaxEvents
      BY <2>7, <3>3, <3>4
    <3>6. ASSUME NEW i \in Job
          PROVE  /\ run'[i].forwarded <= job'[i].chunks
                 /\ run'[i].status = "none" => run'[i].forwarded = 0 /\ OutputIn(log', i) = <<>>
                 /\ job'[i].status = "none" => run'[i].status = "none"
                 /\ OutputIn(log', i) = [k \in 1 .. Len(OutputIn(log', i)) |-> k]
                 /\ Len(OutputIn(log', i)) # run'[i].forwarded => Len(log') >= MaxEvents
      <4>1. CASE i = j
        BY <3>5, <4>1
      <4>2. CASE i # j
        BY <3>2, <4>2
      <4>3. QED
        BY <4>1, <4>2
    <3>7. \A i \in Job : OutputOf(i)' = OutputIn(log', i)
      BY SnapshotView
    <3>8. QED
      BY <3>6, <3>7 DEF OutputsInv
  <2>9. QED
    BY <1>2, <2>1, <2>4, <2>8 DEF HistoryInv
<1>4. CASE ~(Len(log) < Capacity(FALSE))
  <2>1. UNCHANGED tables /\ job' = [job EXCEPT ![j] = [QueuedJob EXCEPT !.status = "canceled"]]
    BY <1>4 DEF RunCommand, tables
  <2>2. /\ job'[j].chunks = 0 /\ job'[j].status = "canceled"
        /\ \A i \in Job : i # j => job'[i] = job[i]
    BY <1>2, <2>1 DEF QueuedJob
  <2>3. QED
    BY <1>2, <2>1, <2>2, StillHistory DEF OutputsInv
<1>5. QED
  BY <1>3, <1>4

LEMMA RunCutShortHistory ==
  ASSUME SessionInv, HistoryInv, OutputsInv, NEW u \in User, NEW j \in Job, RunCutShort(u, j)
  PROVE  HistoryInv' /\ OutputsInv'
<1>1. /\ job[j].status = "none" /\ run[j].forwarded = 0 /\ job \in [Job -> JobRow]
  BY DEF RunCutShort, MayRun, OutputsInv, SessionInv, RunsOK
<1>2. UNCHANGED tables /\ job' = [job EXCEPT ![j] = QueuedJob]
  BY DEF RunCutShort
<1>3. /\ job'[j].chunks = 0 /\ job'[j].status = "queued"
      /\ \A i \in Job : i # j => job'[i] = job[i]
  BY <1>1, <1>2 DEF QueuedJob
<1>4. QED
  BY <1>1, <1>2, <1>3, StillHistory DEF OutputsInv

\* A pump, whoever started it, with the row a job has from now on.
LEMMA PumpKeepsHistory ==
  ASSUME SessionInv, HistoryInv, OutputsInv, NEW j \in Job, NEW row \in JobRow,
         Pump(j, row), run[j].forwarded <= row.chunks,
         row.status = "none" => run[j].status = "none",
         job'[j] = row, \A i \in Job : i # j => job'[i] = job[i],
         UNCHANGED <<status, driver, present, docs>>
  PROVE  HistoryInv' /\ OutputsInv'
<1>1. CASE UNCHANGED <<log, run>>
  <2>1. \A i \in Job : /\ run[i].forwarded <= job'[i].chunks
                        /\ job'[i].status = "none" => job[i].status = "none" \/ i = j
    BY DEF OutputsInv
  <2>2. UNCHANGED tables
    BY <1>1 DEF tables
  <2>3. HistoryInv'
    BY <2>2, SnapshotView DEF HistoryInv, tables
  <2>4. OutputsInv'
    BY <1>1, <2>1, SnapshotView DEF OutputsInv
  <2>5. QED
    BY <2>3, <2>4
<1>2. CASE CatchesUp(j, row) /\ Open(j) /\ row.status # "queued"
  <2>1. row.status # "none" /\ run \in [Job -> RunRow]
    BY <1>2 DEF Open, SessionInv, RunsOK
  <2>2. /\ Fold(log') = ViewOf(log', status, driver, present, run', docs)
        /\ \A i \in Job : i # j => OutputIn(log', i) = OutputIn(log, i)
        /\ Len(log') >= Len(log)
        /\ OutputIn(log', j) = [i \in 1 .. Len(OutputIn(log', j)) |-> i]
        /\ Len(OutputIn(log', j)) # row.chunks => Len(log') >= MaxEvents
    BY <1>2, <2>1, PumpHistory
  <2>3. /\ run'[j].status = row.status /\ run'[j].forwarded = row.chunks
        /\ \A i \in Job : i # j => run'[i] = run[i]
    BY <1>2, <2>1 DEF CatchesUp
  <2>4. HistoryInv'
    BY <2>2, SnapshotView DEF HistoryInv
  <2>5. Len(log) \in Nat /\ Len(log') \in Nat /\ MaxEvents \in Nat /\ row.chunks \in Nat
    <3>1. log' \in Seq(LogEvent)
      BY PumpType DEF SessionInv, LogOK, RunsOK
    <3>2. QED
      BY <3>1, LimitType DEF SessionInv, LogOK, JobRow
  <2>6. ASSUME NEW i \in Job, i # j
        PROVE  /\ run'[i].forwarded <= job'[i].chunks
               /\ run'[i].status = "none" => run'[i].forwarded = 0 /\ OutputIn(log', i) = <<>>
               /\ job'[i].status = "none" => run'[i].status = "none"
               /\ OutputIn(log', i) = [k \in 1 .. Len(OutputIn(log', i)) |-> k]
               /\ Len(OutputIn(log', i)) # run'[i].forwarded => Len(log') >= MaxEvents
    BY <2>2, <2>3, <2>5, <2>6, SnapshotView DEF OutputsInv
  <2>7. OutputsInv'
    BY <2>1, <2>2, <2>3, <2>5, <2>6, SnapshotView DEF OutputsInv
  <2>8. QED
    BY <2>4, <2>7
<1>3. QED
  BY <1>1, <1>2 DEF Pump, CatchesUp

\* A job never has less output than before, and never is undone.
LEMMA JobsGrow ==
  ASSUME NEW row \in JobRow, NEW next \in JobSteps(row)
  PROVE  next.chunks >= row.chunks /\ next.status # "none"
<1>1. CASE row.status = "queued"
  <2>1. next.chunks = row.chunks /\ next.status # "none"
    BY <1>1 DEF JobSteps, JobRow
  <2>2. QED
    BY <2>1, LimitType DEF JobRow
<1>2. CASE row.status = "running"
  <2>1. CASE \E s \in Terminal : next = [row EXCEPT !.status = s]
    BY <2>1, LimitType DEF JobRow, Terminal
  <2>2. CASE next = [row EXCEPT !.chunks = row.chunks + 1]
    BY <1>2, <2>2, LimitType DEF JobRow
  <2>3. QED
    BY <1>2, <2>1, <2>2 DEF JobSteps
<1>3. CASE row.status \notin {"queued", "running"}
  BY <1>3 DEF JobSteps
<1>4. QED
  BY <1>1, <1>2, <1>3

LEMMA JobActivityHistory ==
  ASSUME SessionInv, HistoryInv, OutputsInv, NEW j \in Job, JobActivity(j)
  PROVE  HistoryInv' /\ OutputsInv'
<1>1. job \in [Job -> JobRow] /\ run \in [Job -> RunRow] /\ job[j] \in JobRow
  BY DEF SessionInv, RunsOK
<1>2. PICK row \in JobSteps(job[j]) :
        /\ job' = [job EXCEPT ![j] = row]
        /\ Pump(j, row) \/ UNCHANGED <<log, run>>
  BY DEF JobActivity
<1>3. row \in JobRow /\ row.chunks >= job[j].chunks /\ row.status # "none"
  BY <1>1, <1>2, RowTypes, JobsGrow
<1>4. job'[j] = row /\ \A i \in Job : i # j => job'[i] = job[i]
  BY <1>1, <1>2
<1>5. run[j].forwarded <= row.chunks
  <2>1. run[j].forwarded \in Int /\ job[j].chunks \in Int /\ row.chunks \in Int
    BY <1>1, <1>3, LimitType DEF JobRow, RunRow
  <2>2. QED
    BY <1>3, <2>1 DEF OutputsInv
<1>6. UNCHANGED <<status, driver, present, docs>>
  BY DEF JobActivity
<1>7. CASE Pump(j, row)
  BY <1>3, <1>4, <1>5, <1>6, <1>7, PumpKeepsHistory
<1>8. CASE UNCHANGED <<log, run>>
  BY <1>3, <1>4, <1>5, <1>6, <1>8, StillHistory DEF OutputsInv, tables
<1>9. QED
  BY <1>2, <1>7, <1>8

LEMMA CaughtUpHistory ==
  ASSUME SessionInv, HistoryInv, OutputsInv, NEW j \in Job, Pump(j, job[j]),
         UNCHANGED <<job, status, driver, present, docs>>
  PROVE  HistoryInv' /\ OutputsInv'
<1>1. job[j] \in JobRow
  BY DEF SessionInv, RunsOK
<1>2. /\ run[j].forwarded <= job[j].chunks
      /\ job[j].status = "none" => run[j].status = "none"
  BY DEF OutputsInv
<1>3. QED
  BY <1>1, <1>2, PumpKeepsHistory

LEMMA NextHistory ==
  ASSUME SessionInv, HistoryInv, OutputsInv, [SessionNext]_sessionVars
  PROVE  HistoryInv' /\ OutputsInv'
<1>1. ASSUME UNCHANGED tables, UNCHANGED job
      PROVE  HistoryInv' /\ OutputsInv'
  BY <1>1, StillHistory DEF OutputsInv
<1>2. CASE \E u \in User : SetMember(u)
  BY <1>1, <1>2 DEF SetMember
<1>3. CASE Crash
  BY <1>1, <1>3 DEF Crash
<1>4. CASE UNCHANGED sessionVars
  BY <1>1, <1>4 DEF sessionVars, tables
<1>5. CASE \E j \in Job : Poll(j)
  BY <1>5, CaughtUpHistory DEF Poll
<1>6. CASE Restart
  <2>1. CASE Busy
    BY <1>6, <2>1, CaughtUpHistory DEF Restart
  <2>2. CASE ~Busy
    BY <1>1, <1>6, <2>2 DEF Restart, tables
  <2>3. QED
    BY <2>1, <2>2
<1>7. QED
  BY <1>2, <1>3, <1>4, <1>5, <1>6, CreateSessionHistory, JoinSessionHistory,
     LeaveSessionHistory, HandoverControlHistory, EndSessionHistory, CreateDocHistory,
     SubmitDocOpHistory, RunCommandHistory, RunCutShortHistory, JobActivityHistory
     DEF SessionNext

LEMMA InitHistory == SessionInit => HistoryInv /\ OutputsInv
<1> SUFFICES ASSUME SessionInit
             PROVE  HistoryInv /\ OutputsInv
  OBVIOUS
<1>1. \A j \in Job : OutputOf(j) = <<>>
  BY OutputEmpty DEF SessionInit, OutputOf
<1>2. OutputsInv
  <2>1. \A j \in Job : /\ run[j].forwarded = 0 /\ job[j].chunks = 0
                        /\ run[j].status = "none" /\ job[j].status = "none"
    BY DEF SessionInit
  <2>2. \A j \in Job : /\ Len(OutputOf(j)) = 0
                        /\ OutputOf(j) = [i \in 1 .. Len(OutputOf(j)) |-> i]
    <3>1. Len(<<>>) = 0 /\ <<>> = [i \in 1 .. Len(<<>>) |-> i]
      OBVIOUS
    <3>2. QED
      BY <1>1, <3>1, Zenon
  <2>3. QED
    BY <1>1, <2>1, <2>2 DEF OutputsInv
<1>3. Snapshot = NoView
  <2>1. {k \in Job : run[k].status # "none"} = {}
    BY DEF SessionInit
  <2>2. [j \in {k \in Job : run[k].status # "none"} |->
           [status |-> run[j].status, output |-> OutputOf(j)]] = <<>>
    BY <2>1
  <2>3. QED
    BY <2>2 DEF Snapshot, NoView, SessionInit
<1>4. Fold(log) = NoView
  BY FoldEmpty DEF SessionInit
<1>5. QED
  BY <1>2, <1>3, <1>4 DEF HistoryInv, SessionInit

LEMMA SessionKeepsHistory == SessionSpec => [](HistoryInv /\ OutputsInv)
BY InitHistory, NextHistory, SessionIsTyped, PTL DEF SessionSpec

\* What a late joiner is given, the tables and the output found in the log, is what
\* everybody else has who applied the events of the log one by one, for every
\* length of the log, every number of users, jobs and documents and every crash.
THEOREM SnapshotEqualsFold == SessionSpec => []SnapshotIsFold
<1>1. HistoryInv => SnapshotIsFold
  BY DEF HistoryInv, SnapshotIsFold
<1>2. QED
  BY <1>1, SessionKeepsHistory, PTL

\* Output is logged once and in order, and all that was forwarded is in the log
\* unless the log was full, through every mix of wake-up, poll and restart.
THEOREM SessionLogsOutputOnce == SessionSpec => []OutputLoggedOnce
<1>1. OutputsInv => OutputLoggedOnce
  BY DEF OutputsInv, OutputLoggedOnce, Capacity
<1>2. QED
  BY <1>1, SessionKeepsHistory, PTL

----------------------------------------------------------------------------
\* Streams.

LEMMA StreamStepsAreSessionSteps ==
  ASSUME [StreamNext]_streamVars
  PROVE  [SessionNext]_sessionVars
<1>1. CASE SessionStep
  BY <1>1 DEF SessionStep, SessionNext
<1>2. CASE \E j \in Job : PollStep(j)
  BY <1>2 DEF PollStep, SessionNext
<1>3. CASE RestartStep
  BY <1>3 DEF RestartStep, SessionNext
<1>4. CASE ServerDies
  BY <1>4 DEF ServerDies, SessionNext
<1>5. CASE \E u \in User : ChangeMember(u)
  BY <1>5 DEF ChangeMember, SessionNext
<1>6. CASE \E w \in Watcher : Connect(w) \/ Receive(w) \/ Break(w) \/ GiveUp(w)
  BY <1>6 DEF Connect, Receive, Break, GiveUp
<1>7. CASE UNCHANGED streamVars
  BY <1>7 DEF streamVars
<1>8. QED
  BY <1>1, <1>2, <1>3, <1>4, <1>5, <1>6, <1>7 DEF StreamNext

\* A session with streams is a session: no connection, reconnection, resume or
\* reader changes the tables, the log or the runs the hub follows.
THEOREM StreamsLeaveTheSessionAlone == FairStreamSpec => SessionSpec
<1>1. StreamInit => SessionInit
  BY DEF StreamInit
<1>2. QED
  BY <1>1, StreamStepsAreSessionSteps, PTL DEF FairStreamSpec, SessionSpec

----------------------------------------------------------------------------
\* The log only grows, and a session goes from none to active to ended.

Extends(long, short) ==
  /\ Len(short) <= Len(long)
  /\ \A k \in 1 .. Len(short) : long[k] = short[k]

LEMMA ConcatExtends ==
  ASSUME NEW E, NEW short \in Seq(E), NEW more \in Seq(E)
  PROVE  Extends(short \o more, short)
BY DEF Extends

LEMMA SameExtends ==
  ASSUME NEW short \in Seq(LogEvent)
  PROVE  Extends(short, short)
BY DEF Extends

LEMMA AppendAllExtends ==
  ASSUME log \in Seq(LogEvent), NEW events \in Seq(LogEvent), AppendAll(events)
  PROVE  Extends(log', log)
BY ConcatExtends DEF AppendAll

LEMMA PumpExtends ==
  ASSUME log \in Seq(LogEvent), run \in [Job -> RunRow],
         NEW j \in Job, NEW row \in JobRow, Pump(j, row)
  PROVE  Extends(log', log)
<1> DEFINE events == Starts(j, row) \o Fitting(Unread(j, row), Starts(j, row)) \o Ends(j, row)
<1>1. log' = log \o events \/ log' = log
  BY DEF Pump
<1>2. events \in Seq(LogEvent)
  <2>1. Starts(j, row) \o Fitting(Unread(j, row), Starts(j, row)) \in Seq(LogEvent)
    BY PumpedType
  <2>2. QED
    BY <2>1, PumpedType
<1> HIDE DEF events
<1>3. QED
  BY <1>1, <1>2, ConcatExtends, SameExtends

LEMMA LogGrows ==
  ASSUME SessionInv, [SessionNext]_sessionVars
  PROVE  Extends(log', log)
<1>1. log \in Seq(LogEvent) /\ run \in [Job -> RunRow] /\ job \in [Job -> JobRow]
  BY DEF SessionInv, LogOK, RunsOK
<1>2. CASE UNCHANGED log
  BY <1>1, <1>2, SameExtends
<1>3. /\ \A e \in LogEvent : AppendAll(<<e>>) => Extends(log', log)
      /\ \A e, f \in LogEvent : AppendAll(<<e, f>>) => Extends(log', log)
      /\ \A e, f, g \in LogEvent : AppendAll(<<e, f, g>>) => Extends(log', log)
  <2>1. \A events \in Seq(LogEvent) : AppendAll(events) => Extends(log', log)
    BY <1>1, AppendAllExtends
  <2>2. /\ \A e \in LogEvent : <<e>> \in Seq(LogEvent)
        /\ \A e, f \in LogEvent : <<e, f>> \in Seq(LogEvent)
        /\ \A e, f, g \in LogEvent : <<e, f, g>> \in Seq(LogEvent)
    OBVIOUS
  <2>3. QED
    BY <2>1, <2>2, Zenon
<1>4. ASSUME NEW j \in Job, NEW row \in JobRow, Pump(j, row)
      PROVE  Extends(log', log)
  BY <1>1, <1>4, PumpExtends
<1>5. CASE CreateSession
  <2>1. /\ Event("session.started", Owner) \in LogEvent
        /\ DocEvent("doc.created", Owner, Notes, 0) \in LogEvent
        /\ Event("participant.joined", Owner) \in LogEvent
    BY UserEventType, DocEventType, SessionAssumption
  <2>2. QED
    BY <1>3, <1>5, <2>1 DEF CreateSession
<1>6. ASSUME NEW u \in User, JoinSession(u) \/ EndSession(u)
      PROVE  Extends(log', log)
  BY <1>3, <1>6, UserEventType DEF JoinSession, EndSession
<1>7. ASSUME NEW u \in User, LeaveSession(u)
      PROVE  Extends(log', log)
  <2>1. Event("participant.left", u) \in LogEvent /\ Handed(u, Successor(u)) \in LogEvent
    BY UserEventType, HandoverType, SessionAssumption DEF Successor
  <2>2. QED
    BY <1>3, <1>7, <2>1 DEF LeaveSession
<1>8. ASSUME NEW u \in User, NEW to \in User, HandoverControl(u, to)
      PROVE  Extends(log', log)
  BY <1>3, <1>8, HandoverType DEF HandoverControl
<1>9. ASSUME NEW u \in User, NEW d \in Doc, CreateDoc(u, d) \/ SubmitDocOp(u, d)
      PROVE  Extends(log', log)
  <2>1. CASE CreateDoc(u, d)
    BY <1>3, <2>1, DocEventType DEF CreateDoc
  <2>2. CASE SubmitDocOp(u, d)
    <3>1. docs[d] + 1 \in Nat
      BY <2>2 DEF SessionInv, DocsOK, SubmitDocOp
    <3>2. QED
      BY <1>3, <2>2, <3>1, DocEventType DEF SubmitDocOp
  <2>3. QED
    BY <1>9, <2>1, <2>2
<1>10. ASSUME NEW u \in User, NEW j \in Job, RunCommand(u, j)
       PROVE  Extends(log', log)
  BY <1>2, <1>3, <1>10, RunEventTypes DEF RunCommand
<1>11. ASSUME NEW j \in Job, JobActivity(j) \/ Poll(j)
       PROVE  Extends(log', log)
  BY <1>1, <1>2, <1>4, <1>11, RowTypes DEF JobActivity, Poll
<1>12. CASE Restart
  BY <1>1, <1>2, <1>4, <1>12 DEF Restart
<1>13. CASE Crash \/ \E u \in User : SetMember(u) \/ \E j \in Job : RunCutShort(u, j)
  BY <1>2, <1>13 DEF Crash, SetMember, RunCutShort, tables
<1>14. QED
  BY <1>2, <1>5, <1>6, <1>7, <1>8, <1>9, <1>10, <1>11, <1>12, <1>13 DEF SessionNext, sessionVars

LEMMA StatusSteps ==
  ASSUME [SessionNext]_sessionVars
  PROVE  status' = status \/ status' \in {"active", "ended"}
BY DEF SessionNext, sessionVars, tables, CreateSession, JoinSession, LeaveSession, EndSession,
   SetMember, HandoverControl, CreateDoc, SubmitDocOp, RunCommand, RunCutShort, JobActivity,
   Poll, Crash, Restart

----------------------------------------------------------------------------
\* The moments of a log: the views of its prefixes.

ViewAt(l, k)   == Fold(SubSeq(l, 1, k))
IsMoment(l, v) == v.seq \in 0 .. Len(l) /\ v = ViewAt(l, v.seq)

LEMMA StepCounts ==
  ASSUME NEW v, "seq" \in DOMAIN v, v.seq \in Nat, NEW e \in LogEvent
  PROVE  /\ "seq" \in DOMAIN applyCollabEvent(v, e)
         /\ applyCollabEvent(v, e).seq = v.seq + 1
<1> DEFINE next == [v EXCEPT !.seq = @ + 1]
<1>1. "seq" \in DOMAIN next /\ next.seq = v.seq + 1
  OBVIOUS
<1> HIDE DEF next
<1>2. CASE e \in UserEvents
  <2>1. e.type \in {"session.started", "participant.joined", "participant.left", "session.ended"}
    BY <1>2 DEF UserEvents
  <2>2. CASE e.type = "session.started"
    <3>1. applyCollabEvent(v, e) = [next EXCEPT !.status = "active", !.driver = e.actor]
      BY <2>2 DEF applyCollabEvent, next
    <3>2. QED
      BY <1>1, <3>1
  <2>3. CASE e.type = "participant.joined"
    <3>1. applyCollabEvent(v, e) = [next EXCEPT !.present = @ \cup {e.actor}]
      BY <2>3 DEF applyCollabEvent, next
    <3>2. QED
      BY <1>1, <3>1
  <2>4. CASE e.type = "participant.left"
    <3>1. applyCollabEvent(v, e) = [next EXCEPT !.present = @ \ {e.actor}]
      BY <2>4 DEF applyCollabEvent, next
    <3>2. QED
      BY <1>1, <3>1
  <2>5. CASE e.type = "session.ended"
    <3>1. applyCollabEvent(v, e) = [next EXCEPT !.status = "ended"]
      BY <2>5 DEF applyCollabEvent, next
    <3>2. QED
      BY <1>1, <3>1
  <2>6. QED
    BY <2>1, <2>2, <2>3, <2>4, <2>5
<1>3. CASE e \in HandoverEvents
  <2>1. e.type = "control.handover"
    BY <1>3 DEF HandoverEvents
  <2>2. applyCollabEvent(v, e) = [next EXCEPT !.driver = e.to]
    BY <2>1 DEF applyCollabEvent, next
  <2>3. QED
    BY <1>1, <2>2
<1>4. CASE e \in RunEvents
  <2>1. e.type \in {"command.queued", "command.started"}
    BY <1>4 DEF RunEvents
  <2>2. CASE e.type = "command.queued"
    <3>1. applyCollabEvent(v, e) =
            [next EXCEPT !.runs = With(@, e.job, [status |-> "queued", output |-> <<>>])]
      BY <2>2 DEF applyCollabEvent, next
    <3>2. QED
      BY <1>1, <3>1
  <2>3. CASE e.type = "command.started"
    <3>1. applyCollabEvent(v, e) = [next EXCEPT !.runs[e.job].status = "running"]
      BY <2>3 DEF applyCollabEvent, next
    <3>2. QED
      BY <1>1, <3>1
  <2>4. QED
    BY <2>1, <2>2, <2>3
<1>5. CASE e \in OutputEvents \cup FinishedEvents
  <2>1. e.type \in {"command.output", "command.finished"}
    BY <1>5 DEF OutputEvents, FinishedEvents
  <2>2. CASE e.type = "command.output"
    <3>1. applyCollabEvent(v, e) = [next EXCEPT !.runs[e.job].output = Append(@, e.chunk)]
      BY <2>2 DEF applyCollabEvent, next
    <3>2. QED
      BY <1>1, <3>1
  <2>3. CASE e.type = "command.finished"
    <3>1. applyCollabEvent(v, e) = [next EXCEPT !.runs[e.job].status = e.status]
      BY <2>3 DEF applyCollabEvent, next
    <3>2. QED
      BY <1>1, <3>1
  <2>4. QED
    BY <2>1, <2>2, <2>3
<1>6. CASE e \in DocEvents
  <2>1. e.type \in {"doc.created", "doc.op"}
    BY <1>6 DEF DocEvents
  <2>2. applyCollabEvent(v, e) = [next EXCEPT !.docs = With(@, e.doc, e.rev)]
    BY <2>1 DEF applyCollabEvent, next
  <2>3. QED
    BY <1>1, <2>2
<1>7. QED
  BY <1>2, <1>3, <1>4, <1>5, <1>6 DEF LogEvent

\* A view counts the events it has seen.
LEMMA FoldCounts ==
  ASSUME NEW l \in Seq(LogEvent)
  PROVE  Fold(l).seq = Len(l)
<1> DEFINE S == {s \in Seq(LogEvent) : "seq" \in DOMAIN Fold(s) /\ Fold(s).seq = Len(s)}
<1>1. <<>> \in S
  BY FoldEmpty DEF NoView
<1>2. ASSUME NEW s \in Seq(LogEvent), NEW e \in LogEvent, s \in S
      PROVE  Append(s, e) \in S
  <2>1. Fold(Append(s, e)) = applyCollabEvent(Fold(s), e)
    BY FoldAppend
  <2>2. "seq" \in DOMAIN Fold(s) /\ Fold(s).seq = Len(s) /\ Len(s) \in Nat
    BY <1>2
  <2>3. /\ "seq" \in DOMAIN applyCollabEvent(Fold(s), e)
        /\ applyCollabEvent(Fold(s), e).seq = Len(s) + 1
    BY <2>2, StepCounts
  <2>4. Append(s, e) \in Seq(LogEvent) /\ Len(Append(s, e)) = Len(s) + 1
    OBVIOUS
  <2>5. QED
    BY <2>1, <2>3, <2>4
<1>3. \A s \in Seq(LogEvent) : s \in S
  <2> HIDE DEF S
  <2>1. QED
    BY <1>1, <1>2, SeqSetInduction
<1>4. QED
  BY <1>3

LEMMA PrefixType ==
  ASSUME NEW l \in Seq(LogEvent), NEW k \in 0 .. Len(l)
  PROVE  /\ SubSeq(l, 1, k) \in Seq(LogEvent)
         /\ Len(SubSeq(l, 1, k)) = k
OBVIOUS

LEMMA ViewCounts ==
  ASSUME NEW l \in Seq(LogEvent), NEW k \in 0 .. Len(l)
  PROVE  ViewAt(l, k).seq = k
<1>1. SubSeq(l, 1, k) \in Seq(LogEvent) /\ Len(SubSeq(l, 1, k)) = k
  BY PrefixType
<1>2. QED
  BY <1>1, FoldCounts DEF ViewAt

LEMMA NothingSeen ==
  ASSUME NEW l
  PROVE  ViewAt(l, 0) = NoView
<1>1. SubSeq(l, 1, 0) = <<>>
  OBVIOUS
<1>2. QED
  BY <1>1, FoldEmpty DEF ViewAt

LEMMA AllSeen ==
  ASSUME NEW l \in Seq(LogEvent)
  PROVE  ViewAt(l, Len(l)) = Fold(l)
<1>1. SubSeq(l, 1, Len(l)) = l
  OBVIOUS
<1>2. QED
  BY <1>1 DEF ViewAt

LEMMA NextSeen ==
  ASSUME NEW l \in Seq(LogEvent), NEW k \in 0 .. Len(l) - 1
  PROVE  ViewAt(l, k + 1) = applyCollabEvent(ViewAt(l, k), l[k + 1])
<1>1. /\ SubSeq(l, 1, k) \in Seq(LogEvent)
      /\ l[k + 1] \in LogEvent
      /\ SubSeq(l, 1, k + 1) = Append(SubSeq(l, 1, k), l[k + 1])
  OBVIOUS
<1>2. Fold(Append(SubSeq(l, 1, k), l[k + 1])) = applyCollabEvent(Fold(SubSeq(l, 1, k)), l[k + 1])
  BY <1>1, FoldAppend
<1>3. QED
  BY <1>1, <1>2 DEF ViewAt

\* A moment of a log is one of every longer log.
LEMMA MomentStays ==
  ASSUME NEW l \in Seq(LogEvent), NEW long \in Seq(LogEvent), Extends(long, l),
         NEW v, IsMoment(l, v)
  PROVE  IsMoment(long, v)
<1>1. v.seq \in 0 .. Len(l) /\ v.seq \in 0 .. Len(long)
  BY DEF IsMoment, Extends
<1>2. \A k \in 0 .. Len(l) : SubSeq(long, 1, k) = SubSeq(l, 1, k)
  <2>1. SUFFICES ASSUME NEW k \in 0 .. Len(l)
                 PROVE  SubSeq(long, 1, k) = SubSeq(l, 1, k)
    OBVIOUS
  <2>2. \A i \in 1 .. k : long[i] = l[i] /\ i + 1 - 1 = i
    BY DEF Extends
  <2>3. /\ SubSeq(long, 1, k) = [i \in 1 .. k |-> long[i]]
        /\ SubSeq(l, 1, k) = [i \in 1 .. k |-> l[i]]
    BY DEF Extends
  <2>4. QED
    BY <2>2, <2>3
<1>3. QED
  BY <1>1, <1>2 DEF IsMoment, ViewAt

----------------------------------------------------------------------------
\* Connections.  The inductive invariant says of each what StreamsAreExact does,
\* and also that what it has and the snapshot it will get are moments of the log,
\* that its events are in the log, that nothing is under way on a connection that is
\* not open, and that one that is fed is not told yet that the stream is over.

Views == {Fold(l) : l \in Seq(LogEvent)}
Frame == {SnapshotFrame(v) : v \in Views} \cup {EventFrame(n) : n \in Nat} \cup
         {EndFrame, RevokedFrame}
Connection == [pc : {"down", "open", "closed"}, view : Views, pipe : Seq(Frame), fed : BOOLEAN]

\* What a client will have read before the frames on their way to it, which are
\* counted from one.
Base(c) ==
  IF c.pipe # <<>> /\ c.pipe[1].kind = "snapshot" THEN c.pipe[1].view.seq - 1 ELSE c.view.seq

FrameOK(l, st, c, i) ==
  \/ c.pipe[i].kind = "snapshot" /\ i = 1 /\ IsMoment(l, c.pipe[i].view)
  \/ c.pipe[i].kind = "event" /\ c.pipe[i].seq = Base(c) + i /\ c.pipe[i].seq \in 1 .. Len(l)
  \/ c.pipe[i].kind = "revoked" /\ i = Len(c.pipe)
  \/ c.pipe[i].kind = "end" /\ i = Len(c.pipe) /\ Base(c) + i - 1 = Len(l) /\ st = "ended"
FedOK(l, st, c) ==
  /\ st = "active"
  /\ Base(c) + Len(c.pipe) = Len(l)
  /\ \A i \in 1 .. Len(c.pipe) : c.pipe[i].kind \in {"snapshot", "event"}
ConnOK(l, st, c) ==
  /\ c \in Connection
  /\ IsMoment(l, c.view)
  /\ c.pc # "open" => c.pipe = <<>> /\ ~c.fed
  /\ \A i \in 1 .. Len(c.pipe) : FrameOK(l, st, c, i)
  /\ c.fed => FedOK(l, st, c)

StreamInv ==
  /\ DOMAIN conn = Watcher
  /\ \A w \in Watcher : ConnOK(log, status, conn[w])

LEMMA ViewsCount ==
  ASSUME NEW v \in Views
  PROVE  v.seq \in Nat
BY FoldCounts DEF Views

LEMMA NoViewIsView ==
  ASSUME NEW l \in Seq(LogEvent)
  PROVE  NoView \in Views /\ NoView.seq = 0 /\ IsMoment(l, NoView)
<1>1. NoView \in Views
  <2>1. <<>> \in Seq(LogEvent)
    OBVIOUS
  <2>2. QED
    BY <2>1, FoldEmpty, Zenon DEF Views
<1>2. NoView.seq = 0
  BY DEF NoView
<1>3. QED
  BY <1>1, <1>2, NothingSeen DEF IsMoment

LEMMA MomentIsView ==
  ASSUME NEW l \in Seq(LogEvent), NEW v, IsMoment(l, v)
  PROVE  v \in Views /\ v.seq \in 0 .. Len(l)
BY PrefixType DEF IsMoment, ViewAt, Views

LEMMA FoldIsMoment ==
  ASSUME NEW l \in Seq(LogEvent)
  PROVE  IsMoment(l, Fold(l)) /\ Fold(l).seq = Len(l)
BY FoldCounts, AllSeen DEF IsMoment

LEMMA FrameTypes ==
  /\ EndFrame \in Frame /\ EndFrame.kind = "end"
  /\ RevokedFrame \in Frame /\ RevokedFrame.kind = "revoked"
  /\ \A n \in Nat : EventFrame(n) \in Frame /\ EventFrame(n).kind = "event" /\ EventFrame(n).seq = n
  /\ \A v \in Views : /\ SnapshotFrame(v) \in Frame /\ SnapshotFrame(v).kind = "snapshot"
                      /\ SnapshotFrame(v).view = v
BY DEF Frame, EndFrame, RevokedFrame, EventFrame, SnapshotFrame

LEMMA FrameIsOne ==
  ASSUME NEW f \in Frame
  PROVE  /\ f.kind \in {"snapshot", "event", "revoked", "end"}
         /\ f.kind = "snapshot" => f.view \in Views
         /\ f.kind = "event" => f.seq \in Nat
BY DEF Frame, EndFrame, RevokedFrame, EventFrame, SnapshotFrame

LEMMA BaseType ==
  ASSUME NEW c \in Connection
  PROVE  Base(c) \in Int
<1>1. c.view.seq \in Nat
  BY ViewsCount DEF Connection
<1>2. ASSUME c.pipe # <<>>
      PROVE  c.pipe[1] \in Frame
  BY <1>2 DEF Connection
<1>3. QED
  BY <1>1, <1>2, FrameIsOne, ViewsCount DEF Base

\* What is sent after a frame that is there does not change what that one means.
LEMMA BaseStays ==
  ASSUME NEW c \in Connection, NEW d \in Connection, d.view = c.view,
         Len(c.pipe) <= Len(d.pipe),
         \A i \in 1 .. Len(c.pipe) : d.pipe[i] = c.pipe[i],
         Len(c.pipe) = 0 /\ Len(d.pipe) > 0 => d.pipe[1].kind # "snapshot"
  PROVE  Base(d) = Base(c)
<1>1. /\ c.pipe \in Seq(Frame) /\ (c.pipe = <<>> <=> Len(c.pipe) = 0) /\ Len(c.pipe) \in Nat
      /\ d.pipe \in Seq(Frame) /\ (d.pipe = <<>> <=> Len(d.pipe) = 0) /\ Len(d.pipe) \in Nat
  BY DEF Connection
<1>2. CASE Len(c.pipe) = 0
  BY <1>1, <1>2 DEF Base
<1>3. CASE Len(c.pipe) > 0
  <2>1. d.pipe[1] = c.pipe[1] /\ d.pipe # <<>> /\ c.pipe # <<>>
    BY <1>1, <1>3
  <2>2. QED
    BY <2>1 DEF Base
<1>4. QED
  BY <1>1, <1>2, <1>3

\* A connection that is not fed is not disturbed by what happens in the session.
LEMMA QuietStays ==
  ASSUME NEW l \in Seq(LogEvent), NEW long \in Seq(LogEvent), Extends(long, l),
         NEW st, NEW next, st = "ended" => long = l /\ next = st,
         NEW c, ConnOK(l, st, c), ~c.fed
  PROVE  ConnOK(long, next, c)
<1>1. IsMoment(long, c.view)
  BY MomentStays DEF ConnOK
<1>2. ASSUME NEW i \in 1 .. Len(c.pipe)
      PROVE  FrameOK(long, next, c, i)
  <2>1. FrameOK(l, st, c, i)
    BY DEF ConnOK
  <2>2. CASE c.pipe[i].kind = "snapshot" /\ i = 1 /\ IsMoment(l, c.pipe[i].view)
    BY <2>2, MomentStays DEF FrameOK
  <2>3. CASE /\ c.pipe[i].kind = "event" /\ c.pipe[i].seq = Base(c) + i
             /\ c.pipe[i].seq \in 1 .. Len(l)
    BY <2>3 DEF FrameOK, Extends
  <2>4. CASE c.pipe[i].kind = "revoked" /\ i = Len(c.pipe)
    BY <2>4 DEF FrameOK
  <2>5. CASE /\ c.pipe[i].kind = "end" /\ i = Len(c.pipe)
             /\ Base(c) + i - 1 = Len(l) /\ st = "ended"
    BY <2>5 DEF FrameOK
  <2>6. QED
    BY <2>1, <2>2, <2>3, <2>4, <2>5 DEF FrameOK
<1>3. QED
  BY <1>1, <1>2 DEF ConnOK

LEMMA PipeParts ==
  ASSUME NEW m \in Nat, NEW n \in Nat
  PROVE  /\ \A i \in 1 .. m + n : i \in 1 .. m \/ i \in m + 1 .. m + n
         /\ \A i \in 1 .. m + n + 1 : i \in 1 .. m \/ i \in m + 1 .. m + n \/ i = m + n + 1
         /\ m <= m + n /\ m <= m + n + 1
         /\ m = 0 => n = 0 \/ 1 \in m + 1 .. m + n
OBVIOUS

LEMMA PipeCounts ==
  ASSUME NEW base \in Int, NEW m \in Nat, NEW n \in Nat, NEW len \in Nat,
         base + m \in Nat, (base + m) + n = len
  PROVE  /\ \A i \in m + 1 .. m + n : base + i \in 1 .. len
         /\ base + (m + n) = len
         /\ base + (m + n + 1) - 1 = len
OBVIOUS

\* The pipe long is the pipe short and n frames for the next events, or the pipe short
\* and the end.
Feeds(long, short, base, n) ==
  /\ long \in Seq(Frame) /\ Len(long) = Len(short) + n
  /\ \A i \in 1 .. Len(short) : long[i] = short[i]
  /\ \A i \in Len(short) + 1 .. Len(short) + n : long[i].kind = "event" /\ long[i].seq = base + i
Ended(long, short) ==
  /\ long \in Seq(Frame) /\ Len(long) = Len(short) + 1
  /\ \A i \in 1 .. Len(short) : long[i] = short[i]
  /\ long[Len(short) + 1].kind = "end"

\* One that is fed gets the new events, and the end after the last.
LEMMA FeedGrows ==
  ASSUME NEW l \in Seq(LogEvent), NEW long \in Seq(LogEvent), Extends(long, l),
         NEW n \in Nat, Len(long) = Len(l) + n,
         NEW c, ConnOK(l, "active", c), c.fed,
         NEW pipe, Feeds(pipe, c.pipe, Base(c), n),
         NEW next \in {"active", "ended"},
         NEW d \in Connection, d.pc = c.pc, d.view = c.view, d.fed = (next = "active"),
         next = "active" => d.pipe = pipe,
         next = "ended" => Ended(d.pipe, pipe)
  PROVE  ConnOK(long, next, d)
<1> PICK m \in Nat : m = Len(c.pipe)
  BY DEF ConnOK, Connection
<1>0. /\ next = "active" => Len(d.pipe) = m + n
      /\ next = "ended" => Len(d.pipe) = m + n + 1 /\ d.pipe[m + n + 1].kind = "end"
      /\ \A i \in 1 .. m + n : d.pipe[i] = pipe[i]
      /\ \A i \in 1 .. m : d.pipe[i] = c.pipe[i]
      /\ \A i \in m + 1 .. m + n : d.pipe[i].kind = "event" /\ d.pipe[i].seq = Base(c) + i
  <2>1. /\ Len(pipe) = m + n
        /\ \A i \in 1 .. m : pipe[i] = c.pipe[i] /\ i \in 1 .. m + n
        /\ \A i \in m + 1 .. m + n :
              pipe[i].kind = "event" /\ pipe[i].seq = Base(c) + i /\ i \in 1 .. m + n
    BY DEF Feeds
  <2>2. \A i \in 1 .. m + n : d.pipe[i] = pipe[i]
    BY <2>1 DEF Ended
  <2>3. /\ next = "active" => Len(d.pipe) = m + n
        /\ next = "ended" => Len(d.pipe) = m + n + 1 /\ d.pipe[m + n + 1].kind = "end"
    BY <2>1 DEF Ended
  <2>4. \A i \in 1 .. m : d.pipe[i] = c.pipe[i]
    BY <2>1, <2>2
  <2>5. \A i \in m + 1 .. m + n : d.pipe[i].kind = "event" /\ d.pipe[i].seq = Base(c) + i
    BY <2>1, <2>2
  <2>6. QED
    BY <2>2, <2>3, <2>4, <2>5
<1>1. Len(l) \in Nat /\ Len(long) \in Nat /\ c \in Connection /\ Base(c) \in Int
  BY BaseType DEF ConnOK, Extends
<1>2. Base(c) + m = Len(l)
  BY DEF ConnOK, FedOK
<1>3. c.pc = "open" /\ IsMoment(l, c.view)
  BY DEF ConnOK
<1>4. /\ \A i \in m + 1 .. m + n : Base(c) + i \in 1 .. Len(long)
      /\ Base(c) + (m + n) = Len(long)
      /\ Base(c) + (m + n + 1) - 1 = Len(long)
  <2>1. PICK base \in Int, len \in Nat : base = Base(c) /\ len = Len(long)
    BY <1>1
  <2>2. base + m \in Nat /\ (base + m) + n = len
    BY <1>1, <1>2, <2>1
  <2>3. /\ \A i \in m + 1 .. m + n : base + i \in 1 .. len
        /\ base + (m + n) = len
        /\ base + (m + n + 1) - 1 = len
    BY <2>2, PipeCounts
  <2>4. QED
    BY <2>1, <2>3
<1>5. m <= Len(d.pipe)
  BY <1>0, PipeParts
<1>6. Base(d) = Base(c)
  <2>1. m = 0 /\ Len(d.pipe) > 0 => d.pipe[1].kind # "snapshot"
    <3>1. CASE m = 0 /\ n = 0
      <4>1. m + n = 0 /\ m + n + 1 = 1
        BY <3>1
      <4>2. QED
        BY <1>0, <4>1
    <3>2. CASE m = 0 /\ n # 0
      <4>1. 1 \in m + 1 .. m + n
        BY <3>2, PipeParts
      <4>2. QED
        BY <1>0, <4>1
    <3>3. QED
      BY <3>1, <3>2
  <2>2. QED
    BY <1>1, <1>5, <1>0, <2>1, BaseStays
<1>7. ASSUME NEW i \in 1 .. m
      PROVE  FrameOK(long, next, d, i) /\ d.pipe[i].kind \in {"snapshot", "event"}
  <2>1. /\ d.pipe[i] = c.pipe[i] /\ c.pipe[i].kind \in {"snapshot", "event"}
        /\ FrameOK(l, "active", c, i)
    BY <1>0 DEF ConnOK, FedOK
  <2>2. CASE c.pipe[i].kind = "snapshot"
    <3>1. i = 1 /\ IsMoment(l, c.pipe[i].view)
      BY <2>1, <2>2 DEF FrameOK
    <3>2. IsMoment(long, d.pipe[i].view)
      BY <2>1, <3>1, MomentStays
    <3>3. QED
      BY <2>1, <2>2, <3>1, <3>2 DEF FrameOK
  <2>3. CASE c.pipe[i].kind = "event"
    <3>1. c.pipe[i].seq = Base(c) + i /\ c.pipe[i].seq \in 1 .. Len(l)
      BY <2>1, <2>3 DEF FrameOK
    <3>2. /\ d.pipe[i].kind = "event" /\ d.pipe[i].seq = Base(d) + i
          /\ d.pipe[i].seq \in 1 .. Len(long)
      BY <1>1, <1>6, <2>1, <2>3, <3>1
    <3>3. QED
      BY <3>2 DEF FrameOK
  <2>4. QED
    BY <2>1, <2>2, <2>3
<1>8. ASSUME NEW i \in m + 1 .. m + n
      PROVE  FrameOK(long, next, d, i) /\ d.pipe[i].kind \in {"snapshot", "event"}
  BY <1>4, <1>6, <1>0 DEF FrameOK
<1>9. IsMoment(long, d.view)
  BY <1>3, MomentStays
<1>10. CASE next = "ended"
  <2>1. FrameOK(long, next, d, m + n + 1)
    BY <1>4, <1>6, <1>0, <1>10 DEF FrameOK
  <2>2. \A i \in 1 .. m + n + 1 : FrameOK(long, next, d, i)
    BY <1>7, <1>8, <2>1, PipeParts
  <2>3. d.pc = "open" /\ ~d.fed /\ Len(d.pipe) = m + n + 1
    BY <1>3, <1>0, <1>10
  <2>4. QED
    BY <1>9, <2>2, <2>3 DEF ConnOK
<1>11. CASE next = "active"
  <2>1. \A i \in 1 .. m + n :
           FrameOK(long, next, d, i) /\ d.pipe[i].kind \in {"snapshot", "event"}
    BY <1>7, <1>8, PipeParts
  <2>2. d.pc = "open" /\ d.fed /\ Len(d.pipe) = m + n
    BY <1>3, <1>0, <1>11
  <2>3. FedOK(long, next, d)
    BY <1>4, <1>6, <1>11, <2>1, <2>2 DEF FedOK
  <2>4. QED
    BY <1>9, <2>1, <2>2, <2>3 DEF ConnOK
<1>12. QED
  BY <1>10, <1>11

Continues(l, long, n, c, pipe, next, d) ==
  /\ l \in Seq(LogEvent) /\ long \in Seq(LogEvent) /\ Extends(long, l)
  /\ n \in Nat /\ Len(long) = Len(l) + n
  /\ ConnOK(l, "active", c) /\ c.fed
  /\ Feeds(pipe, c.pipe, Base(c), n)
  /\ next \in {"active", "ended"}
  /\ d \in Connection /\ d.pc = c.pc /\ d.view = c.view /\ d.fed = (next = "active")
  /\ next = "active" => d.pipe = pipe
  /\ next = "ended" => Ended(d.pipe, pipe)

LEMMA FeedStays ==
  ASSUME NEW l, NEW long, NEW n, NEW c, NEW pipe, NEW next, NEW d,
         Continues(l, long, n, c, pipe, next, d)
  PROVE  ConnOK(long, next, d)
BY FeedGrows DEF Continues

----------------------------------------------------------------------------
\* What is published.

Carries(frames, len, n) ==
  /\ frames \in Seq(Frame) /\ Len(frames) = n
  /\ \A i \in 1 .. n : frames[i].kind = "event" /\ frames[i].seq = len + i

LEMMA EventFramesCarry ==
  ASSUME NEW len \in Nat, NEW n \in Nat, NEW size, size = len + n
  PROVE  Carries(EventFrames(len + 1, size), len, n)
<1> DEFINE frames == [i \in 1 .. n |-> EventFrame(len + 1 + i - 1)]
<1>1. EventFrames(len + 1, size) = frames
  <2>1. size - (len + 1) + 1 = n
    OBVIOUS
  <2>2. QED
    BY <2>1 DEF EventFrames
<1>2. ASSUME NEW i \in 1 .. n
      PROVE  frames[i] \in Frame /\ frames[i].kind = "event" /\ frames[i].seq = len + i
  <2>1. len + 1 + i - 1 = len + i /\ len + i \in Nat
    OBVIOUS
  <2>2. QED
    BY <2>1, FrameTypes
<1>3. frames \in Seq(Frame) /\ Len(frames) = n
  BY <1>2
<1> HIDE DEF frames
<1>4. QED
  BY <1>1, <1>2, <1>3 DEF Carries

LEMMA PipeFed ==
  ASSUME NEW p \in Seq(Frame), NEW len \in Nat, NEW n \in Nat,
         NEW base \in Int, base + Len(p) = len,
         NEW frames, Carries(frames, len, n)
  PROVE  Feeds(p \o frames, p, base, n)
<1>1. PICK m \in Nat : m = Len(p)
  OBVIOUS
<1>2. frames \in Seq(Frame) /\ Len(frames) = n
  BY DEF Carries
<1>3. /\ p \o frames \in Seq(Frame) /\ Len(p \o frames) = m + n
      /\ \A i \in 1 .. m : (p \o frames)[i] = p[i]
  BY <1>1, <1>2
<1>4. ASSUME NEW i \in m + 1 .. m + n
      PROVE  (p \o frames)[i].kind = "event" /\ (p \o frames)[i].seq = base + i
  <2>1. PICK k \in 1 .. n : k = i - m
    BY <1>1
  <2>2. (p \o frames)[i] = frames[k]
    BY <1>1, <1>2, <2>1
  <2>3. len + k = base + i
    BY <1>1, <2>1
  <2>4. QED
    BY <2>2, <2>3 DEF Carries
<1>5. QED
  BY <1>1, <1>3, <1>4 DEF Feeds

LEMMA PipeEnds ==
  ASSUME NEW p \in Seq(Frame)
  PROVE  Ended(p \o <<EndFrame>>, p)
<1>1. EndFrame \in Frame /\ EndFrame.kind = "end"
  BY FrameTypes
<1>2. /\ Append(p, EndFrame) \in Seq(Frame)
      /\ Len(Append(p, EndFrame)) = Len(p) + 1
      /\ \A i \in 1 .. Len(p) : Append(p, EndFrame)[i] = p[i]
      /\ Append(p, EndFrame)[Len(p) + 1] = EndFrame
  BY <1>1
<1>3. p \o <<EndFrame>> = Append(p, EndFrame)
  BY <1>1
<1>4. QED
  BY <1>1, <1>2, <1>3 DEF Ended

LEMMA PublishKeeps ==
  ASSUME SessionInv, SessionInv', EndedIsIdle, [SessionNext]_sessionVars, StreamInv, Publish
  PROVE  StreamInv'
<1>1. /\ log \in Seq(LogEvent) /\ log' \in Seq(LogEvent) /\ Extends(log', log)
      /\ status' = status \/ status' \in {"active", "ended"}
      /\ status = "ended" => log' = log /\ status' = status
  BY LogGrows, StatusSteps, IdleSessionStays DEF SessionInv, LogOK, tables
<1>2. DOMAIN conn' = Watcher
  BY DEF Publish
<1>3. ASSUME NEW w \in Watcher
      PROVE  ConnOK(log', status', conn'[w])
  <2>1. ConnOK(log, status, conn[w])
    BY DEF StreamInv
  <2>2. CASE ~conn[w].fed
    <3>1. conn'[w] = conn[w]
      BY <2>2 DEF Publish
    <3>2. QED
      BY <1>1, <2>1, <2>2, <3>1, QuietStays
  <2>3. CASE conn[w].fed
    <3> DEFINE c   == conn[w]
               d   == conn'[w]
               new == EventFrames(Len(log) + 1, Len(log'))
    <3>1. /\ c \in Connection /\ c.pipe \in Seq(Frame) /\ status = "active"
          /\ Base(c) \in Int /\ Base(c) + Len(c.pipe) = Len(log)
      BY <2>1, <2>3, BaseType DEF ConnOK, FedOK, Connection
    <3>2. status' \in {"active", "ended"}
      BY <1>1, <3>1
    <3>3. PICK n \in Nat : Len(log') = Len(log) + n
      <4>1. Len(log') - Len(log) \in Nat
        BY <1>1 DEF Extends
      <4>2. QED
        BY <1>1, <4>1
    <3>4. Feeds(c.pipe \o new, c.pipe, Base(c), n)
      <4>1. Len(log) \in Nat
        BY <1>1
      <4>2. Carries(new, Len(log), n)
        BY <3>3, <4>1, EventFramesCarry, Zenon
      <4> HIDE DEF c, new
      <4>3. QED
        BY <3>1, <3>3, <4>1, <4>2, PipeFed
    <3>5. PICK q : q = c.pipe \o new
      OBVIOUS
    <3>6. Feeds(q, c.pipe, Base(c), n) /\ q \in Seq(Frame)
      BY <3>4, <3>5 DEF Feeds
    <3>7. d = [c EXCEPT !.pipe = q \o (IF status' = "ended" THEN <<EndFrame>> ELSE <<>>),
                        !.fed = (status' = "active")]
      BY <2>3, <3>1, <3>2, <3>5 DEF Publish
    <3>8. d.pc = c.pc /\ d.view = c.view /\ d.fed = (status' = "active") /\ d.fed \in BOOLEAN
      BY <3>1, <3>7 DEF Connection
    <3>9. /\ status' = "ended" => d.pipe = q \o <<EndFrame>>
          /\ status' = "active" => d.pipe = q
      BY <3>1, <3>6, <3>7 DEF Connection
    <3>10. /\ status' = "ended" => Ended(d.pipe, q)
           /\ d.pipe \in Seq(Frame)
      BY <3>2, <3>6, <3>9, PipeEnds DEF Ended
    <3>11. d \in Connection
      BY <3>1, <3>7, <3>8, <3>10 DEF Connection
    <3>12. ConnOK(log, "active", c) /\ c.fed
      BY <2>1, <2>3, <3>1
    <3> HIDE DEF c, d
    <3>13. ConnOK(log', status', d)
      <4>1. Continues(log, log', n, c, q, status', d)
        BY <1>1, <3>2, <3>3, <3>6, <3>8, <3>9, <3>10, <3>11, <3>12 DEF Continues
      <4>2. QED
        BY <4>1, FeedStays
    <3>14. QED
      BY <3>13 DEF d
  <2>4. QED
    BY <2>2, <2>3
<1>4. QED
  BY <1>2, <1>3 DEF StreamInv

----------------------------------------------------------------------------
\* The steps of connections.

LEMMA StreamFacts ==
  ASSUME SessionInv, StreamInv
  PROVE  /\ log \in Seq(LogEvent) /\ Len(log) \in Nat
         /\ \A w \in Watcher : ConnOK(log, status, conn[w])
BY DEF SessionInv, LogOK, StreamInv

\* A connection that is gone says nothing but what its client saw.
LEMMA CutKeeps ==
  ASSUME NEW l \in Seq(LogEvent), NEW st, NEW view \in Views, IsMoment(l, view),
         NEW d \in Connection, d.view = view, d.pc # "open", d.pipe = <<>>, ~d.fed
  PROVE  ConnOK(l, st, d)
BY DEF ConnOK

LEMMA CutType ==
  ASSUME NEW c \in Connection
  PROVE  /\ Cut(c) \in Connection /\ Cut(c).view = c.view
         /\ Cut(c).pc # "open" /\ Cut(c).pipe = <<>> /\ Cut(c).fed = FALSE
<1>1. <<>> \in Seq(Frame) /\ FALSE \in BOOLEAN /\ "down" \in {"down", "open", "closed"}
  OBVIOUS
<1>2. QED
  BY <1>1 DEF Cut, Connection

LEMMA CutOK ==
  ASSUME NEW l \in Seq(LogEvent), NEW st, NEW next, NEW c, ConnOK(l, st, c)
  PROVE  ConnOK(l, next, Cut(c))
<1>1. c \in Connection /\ IsMoment(l, c.view) /\ c.view \in Views
  BY DEF ConnOK, Connection
<1>2. QED
  BY <1>1, CutType, CutKeeps

LEMMA ServerDiesKeeps ==
  ASSUME SessionInv, StreamInv, ServerDies
  PROVE  StreamInv'
<1>1. UNCHANGED <<log, status>>
  BY DEF ServerDies, Crash, RunCutShort, tables
<1>2. DOMAIN conn' = Watcher
  BY DEF ServerDies
<1>3. ASSUME NEW w \in Watcher
      PROVE  ConnOK(log, status, conn'[w])
  <2>1. conn'[w] = conn[w] \/ conn'[w] = Cut(conn[w])
    BY DEF ServerDies
  <2>2. QED
    BY <2>1, StreamFacts, CutOK
<1>4. QED
  BY <1>1, <1>2, <1>3 DEF StreamInv

LEMMA BreakKeeps ==
  ASSUME SessionInv, StreamInv, NEW w \in Watcher, Break(w)
  PROVE  StreamInv'
<1>1. UNCHANGED <<log, status>>
  BY DEF Break, sessionVars
<1>2. /\ DOMAIN conn' = Watcher /\ conn'[w] = Cut(conn[w])
      /\ \A x \in Watcher \ {w} : conn'[x] = conn[x]
  BY DEF Break, StreamInv
<1>3. ConnOK(log, status, conn'[w])
  BY <1>2, StreamFacts, CutOK
<1>4. QED
  BY <1>1, <1>2, <1>3 DEF StreamInv

LEMMA GiveUpKeeps ==
  ASSUME SessionInv, StreamInv, NEW w \in Watcher, GiveUp(w)
  PROVE  StreamInv'
<1>1. UNCHANGED <<log, status>>
  BY DEF GiveUp, sessionVars
<1>2. /\ DOMAIN conn' = Watcher /\ conn'[w] = [conn[w] EXCEPT !.pc = "closed"]
      /\ \A x \in Watcher \ {w} : conn'[x] = conn[x]
  BY DEF GiveUp, StreamInv
<1>3. ConnOK(log, status, conn'[w])
  <2>1. /\ conn[w] \in Connection /\ IsMoment(log, conn[w].view)
        /\ conn[w].pipe = <<>> /\ ~conn[w].fed
    BY StreamFacts DEF GiveUp, ConnOK
  <2>2. /\ conn'[w] \in Connection /\ conn'[w].view = conn[w].view /\ conn[w].view \in Views
        /\ conn'[w].pc # "open" /\ conn'[w].pipe = <<>> /\ ~conn'[w].fed
    BY <1>2, <2>1 DEF Connection
  <2>3. QED
    BY <2>1, <2>2, StreamFacts, CutKeeps
<1>4. QED
  BY <1>1, <1>2, <1>3 DEF StreamInv

LEMMA ChangeMemberKeeps ==
  ASSUME SessionInv, StreamInv, NEW u \in User, ChangeMember(u)
  PROVE  StreamInv'
<1>1. UNCHANGED <<log, status>>
  BY DEF ChangeMember, SetMember, tables
<1>2. CASE UNCHANGED conn
  BY <1>1, <1>2 DEF StreamInv
<1>3. CASE /\ u \in Watcher /\ conn[u].fed
           /\ conn' = [conn EXCEPT ![u].pipe = Append(@, RevokedFrame), ![u].fed = FALSE]
  <2> DEFINE c == conn[u]
             d == conn'[u]
  <2>1. /\ DOMAIN conn' = Watcher /\ \A x \in Watcher \ {u} : conn'[x] = conn[x]
        /\ d = [c EXCEPT !.pipe = Append(@, RevokedFrame), !.fed = FALSE]
    BY <1>3 DEF StreamInv
  <2>2. /\ c \in Connection /\ c.pc = "open" /\ IsMoment(log, c.view)
        /\ c.pipe \in Seq(Frame) /\ Len(c.pipe) \in Nat
        /\ \A i \in 1 .. Len(c.pipe) : FrameOK(log, status, c, i)
        /\ \A i \in 1 .. Len(c.pipe) : c.pipe[i].kind \in {"snapshot", "event"}
    BY <1>3, StreamFacts DEF ConnOK, FedOK, Connection
  <2>3. RevokedFrame \in Frame /\ RevokedFrame.kind = "revoked"
    BY FrameTypes
  <2>4. PICK p \in Seq(Frame) : p = c.pipe
    BY <2>2
  <2>5. /\ Append(p, RevokedFrame) \in Seq(Frame) /\ Len(Append(p, RevokedFrame)) = Len(p) + 1
        /\ \A i \in 1 .. Len(p) : Append(p, RevokedFrame)[i] = p[i]
        /\ Append(p, RevokedFrame)[Len(p) + 1] = RevokedFrame
    BY <2>3
  <2>6. /\ d \in Connection /\ d.pc = "open" /\ d.view = c.view /\ ~d.fed
        /\ d.pipe = Append(p, RevokedFrame)
    BY <2>1, <2>2, <2>4, <2>5 DEF Connection
  <2> HIDE DEF c, d
  <2>7. /\ Len(d.pipe) = Len(c.pipe) + 1 /\ \A i \in 1 .. Len(c.pipe) : d.pipe[i] = c.pipe[i]
        /\ d.pipe[Len(c.pipe) + 1].kind = "revoked"
    BY <2>3, <2>4, <2>5, <2>6
  <2>8. Base(d) = Base(c)
    <3>1. Len(c.pipe) <= Len(d.pipe)
      BY <2>2, <2>7
    <3>2. Len(c.pipe) = 0 => d.pipe[1].kind # "snapshot"
      BY <2>7
    <3>3. QED
      BY <2>2, <2>6, <2>7, <3>1, <3>2, BaseStays
  <2>9. ASSUME NEW i \in 1 .. Len(c.pipe)
        PROVE  FrameOK(log, status, d, i)
    <3>1. /\ FrameOK(log, status, c, i) /\ d.pipe[i] = c.pipe[i]
          /\ c.pipe[i].kind \in {"snapshot", "event"}
      BY <2>2, <2>7
    <3>2. QED
      BY <2>8, <3>1 DEF FrameOK
  <2>10. FrameOK(log, status, d, Len(d.pipe))
    BY <2>2, <2>7 DEF FrameOK
  <2>11. \A i \in 1 .. Len(d.pipe) : FrameOK(log, status, d, i)
    <3>1. \A i \in 1 .. Len(d.pipe) : i \in 1 .. Len(c.pipe) \/ i = Len(d.pipe)
      BY <2>2, <2>7
    <3>2. QED
      BY <2>9, <2>10, <3>1
  <2>12. ConnOK(log, status, d)
    BY <2>2, <2>6, <2>11 DEF ConnOK
  <2>13. QED
    BY <1>1, <2>1, <2>12, StreamFacts DEF StreamInv, d
<1>4. QED
  BY <1>2, <1>3 DEF ChangeMember

\* What a client is sent first takes it from what it has to the end of the log.
LEMMA CatchUpOK ==
  ASSUME SessionInv, HistoryInv, NEW v \in Views, IsMoment(log, v),
         NEW d, d = [pc |-> "open", view |-> v, pipe |-> CatchUp(v), fed |-> TRUE]
  PROVE  ConnOK(log, "active", d)
<1>1. /\ log \in Seq(LogEvent) /\ Len(log) \in Nat
      /\ v.seq \in Nat /\ v.seq <= Len(log)
  BY DEF SessionInv, LogOK, IsMoment
<1>2. d.pc = "open" /\ d.view = v /\ d.pipe = CatchUp(v) /\ d.fed = TRUE
  OBVIOUS
<1>3. CASE v # NoView /\ Len(log) - v.seq <= ReplayLimit
  <2>1. PICK n \in Nat : Len(log) = v.seq + n
    <3>1. Len(log) - v.seq \in Nat
      BY <1>1
    <3>2. QED
      BY <1>1, <3>1
  <2>2. Carries(EventFrames(v.seq + 1, Len(log)), v.seq, n)
    BY <1>1, <2>1, EventFramesCarry, Zenon
  <2>3. Carries(d.pipe, v.seq, n)
    BY <1>2, <1>3, <2>2, Zenon DEF CatchUp
  <2> HIDE DEF CatchUp
  <2>4. /\ d.pipe \in Seq(Frame) /\ Len(d.pipe) = n
        /\ \A i \in 1 .. n : d.pipe[i].kind = "event" /\ d.pipe[i].seq = v.seq + i
    BY <2>3 DEF Carries
  <2>5. d \in Connection
    BY <2>4 DEF Connection
  <2>6. Base(d) = v.seq
    <3>1. d.pipe # <<>> => d.pipe[1].kind = "event"
      BY <2>4
    <3>2. QED
      BY <1>2, <3>1 DEF Base
  <2>7. \A i \in 1 .. n : v.seq + i \in 1 .. Len(log)
    BY <1>1, <2>1
  <2>8. \A i \in 1 .. Len(d.pipe) :
           FrameOK(log, "active", d, i) /\ d.pipe[i].kind \in {"snapshot", "event"}
    BY <2>4, <2>6, <2>7 DEF FrameOK
  <2>9. FedOK(log, "active", d)
    BY <2>1, <2>4, <2>6, <2>8 DEF FedOK
  <2>10. QED
    BY <1>2, <2>5, <2>8, <2>9 DEF ConnOK
<1>4. CASE ~(v # NoView /\ Len(log) - v.seq <= ReplayLimit)
  <2>1. d.pipe = <<SnapshotFrame(Fold(log))>>
    BY <1>2, <1>4 DEF CatchUp, HistoryInv
  <2>2. Fold(log) \in Views /\ IsMoment(log, Fold(log)) /\ Fold(log).seq = Len(log)
    BY <1>1, FoldIsMoment DEF Views
  <2>3. /\ SnapshotFrame(Fold(log)) \in Frame
        /\ SnapshotFrame(Fold(log)).kind = "snapshot"
        /\ SnapshotFrame(Fold(log)).view = Fold(log)
    BY <2>2, FrameTypes
  <2>4. /\ d.pipe \in Seq(Frame) /\ Len(d.pipe) = 1 /\ d.pipe # <<>>
        /\ d.pipe[1].kind = "snapshot" /\ d.pipe[1].view = Fold(log)
    <3>1. \A f \in Frame : <<f>> \in Seq(Frame) /\ Len(<<f>>) = 1 /\ <<f>> # <<>> /\ <<f>>[1] = f
      OBVIOUS
    <3>2. QED
      BY <2>1, <2>3, <3>1, Zenon
  <2>5. d \in Connection
    BY <2>4 DEF Connection
  <2>6. Base(d) = Len(log) - 1
    BY <2>2, <2>4 DEF Base
  <2>7. FrameOK(log, "active", d, 1)
    BY <2>2, <2>4 DEF FrameOK
  <2>8. \A i \in 1 .. Len(d.pipe) : i = 1
    <3>1. \A i \in 1 .. 1 : i = 1
      OBVIOUS
    <3>2. QED
      BY <2>4, <3>1, Zenon
  <2>9. FedOK(log, "active", d)
    BY <1>1, <2>4, <2>6, <2>8 DEF FedOK
  <2>10. QED
    BY <1>2, <2>5, <2>7, <2>8, <2>9 DEF ConnOK
<1>5. QED
  BY <1>3, <1>4

LEMMA ConnectKeeps ==
  ASSUME SessionInv, HistoryInv, StreamInv, NEW w \in Watcher, Connect(w)
  PROVE  StreamInv'
<1>1. UNCHANGED <<log, status>> /\ status # "none"
  BY DEF Connect, sessionVars
<1>2. DOMAIN conn' = Watcher /\ \A x \in Watcher \ {w} : conn'[x] = conn[x]
  BY DEF Connect, StreamInv
<1>3. /\ conn[w] \in Connection /\ IsMoment(log, conn[w].view) /\ conn[w].view \in Views
      /\ conn[w].pipe = <<>> /\ ~conn[w].fed
  BY StreamFacts DEF Connect, ConnOK, Connection
<1>4. ConnOK(log, status, conn'[w])
  <2>1. CASE w \notin operators
    <3>1. conn'[w] = [conn[w] EXCEPT !.pc = "closed"]
      BY <1>3, <2>1 DEF Connect, StreamInv
    <3>2. /\ conn'[w] \in Connection /\ conn'[w].view = conn[w].view
          /\ conn'[w].pc # "open" /\ conn'[w].pipe = <<>> /\ ~conn'[w].fed
      BY <1>3, <3>1 DEF Connection
    <3>3. QED
      BY <1>3, <3>2, StreamFacts, CutKeeps
  <2>2. CASE w \in operators
    <3> DEFINE v == conn[w].view
               d == conn'[w]
    <3>1. PICK c : c = [pc |-> "open", view |-> v, pipe |-> CatchUp(v), fed |-> TRUE]
      OBVIOUS
    <3>2. ConnOK(log, "active", c)
      BY <1>3, <3>1, CatchUpOK
    <3>3. /\ c.pc = "open" /\ c.view = v /\ c.pipe = CatchUp(v) /\ c.fed
          /\ c \in Connection /\ c.pipe \in Seq(Frame) /\ Base(c) \in Int
      BY <3>1, <3>2, BaseType DEF ConnOK, Connection
    <3>4. Feeds(c.pipe, c.pipe, Base(c), 0)
      <4>1. Len(c.pipe) + 0 = Len(c.pipe) /\ \A i \in Len(c.pipe) + 1 .. Len(c.pipe) : FALSE
        BY <3>3
      <4>2. QED
        BY <3>3, <4>1 DEF Feeds
    <3>5. status \in {"active", "ended"}
      BY <1>1 DEF SessionInv, PeopleOK
    <3>6. d = [conn[w] EXCEPT !.pc   = "open",
                              !.pipe = CatchUp(v)
                                         \o (IF status = "ended" THEN <<EndFrame>> ELSE <<>>),
                              !.fed  = status # "ended"]
      BY <2>2 DEF Connect, StreamInv
    <3>7. /\ d.pc = "open" /\ d.view = v
          /\ d.pipe = CatchUp(v) \o (IF status = "ended" THEN <<EndFrame>> ELSE <<>>)
          /\ d.fed = (status = "active")
      BY <1>3, <3>5, <3>6 DEF Connection
    <3>8. /\ status = "ended" => d.pipe = c.pipe \o <<EndFrame>>
          /\ status = "active" => d.pipe = c.pipe
      <4>1. c.pipe \o <<>> = c.pipe
        BY <3>3
      <4>2. QED
        BY <3>3, <3>7, <4>1, Zenon
    <3>9. (status = "ended" => Ended(d.pipe, c.pipe)) /\ d.pipe \in Seq(Frame)
      BY <3>3, <3>5, <3>8, PipeEnds DEF Ended
    <3>10. d \in Connection
      BY <1>3, <3>6, <3>7, <3>9 DEF Connection
    <3>11. Extends(log, log) /\ Len(log) = Len(log) + 0 /\ log \in Seq(LogEvent)
      BY StreamFacts, SameExtends
    <3> HIDE DEF d, v
    <3>12. d.pc = c.pc /\ d.view = c.view
      BY <3>3, <3>7
    <3>13. ConnOK(log, status, d)
      <4>1. Continues(log, log, 0, c, c.pipe, status, d)
        BY <3>2, <3>3, <3>4, <3>5, <3>7, <3>8, <3>9, <3>10, <3>11, <3>12 DEF Continues
      <4>2. QED
        BY <4>1, FeedStays
    <3>14. QED
      BY <3>13 DEF d
  <2>3. QED
    BY <2>1, <2>2
<1>5. QED
  BY <1>1, <1>2, <1>4, StreamFacts DEF StreamInv

\* The rest of a pipe, when its first frame was read.
Drops(rest, pipe) ==
  /\ rest \in Seq(Frame) /\ Len(pipe) = Len(rest) + 1
  /\ \A i \in 1 .. Len(rest) : rest[i] = pipe[i + 1]

LEMMA TailDrops ==
  ASSUME NEW p \in Seq(Frame), p # <<>>
  PROVE  Drops(Tail(p), p)
BY DEF Drops

LEMMA TailOK ==
  ASSUME NEW l \in Seq(LogEvent), NEW st, NEW c, ConnOK(l, st, c), c.pc = "open",
         NEW d \in Connection, d.pc = c.pc, d.fed = c.fed, Drops(d.pipe, c.pipe),
         IsMoment(l, d.view), d.view.seq = Base(c) + 1
  PROVE  ConnOK(l, st, d)
<1>1. c \in Connection /\ Base(c) \in Int
  BY BaseType DEF ConnOK, Connection
<1>2. PICK m \in Nat : Len(d.pipe) = m
  BY DEF Drops
<1>3. Len(c.pipe) = m + 1
  BY <1>2 DEF Drops
<1>4. Len(d.pipe) = m /\ \A i \in 1 .. m : d.pipe[i] = c.pipe[i + 1]
  BY <1>2 DEF Drops
<1>5. ASSUME NEW i \in 1 .. m
      PROVE  /\ FrameOK(l, st, c, i + 1) /\ d.pipe[i].kind # "snapshot"
             /\ c.fed => d.pipe[i].kind \in {"snapshot", "event"}
  <2>1. i + 1 \in 1 .. Len(c.pipe) /\ i + 1 # 1 /\ d.pipe[i] = c.pipe[i + 1]
    BY <1>3, <1>4
  <2>2. FrameOK(l, st, c, i + 1)
    BY <2>1 DEF ConnOK
  <2>3. c.fed => c.pipe[i + 1].kind \in {"snapshot", "event"}
    BY <2>1 DEF ConnOK, FedOK
  <2>4. QED
    BY <2>1, <2>2, <2>3 DEF FrameOK
<1>6. Base(d) = Base(c) + 1
  <2>1. CASE m = 0
    <3>1. d.pipe = <<>>
      BY <1>4, <2>1 DEF Drops
    <3>2. QED
      BY <3>1 DEF Base
  <2>2. CASE m # 0
    <3>1. 1 \in 1 .. m
      BY <2>2
    <3>3. d.pipe[1].kind # "snapshot"
      BY <1>5, <3>1, Zenon
    <3>4. QED
      BY <3>3 DEF Base
  <2>3. QED
    BY <2>1, <2>2
<1>7. ASSUME NEW i \in 1 .. m
      PROVE  FrameOK(l, st, d, i)
  <2>1. d.pipe[i] = c.pipe[i + 1] /\ (i + 1 = m + 1 => i = m)
    BY <1>4
  <2>2. Base(c) + (i + 1) = Base(d) + i /\ Base(c) + (i + 1) - 1 = Base(d) + i - 1
    <3>1. PICK b \in Int : b = Base(c) /\ Base(d) = b + 1
      BY <1>1, <1>6
    <3>2. i \in Int /\ b + (i + 1) = (b + 1) + i /\ b + (i + 1) - 1 = (b + 1) + i - 1
      OBVIOUS
    <3>3. QED
      BY <3>1, <3>2
  <2>3. QED
    BY <1>3, <1>4, <1>5, <2>1, <2>2 DEF FrameOK
<1>8. c.fed => FedOK(l, st, d)
  <2>1. ASSUME c.fed
        PROVE  FedOK(l, st, d)
    <3>1. st = "active" /\ Base(c) + Len(c.pipe) = Len(l)
      BY <2>1 DEF ConnOK, FedOK
    <3>2. Base(d) + Len(d.pipe) = Len(l)
      BY <1>1, <1>3, <1>4, <1>6, <3>1
    <3>3. QED
      BY <1>4, <1>5, <2>1, <3>1, <3>2 DEF FedOK
  <2>2. QED
    BY <2>1
<1>9. QED
  BY <1>4, <1>7, <1>8 DEF ConnOK

\* A frame is read.
LEMMA ReceiveKeeps ==
  ASSUME SessionInv, StreamInv, NEW w \in Watcher, Receive(w)
  PROVE  StreamInv'
<1> DEFINE c == conn[w]
           d == conn'[w]
           f == Head(c.pipe)
<1>1. UNCHANGED <<log, status>>
  BY DEF Receive, sessionVars
<1>2. /\ DOMAIN conn' = Watcher /\ \A x \in Watcher \ {w} : conn'[x] = conn[x]
      /\ d = Handle(c, f)
  BY DEF Receive, StreamInv
<1>3. /\ ConnOK(log, status, c) /\ c.pipe # <<>>
      /\ log \in Seq(LogEvent)
  BY StreamFacts DEF Receive
<1>4. /\ c \in Connection /\ c.pipe \in Seq(Frame) /\ IsMoment(log, c.view)
      /\ c.view \in Views /\ c.pc = "open" /\ Base(c) \in Int
  BY <1>3, BaseType DEF ConnOK, Connection
<1>5. PICK p \in Seq(Frame) : p = c.pipe
  BY <1>4
<1>6. /\ 1 \in 1 .. Len(p) /\ f = p[1] /\ f \in Frame
      /\ Tail(p) \in Seq(Frame) /\ Drops(Tail(p), p)
  BY <1>3, <1>5, TailDrops
<1>7. /\ FrameOK(log, status, c, 1) /\ f = c.pipe[1]
      /\ c.fed => f.kind \in {"snapshot", "event"}
  BY <1>3, <1>5, <1>6 DEF ConnOK, FedOK
<1>8. /\ f.kind \in {"snapshot", "event", "revoked", "end"}
      /\ f.kind = "snapshot" =>
           f.view \in Views /\ IsMoment(log, f.view) /\ Base(c) = f.view.seq - 1
      /\ f.kind = "event" => f.seq = Base(c) + 1 /\ f.seq \in 1 .. Len(log)
      /\ f.kind # "snapshot" => Base(c) = c.view.seq
  BY <1>3, <1>6, <1>7, FrameIsOne DEF FrameOK, Base
<1>9. c.view.seq \in Nat /\ (f.kind = "snapshot" => f.view.seq \in Nat)
  BY <1>4, <1>8, ViewsCount
<1>10. PICK rest : rest = [c EXCEPT !.pipe = Tail(p)]
  OBVIOUS
<1>11. /\ rest \in Connection /\ rest.pc = c.pc /\ rest.view = c.view /\ rest.fed = c.fed
       /\ rest.pipe = Tail(p)
  BY <1>4, <1>6, <1>10 DEF Connection
<1>12. ConnOK(log, status, d)
  <2>1. CASE f.kind = "snapshot"
    <3>1. d = [rest EXCEPT !.view = f.view]
      BY <1>2, <1>5, <1>10, <2>1 DEF Handle
    <3>2. /\ d \in Connection /\ d.pc = c.pc /\ d.fed = c.fed /\ d.pipe = Tail(p)
          /\ d.view = f.view
      BY <1>8, <1>11, <2>1, <3>1 DEF Connection
    <3>3. IsMoment(log, d.view) /\ d.view.seq = Base(c) + 1 /\ Drops(d.pipe, c.pipe)
      BY <1>5, <1>6, <1>8, <1>9, <2>1, <3>2
    <3> HIDE DEF c, d
    <3>4. QED
      BY <1>3, <1>4, <3>2, <3>3, TailOK
  <2>2. CASE f.kind = "revoked"
    <3>1. d = [rest EXCEPT !.pc = "closed", !.pipe = <<>>]
      BY <1>2, <1>5, <1>10, <2>2 DEF Handle
    <3>2. <<>> \in Seq(Frame)
      OBVIOUS
    <3>3. /\ d \in Connection /\ d.view = c.view /\ d.pc # "open" /\ d.pipe = <<>>
          /\ d.fed = c.fed
      BY <1>11, <3>1, <3>2 DEF Connection
    <3>4. ~d.fed
      BY <1>7, <2>2, <3>3
    <3> HIDE DEF c, d
    <3>5. QED
      BY <1>3, <1>4, <3>3, <3>4, CutKeeps
  <2>3. CASE f.kind = "end"
    <3>1. d = [Cut(c) EXCEPT !.pc = IF c.view.status = "ended" THEN "closed" ELSE "down"]
      BY <1>2, <2>3 DEF Handle
    <3>2. PICK pc \in {"closed", "down"} : d = [Cut(c) EXCEPT !.pc = pc]
      BY <3>1
    <3>3. /\ Cut(c) \in Connection /\ Cut(c).view = c.view
          /\ Cut(c).pipe = <<>> /\ Cut(c).fed = FALSE
      BY <1>4, CutType
    <3>4. /\ d \in Connection /\ d.view = c.view /\ d.pc # "open" /\ d.pipe = <<>>
          /\ d.fed = FALSE
      BY <3>2, <3>3 DEF Connection
    <3> HIDE DEF c, d
    <3>5. QED
      BY <1>3, <1>4, <3>4, CutKeeps
  <2>4. CASE f.kind = "event"
    <3>1. ~(c.view # NoView /\ f.seq <= c.view.seq)
      BY <1>8, <1>9, <2>4
    <3>2. CASE Applies(c.view, f.seq)
      <4>1. d = [rest EXCEPT !.view = applyCollabEvent(c.view, log[f.seq])]
        BY <1>2, <1>5, <1>10, <2>4, <3>1, <3>2 DEF Handle
      <4>2. PICK k \in Nat : k = c.view.seq /\ f.seq = k + 1 /\ k \in 0 .. Len(log) - 1
        BY <1>8, <1>9, <2>4
      <4>3. PICK v : v = applyCollabEvent(c.view, log[f.seq])
        OBVIOUS
      <4>4. v = ViewAt(log, k + 1) /\ k + 1 \in 0 .. Len(log)
        <5>1. c.view = ViewAt(log, k)
          BY <1>4, <4>2 DEF IsMoment
        <5>2. QED
          BY <1>3, <4>2, <4>3, <5>1, NextSeen
      <4>5. IsMoment(log, v) /\ v.seq = k + 1 /\ v \in Views
        <5>1. v.seq = k + 1
          BY <1>3, <4>4, ViewCounts
        <5>2. IsMoment(log, v)
          BY <4>4, <5>1 DEF IsMoment
        <5>3. QED
          BY <1>3, <5>1, <5>2, MomentIsView
      <4>6. /\ d \in Connection /\ d.pc = c.pc /\ d.fed = c.fed /\ d.pipe = Tail(p)
            /\ d.view = v
        BY <1>11, <4>1, <4>3, <4>5 DEF Connection
      <4>7. IsMoment(log, d.view) /\ d.view.seq = Base(c) + 1 /\ Drops(d.pipe, c.pipe)
        BY <1>5, <1>6, <1>8, <2>4, <4>2, <4>5, <4>6
      <4> HIDE DEF c, d
      <4>8. QED
        BY <1>3, <1>4, <4>6, <4>7, TailOK
    <3>3. CASE ~Applies(c.view, f.seq)
      <4>1. d = [Cut(c) EXCEPT !.view = NoView]
        BY <1>2, <2>4, <3>1, <3>3 DEF Handle
      <4>2. /\ Cut(c) \in Connection /\ Cut(c).pc # "open"
            /\ Cut(c).pipe = <<>> /\ Cut(c).fed = FALSE
        BY <1>4, CutType
      <4>3. NoView \in Views /\ IsMoment(log, NoView)
        BY <1>3, NoViewIsView
      <4>4. /\ d \in Connection /\ d.view = NoView /\ d.pc # "open" /\ d.pipe = <<>>
            /\ d.fed = FALSE
        BY <4>1, <4>2, <4>3 DEF Connection
      <4> HIDE DEF c, d
      <4>5. QED
        BY <1>3, <4>3, <4>4, CutKeeps
    <3>4. QED
      BY <3>2, <3>3
  <2>5. QED
    BY <1>8, <2>1, <2>2, <2>3, <2>4
<1>13. QED
  BY <1>1, <1>2, <1>12, StreamFacts DEF StreamInv

LEMMA NextStreamInv ==
  ASSUME SessionInv, SessionInv', EndedIsIdle, HistoryInv, StreamInv, [StreamNext]_streamVars
  PROVE  StreamInv'
<1>1. [SessionNext]_sessionVars
  BY StreamStepsAreSessionSteps
<1>2. CASE SessionStep \/ RestartStep \/ \E j \in Job : PollStep(j)
  BY <1>1, <1>2, PublishKeeps DEF SessionStep, RestartStep, PollStep
<1>3. CASE ServerDies
  BY <1>3, ServerDiesKeeps
<1>4. CASE \E u \in User : ChangeMember(u)
  BY <1>4, ChangeMemberKeeps
<1>5. CASE \E w \in Watcher : Connect(w) \/ Receive(w) \/ Break(w) \/ GiveUp(w)
  BY <1>5, ConnectKeeps, ReceiveKeeps, BreakKeeps, GiveUpKeeps
<1>6. CASE UNCHANGED streamVars
  BY <1>6 DEF streamVars, sessionVars, StreamInv
<1>7. QED
  BY <1>2, <1>3, <1>4, <1>5, <1>6 DEF StreamNext

LEMMA InitStreamInv == StreamInit => StreamInv
<1>1. ASSUME StreamInit, NEW w \in Watcher
      PROVE  ConnOK(log, status, conn[w])
  <2>1. conn[w] = [pc |-> "down", view |-> NoView, pipe |-> <<>>, fed |-> FALSE]
    BY <1>1 DEF StreamInit
  <2>2. log \in Seq(LogEvent) /\ <<>> \in Seq(Frame)
    BY <1>1 DEF StreamInit, SessionInit
  <2>3. NoView \in Views /\ IsMoment(log, NoView)
    BY <2>2, NoViewIsView
  <2>4. /\ conn[w] \in Connection /\ conn[w].view = NoView /\ conn[w].pc # "open"
        /\ conn[w].pipe = <<>> /\ conn[w].fed = FALSE
    BY <2>1, <2>2, <2>3 DEF Connection
  <2>5. QED
    BY <2>2, <2>3, <2>4, CutKeeps
<1>2. QED
  BY <1>1 DEF StreamInv, StreamInit

LEMMA StreamsKeepInv == FairStreamSpec => [](SessionInv /\ StreamInv)
<1>1. SessionSpec => [](SessionInv /\ EndedIsIdle /\ HistoryInv)
  BY SessionIsTyped, SessionKeepsHistory, SessionStaysIdle, PTL
<1>2. QED
  BY <1>1, StreamsLeaveTheSessionAlone, InitStreamInv, NextStreamInv, PTL DEF FairStreamSpec

----------------------------------------------------------------------------

\* "No gaps, no duplicates": what is on its way to a client takes it through exactly
\* the events it lacks, up to the last one if it is listening or is told that the
\* session is over, for every number of clients, every length of the log, and every
\* mix of requests, wake-ups, crashes, broken connections, resumes and demotions.
THEOREM StreamsStayExact == FairStreamSpec => []StreamsAreExact
<1>1. ASSUME SessionInv, StreamInv, NEW w \in Watcher, conn[w].pc = "open"
      PROVE  LET pipe  == conn[w].pipe
                 reset == pipe # <<>> /\ Head(pipe).kind = "snapshot"
                 base  == IF reset THEN Head(pipe).view.seq - 1 ELSE conn[w].view.seq
             IN  /\ \A i \in DOMAIN pipe :
                      \/ pipe[i].kind = "snapshot" /\ i = 1
                      \/ pipe[i].kind = "event" /\ pipe[i].seq = base + i
                      \/ pipe[i].kind = "revoked" /\ i = Len(pipe)
                      \/ pipe[i].kind = "end" /\ i = Len(pipe) /\ base + i - 1 = Len(log)
                 /\ conn[w].fed => base + Len(pipe) = Len(log)
  <2> DEFINE c == conn[w]
  <2>1. /\ ConnOK(log, status, c) /\ c.pipe \in Seq(Frame)
    BY <1>1, StreamFacts DEF ConnOK, Connection
  <2>2. DOMAIN c.pipe = 1 .. Len(c.pipe) /\ (c.pipe # <<>> => Head(c.pipe) = c.pipe[1])
    BY <2>1
  <2>3. Base(c) = IF c.pipe # <<>> /\ Head(c.pipe).kind = "snapshot"
                  THEN Head(c.pipe).view.seq - 1 ELSE c.view.seq
    BY <2>2 DEF Base
  <2>4. /\ \A i \in 1 .. Len(c.pipe) : FrameOK(log, status, c, i)
        /\ c.fed => Base(c) + Len(c.pipe) = Len(log)
    BY <2>1 DEF ConnOK, FedOK
  <2> HIDE DEF c
  <2>5. QED
    BY <2>2, <2>3, <2>4 DEF FrameOK, c
<1>2. SessionInv /\ StreamInv => StreamsAreExact
  BY <1>1 DEF StreamsAreExact
<1>3. QED
  BY <1>2, StreamsKeepInv, PTL

\* Every client sees a moment of the session's history, through all reconnects,
\* snapshots and replays, and so two that have read as far see the same.
THEOREM ViewersSeeHistory == FairStreamSpec => []ViewsAreHistory
<1>1. SessionInv /\ StreamInv => ViewsAreHistory
  BY StreamFacts DEF ConnOK, IsMoment, ViewAt, ViewsAreHistory
<1>2. QED
  BY <1>1, StreamsKeepInv, PTL
=============================================================================
