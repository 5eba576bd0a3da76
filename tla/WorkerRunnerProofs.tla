------------------------- MODULE WorkerRunnerProofs -------------------------
(***************************************************************************)
(* Proofs about JobQueue and WorkerRunner, for every set of jobs, workers, *)
(* commands and users, any number of batches and every limit.              *)
(*                                                                         *)
(* Of the queue first, whoever calls it: every step of it is a submission  *)
(* or a few kinds of row steps, and RowInv is preserved by those.  Then of *)
(* the composed system: it implements JobQueue, so that what is proved of  *)
(* the queue holds for real workers, and a command is spawned once, under  *)
(* the newest policy its worker heard of, and reported as what it was,     *)
(* with all of its output unless the report says otherwise.                *)
(***************************************************************************)
EXTENDS WorkerRunner, FiniteSetTheorems, TLAPS

----------------------------------------------------------------------------
\* The row operators map rows to rows.

LEMMA FullLease == LeaseTicks \in Lease
BY LimitAssumption DEF Lease

LEMMA FinishType ==
  ASSUME NEW row \in JobRow, NEW st \in Status, NEW exit \in ExitCode,
         NEW code \in ErrorCode, NEW message \in BOOLEAN
  PROVE  Finish(row, st, exit, code, message) \in JobRow
BY DEF Finish, JobRow, Lease

LEMMA WorkerLostType ==
  ASSUME NEW row \in JobRow
  PROVE  WorkerLost(row) \in JobRow
BY FinishType DEF WorkerLost, Status, Terminal, ExitCode, ErrorCode

LEMMA ClaimedType ==
  ASSUME NEW row \in JobRow, NEW w \in Worker
  PROVE  Claimed(row, w) \in JobRow
BY FullLease DEF Claimed, JobRow, Status

\* What is stored of a batch is a number of bytes, at most two above the room
\* that was left.
LEMMA StoredType ==
  ASSUME NEW row \in JobRow, NEW b \in Batch
  PROVE  Stored(row, b) \in Nat
<1>1. /\ Size[b] \in Nat
      /\ Width[b] \in 1 .. 4
  BY SizeAssumption
<1>2. Room(row) \in Nat
  BY LimitAssumption DEF Room, JobRow
<1>3. Cut(Room(row), Width[b]) \in Nat
  BY <1>1, <1>2 DEF Cut
<1>4. QED
  BY <1>1, <1>2, <1>3 DEF Stored

LEMMA AppendRowType ==
  ASSUME NEW row \in JobRow, NEW post \in Posts
  PROVE  AppendRow(row, post) \in JobRow
<1> DEFINE renewed == [row EXCEPT !.lease = LeaseTicks]
<1>1. renewed \in JobRow
  BY FullLease DEF JobRow
<1>2. ASSUME NEW n \in Nat, NEW t \in BOOLEAN
      PROVE  [renewed EXCEPT !.bytes = n, !.truncated = t] \in JobRow
  BY <1>1 DEF JobRow
<1>3. CASE post = <<>> \/ row.truncated
  BY <1>1, <1>3 DEF AppendRow
<1>4. CASE ~(post = <<>> \/ row.truncated)
  <2>1. PICK b \in Batch : post = <<b>>
    BY <1>4 DEF Posts
  <2>2. Stored(row, b) \in Nat
    BY StoredType
  <2>3. (Size[b] > Room(row)) \in BOOLEAN
    OBVIOUS
  <2>4. row.bytes + Stored(row, b) \in Nat
    BY <2>2 DEF JobRow
  <2>5. AppendRow(row, post) = [renewed EXCEPT !.bytes = row.bytes + Stored(row, b),
                                     !.truncated = Size[b] > Room(row)]
    BY <1>4, <2>1 DEF AppendRow, JobRow
  <2>6. QED
    BY <1>2, <2>3, <2>4, <2>5
<1>5. QED
  BY <1>3, <1>4

----------------------------------------------------------------------------
\* Seen from one job, a step is one of nine things.  Every invariant below is
\* about one row and the records that go with it, so it is enough to know them.

Untouched(j) == job'[j] = job[j] /\ output'[j] = output[j]

Submitted(j) ==
  /\ job[j].status = "absent"
  /\ \E c \in Command, u \in User :
       job'[j] = [job[j] EXCEPT !.status = "queued", !.command = c,
                                !.requestedBy = u, !.rowid = nextRow]
  /\ output'[j] = output[j]

CancelRequested(j) ==
  /\ job[j].status \in {"queued", "running"}
  /\ job'[j] = CancelRow(job[j])
  /\ j \in cancelAsked'
  /\ output'[j] = output[j]

Reaped(j) ==
  /\ Expired(j)
  /\ job'[j] = WorkerLost(job[j])
  /\ output'[j] = output[j]

Denied(j) ==
  /\ job[j].status = "queued"
  /\ job'[j] = Refused(j)
  /\ \E w \in Worker : [job |-> j, worker |-> w, decision |-> "deny"] \in audit'
  /\ output'[j] = output[j]

Granted(j) ==
  /\ job[j].status = "queued"
  /\ \E w \in Worker :
       /\ job'[j] = Claimed(job[j], w)
       /\ [job |-> j, worker |-> w, decision |-> "allow"] \in audit'
  /\ output'[j] = output[j]

Appended(j) ==
  \E post \in Posts :
    /\ job[j].status = "running"
    /\ job'[j] = AppendRow(job[j], post)
    /\ output'[j] = AppendLog(output[j], job[j], post)

Completed(j) ==
  \E body \in Report :
    /\ job[j].status = "running"
    /\ job'[j] = Finish(job[j], OutcomeOf(job[j], body), body.exitCode,
                        body.errorCode, body.errorMessage)
    /\ output'[j] = output[j]

Aged(j) ==
  /\ job[j].status = "running" /\ job[j].lease >= 0
  /\ job'[j] = [job[j] EXCEPT !.lease = @ - 1]
  /\ output'[j] = output[j]

\* All but the report of a worker.
CalmStep(j) ==
  \/ Untouched(j) \/ Submitted(j) \/ CancelRequested(j) \/ Reaped(j) \/ Denied(j)
  \/ Granted(j) \/ Appended(j) \/ Aged(j)

RowStep(j) == CalmStep(j) \/ Completed(j)

\* The rows one claim touches.
LEMMA ClaimRowSteps ==
  ASSUME TypeOK, NEW w \in Worker, NEW refused \in SUBSET InStatus("queued"),
         NEW granted \in SUBSET InStatus("queued"),
         job' = AfterClaim(w, refused, granted), output' = output,
         ClaimRecords(w, refused, "deny") \subseteq audit',
         ClaimRecords(w, granted, "allow") \subseteq audit'
  PROVE  \A j \in Job : CalmStep(j)
<1>1. SUFFICES ASSUME NEW j \in Job
               PROVE  CalmStep(j)
  OBVIOUS
<1>2. CASE Expired(j)
  BY <1>2 DEF AfterClaim, CalmStep, Reaped
<1>3. CASE ~Expired(j) /\ j \in refused
  <2>1. job'[j] = Refused(j) /\ job[j].status = "queued"
    BY <1>3 DEF AfterClaim, InStatus
  <2>2. [job |-> j, worker |-> w, decision |-> "deny"] \in audit'
    BY <1>3 DEF ClaimRecords
  <2>3. QED
    BY <2>1, <2>2 DEF CalmStep, Denied
<1>4. CASE ~Expired(j) /\ j \notin refused /\ j \in granted
  <2>1. job'[j] = Claimed(job[j], w) /\ job[j].status = "queued"
    BY <1>4 DEF AfterClaim, InStatus
  <2>2. [job |-> j, worker |-> w, decision |-> "allow"] \in audit'
    BY <1>4 DEF ClaimRecords
  <2>3. QED
    BY <2>1, <2>2 DEF CalmStep, Granted
<1>5. CASE ~Expired(j) /\ j \notin refused /\ j \notin granted
  BY <1>5 DEF AfterClaim, CalmStep, Untouched
<1>6. QED
  BY <1>2, <1>3, <1>4, <1>5

\* The steps of everything but a report.
CalmNext ==
  \/ ClientNext \/ TimeNext \/ UNCHANGED queueVars
  \/ \E w \in Worker : \/ \E j \in Job : ClaimGrant(w, j)
                       \/ ClaimNothing(w)
                       \/ ClaimCutShort(w)
                       \/ \E j \in Job, post \in Posts : AppendOutput(w, j, post)

LEMMA CalmRowSteps ==
  ASSUME TypeOK, CalmNext
  PROVE  \A j \in Job : CalmStep(j)
<1>1. ASSUME NEW u \in User, NEW c \in Command, NEW k \in Job, Submit(u, c, k)
      PROVE  \A j \in Job : CalmStep(j)
  BY <1>1 DEF Submit, TypeOK, CalmStep, Untouched, Submitted
<1>2. ASSUME NEW k \in Job, CancelJob(k)
      PROVE  \A j \in Job : CalmStep(j)
  BY <1>2 DEF CancelJob, TypeOK, CalmStep, Untouched, CancelRequested
<1>3. ASSUME UNCHANGED <<job, output>>
      PROVE  \A j \in Job : CalmStep(j)
  BY <1>3 DEF CalmStep, Untouched
<1>4. ASSUME NEW w \in Worker, NEW k \in Job, ClaimGrant(w, k)
      PROVE  \A j \in Job : CalmStep(j)
  <2>1. OlderQueued(k) \in SUBSET InStatus("queued") /\ {k} \in SUBSET InStatus("queued")
    BY <1>4 DEF ClaimGrant, FirstAuthorized, Candidates, OlderQueued
  <2>2. QED
    BY <1>4, <2>1, ClaimRowSteps DEF ClaimGrant
<1>5. ASSUME NEW w \in Worker, ClaimNothing(w)
      PROVE  \A j \in Job : CalmStep(j)
  <2>1. ClaimRecords(w, {}, "allow") = {}
    BY DEF ClaimRecords
  <2>2. Candidates \in SUBSET InStatus("queued")
    BY DEF Candidates
  <2>3. QED
    BY <1>5, <2>1, <2>2, ClaimRowSteps DEF ClaimNothing
<1>6. ASSUME NEW w \in Worker, ClaimCutShort(w)
      PROVE  \A j \in Job : CalmStep(j)
  <2>1. PICK k \in Candidates :
             /\ job' = AfterClaim(w, OlderQueued(k), {})
             /\ ClaimRecords(w, OlderQueued(k), "deny") \subseteq audit'
             /\ output' = output
    BY <1>6 DEF ClaimCutShort
  <2>2. ClaimRecords(w, {}, "allow") = {}
    BY DEF ClaimRecords
  <2>3. OlderQueued(k) \in SUBSET InStatus("queued")
    BY DEF OlderQueued
  <2>4. QED
    BY <2>1, <2>2, <2>3, ClaimRowSteps
<1>7. ASSUME NEW w \in Worker, NEW k \in Job, NEW post \in Posts,
             AppendOutput(w, k, post)
      PROVE  \A j \in Job : CalmStep(j)
  BY <1>7 DEF AppendOutput, Owns, TypeOK, CalmStep, Untouched, Appended
<1>8. ASSUME ReapExpired \/ Tick
      PROVE  \A j \in Job : CalmStep(j)
  BY <1>8 DEF ReapExpired, Tick, TypeOK, CalmStep, Untouched, Reaped, Aged
<1>9. QED
  BY <1>1, <1>2, <1>3, <1>4, <1>5, <1>6, <1>7, <1>8
     DEF CalmNext, ClientNext, TimeNext, UpdatePolicy, SetWorkspaceGrant, SetPolicy,
         SetMember, queueVars

LEMMA NextRowSteps ==
  ASSUME TypeOK, [QueueNext]_queueVars
  PROVE  /\ \A j \in Job : RowStep(j)
         /\ audit \subseteq audit'
         /\ cancelAsked \subseteq cancelAsked'
<1>1. ASSUME CalmNext
      PROVE  \A j \in Job : RowStep(j)
  BY <1>1, CalmRowSteps DEF RowStep
<1>2. ASSUME NEW w \in Worker, NEW k \in Job, NEW body \in Report,
             Complete(w, k, body)
      PROVE  \A j \in Job : RowStep(j)
  BY <1>2 DEF Complete, Owns, TypeOK, RowStep, CalmStep, Untouched, Completed
<1>3. \A j \in Job : RowStep(j)
  BY <1>1, <1>2 DEF QueueNext, WorkerNext, CalmNext
<1>4. audit \subseteq audit' /\ cancelAsked \subseteq cancelAsked'
  BY DEF QueueNext, ClientNext, WorkerNext, TimeNext, UpdatePolicy,
         SetWorkspaceGrant, SetPolicy, SetMember, queueVars, Submit, CancelJob,
         ClaimGrant, ClaimNothing, ClaimCutShort, AppendOutput, Complete,
         ReapExpired, Tick
<1>5. QED
  BY <1>3, <1>4

----------------------------------------------------------------------------
\* Types.

LEMMA RowStepType ==
  ASSUME TypeOK, NEW j \in Job, RowStep(j)
  PROVE  job'[j] \in JobRow
<1>1. job[j] \in JobRow
  BY DEF TypeOK
<1>2. CASE Untouched(j)
  BY <1>1, <1>2 DEF Untouched
<1>3. CASE Submitted(j)
  BY <1>1, <1>3 DEF Submitted, JobRow, Status, TypeOK
<1>4. CASE CancelRequested(j)
  <2>1. CASE job[j].status = "queued"
    BY <1>1, <1>4, <2>1, FinishType
       DEF CancelRequested, CancelRow, Status, Terminal, ExitCode, ErrorCode
  <2>2. CASE job[j].status # "queued"
    BY <1>1, <1>4, <2>2 DEF CancelRequested, CancelRow, JobRow
  <2>3. QED
    BY <2>1, <2>2
<1>5. CASE Reaped(j)
  BY <1>1, <1>5, WorkerLostType DEF Reaped
<1>6. CASE Denied(j)
  <2>1. DenialCode(j) \in ErrorCode
    BY DEF DenialCode, ErrorCode, DenyCode
  <2>2. QED
    BY <1>1, <1>6, <2>1, FinishType DEF Denied, Refused, Status, Terminal, ExitCode
<1>7. CASE Granted(j)
  BY <1>1, <1>7, ClaimedType DEF Granted
<1>8. CASE Appended(j)
  BY <1>1, <1>8, AppendRowType DEF Appended
<1>9. CASE Completed(j)
  <2>1. PICK body \in FinishBody :
           job'[j] = Finish(job[j], OutcomeOf(job[j], body), body.exitCode,
                            body.errorCode, body.errorMessage)
    BY <1>9, ReportAssumption DEF Completed
  <2>2. OutcomeOf(job[j], body) \in Status
    BY DEF OutcomeOf, Status, Terminal
  <2>3. /\ body.exitCode \in ExitCode
        /\ body.errorCode \in ErrorCode
        /\ body.errorMessage \in BOOLEAN
    BY DEF FinishBody, ErrorCode
  <2>4. QED
    BY <1>1, <2>1, <2>2, <2>3, FinishType
<1>10. CASE Aged(j)
  <2>1. job[j].lease - 1 \in Lease
    BY <1>1, <1>10, LimitAssumption DEF Aged, JobRow, Lease, NoLease
  <2>2. QED
    BY <1>1, <1>10, <2>1 DEF Aged, JobRow
<1>11. QED
  BY <1>2, <1>3, <1>4, <1>5, <1>6, <1>7, <1>8, <1>9, <1>10 DEF RowStep, CalmStep

LEMMA LogStepType ==
  ASSUME TypeOK, NEW j \in Job, RowStep(j)
  PROVE  output'[j] \in Seq([batch: Batch, size: Nat])
<1>1. output[j] \in Seq([batch: Batch, size: Nat]) /\ job[j] \in JobRow
  BY DEF TypeOK
<1>2. CASE Appended(j)
  <2>1. PICK post \in Posts : output'[j] = AppendLog(output[j], job[j], post)
    BY <1>2 DEF Appended
  <2>2. CASE post = <<>> \/ job[j].truncated \/ Stored(job[j], post[1]) = 0
    BY <1>1, <2>1, <2>2 DEF AppendLog
  <2>3. CASE ~(post = <<>> \/ job[j].truncated \/ Stored(job[j], post[1]) = 0)
    <3>1. PICK b \in Batch : post = <<b>>
      BY <2>3 DEF Posts
    <3>2. Stored(job[j], b) \in Nat
      BY <1>1, StoredType
    <3>3. output'[j] = Append(output[j], [batch |-> b, size |-> Stored(job[j], b)])
      BY <2>1, <2>3, <3>1 DEF AppendLog
    <3>4. QED
      BY <1>1, <3>2, <3>3
  <2>4. QED
    BY <2>2, <2>3
<1>3. CASE ~Appended(j)
  BY <1>1, <1>3 DEF RowStep, CalmStep, Untouched, Submitted, CancelRequested, Reaped,
                    Denied, Granted, Completed, Aged
<1>4. QED
  BY <1>2, <1>3

LEMMA InitTypeOK == QueueInit => TypeOK
<1>1. EmptyRow \in JobRow
  BY NonEmptyAssumption
     DEF EmptyRow, JobRow, Status, Lease, NoLease, ExitCode, ErrorCode
<1>2. QED
  BY <1>1 DEF QueueInit, TypeOK, Policy

LEMMA NextTypeOK ==
  ASSUME TypeOK, [QueueNext]_queueVars
  PROVE  TypeOK'
<1>1. (DOMAIN job' = Job /\ job' = [j \in Job |-> job'[j]])
      /\ output' = [j \in Job |-> output'[j]]
  BY DEF TypeOK, QueueNext, ClientNext, WorkerNext, TimeNext, UpdatePolicy,
         SetWorkspaceGrant, SetPolicy, SetMember, queueVars, Submit, CancelJob,
         ClaimGrant, ClaimNothing, ClaimCutShort, AppendOutput, Complete,
         ReapExpired, Tick, AfterClaim
<1>2. job' \in [Job -> JobRow]
  BY <1>1, NextRowSteps, RowStepType
<1>3. output' \in [Job -> Seq([batch: Batch, size: Nat])]
  BY <1>1, NextRowSteps, LogStepType
<1>4. nextRow' \in Nat \ {0}
  <2>1. nextRow' = nextRow \/ nextRow' = nextRow + 1
    BY DEF QueueNext, ClientNext, WorkerNext, TimeNext, UpdatePolicy,
           SetWorkspaceGrant, SetPolicy, SetMember, queueVars, Submit, CancelJob,
           ClaimGrant, ClaimNothing, ClaimCutShort, AppendOutput, Complete,
           ReapExpired, Tick
  <2>2. nextRow \in Nat \ {0}
    BY DEF TypeOK
  <2>3. QED
    BY <2>1, <2>2
<1>5. audit' \subseteq AuditRecord
  <2>1. ASSUME NEW w \in Worker, NEW jobs \in SUBSET Job,
               NEW verdict \in {"allow", "deny"}
        PROVE  ClaimRecords(w, jobs, verdict) \subseteq AuditRecord
    BY DEF ClaimRecords, AuditRecord
  <2>2. ASSUME NEW w \in Worker, NEW k \in Job, ClaimGrant(w, k)
        PROVE  audit' \subseteq AuditRecord
    <3>1. OlderQueued(k) \in SUBSET Job /\ {k} \in SUBSET Job
      BY DEF OlderQueued, InStatus
    <3>2. QED
      BY <2>1, <2>2, <3>1 DEF ClaimGrant, TypeOK
  <2>3. ASSUME NEW w \in Worker, ClaimNothing(w)
        PROVE  audit' \subseteq AuditRecord
    <3>1. Candidates \in SUBSET Job
      BY DEF Candidates, InStatus
    <3>2. QED
      BY <2>1, <2>3, <3>1 DEF ClaimNothing, TypeOK
  <2>4. ASSUME NEW w \in Worker, ClaimCutShort(w)
        PROVE  audit' \subseteq AuditRecord
    <3>1. PICK k \in Candidates, recorded \in BOOLEAN :
             audit' = audit \cup ClaimRecords(w, OlderQueued(k), "deny")
                      \cup IF ~recorded THEN {}
                           ELSE ClaimRecords(w, {k}, IF Authorized(k) THEN "allow"
                                                                     ELSE "deny")
      BY <2>4 DEF ClaimCutShort
    <3>2. OlderQueued(k) \in SUBSET Job /\ {k} \in SUBSET Job
      BY DEF OlderQueued, InStatus, Candidates
    <3>3. /\ ClaimRecords(w, {k}, "allow") \subseteq AuditRecord
          /\ ClaimRecords(w, {k}, "deny") \subseteq AuditRecord
          /\ ClaimRecords(w, OlderQueued(k), "deny") \subseteq AuditRecord
      BY <2>1, <3>2
    <3>4. QED
      BY <3>1, <3>3 DEF TypeOK
  <2>5. QED
    BY <2>2, <2>3, <2>4
       DEF TypeOK, QueueNext, ClientNext, WorkerNext, TimeNext, UpdatePolicy,
           SetWorkspaceGrant, SetPolicy, SetMember, queueVars, Submit, CancelJob,
           AppendOutput, Complete, ReapExpired, Tick
<1>6. policy' \in Seq(Policy) /\ policy' # <<>>
  <2>1. ASSUME NEW p \in Policy, SetPolicy(p)
        PROVE  policy' \in Seq(Policy) /\ policy' # <<>>
    BY <2>1 DEF SetPolicy, TypeOK
  <2>2. policy[PolicyVersion] \in Policy
    BY DEF TypeOK, PolicyVersion
  <2>3. ASSUME NEW cs \in SUBSET Command
        PROVE  /\ [policy[PolicyVersion] EXCEPT !.ceiling = cs] \in Policy
               /\ [policy[PolicyVersion] EXCEPT !.grant = cs] \in Policy
    BY <2>2 DEF Policy
  <2>4. ASSUME NEW cs \in SUBSET Command, UpdatePolicy(cs) \/ SetWorkspaceGrant(cs)
        PROVE  policy' \in Seq(Policy) /\ policy' # <<>>
    BY <2>1, <2>3, <2>4 DEF UpdatePolicy, SetWorkspaceGrant
  <2>5. QED
    BY <2>4 DEF TypeOK, QueueNext, ClientNext, WorkerNext, TimeNext,
         SetMember, queueVars, Submit, CancelJob, ClaimGrant, ClaimNothing,
         ClaimCutShort, AppendOutput, Complete, ReapExpired, Tick
<1>7. operators' \subseteq User /\ cancelAsked' \subseteq Job
  BY DEF TypeOK, QueueNext, ClientNext, WorkerNext, TimeNext, UpdatePolicy,
         SetWorkspaceGrant, SetPolicy, SetMember, queueVars, Submit, CancelJob,
         ClaimGrant, ClaimNothing, ClaimCutShort, AppendOutput, Complete,
         ReapExpired, Tick
<1>8. QED
  BY <1>2, <1>3, <1>4, <1>5, <1>6, <1>7 DEF TypeOK

\* The tables of the job store keep their types whatever clients, workers,
\* administrators and the reaper do.
THEOREM QueueTypeOK == QueueSpec => []TypeOK
BY InitTypeOK, NextTypeOK, PTL DEF QueueSpec

----------------------------------------------------------------------------
\* Invariants about one row and its records.  Each follows from the shape of
\* RowStep; OutcomeConsistent alone needs another one, that a running job has
\* an owner.

RowInv == TypeOK /\ LeaseIffRunning /\ StartedOnlyIfAudited
                 /\ CanceledOnlyIfAsked /\ OutcomeConsistent /\ OutputCapped

LEMMA InitRowInv == QueueInit => RowInv
<1>1. SUFFICES ASSUME QueueInit PROVE RowInv
  OBVIOUS
<1>2. TypeOK
  BY <1>1, InitTypeOK
<1>3. \A j \in Job : /\ job[j].status = "absent" /\ job[j].worker = NoWorker
                    /\ job[j].lease = NoLease /\ job[j].errorCode = "none"
                    /\ job[j].cancelRequested = FALSE
                    /\ output[j] = <<>> /\ job[j].bytes = 0
  BY <1>1 DEF QueueInit, EmptyRow
<1>4. LeaseIffRunning /\ CanceledOnlyIfAsked
  BY <1>3 DEF LeaseIffRunning, CanceledOnlyIfAsked
<1>5. StartedOnlyIfAudited /\ OutcomeConsistent
  BY <1>3 DEF StartedOnlyIfAudited, OutcomeConsistent, DenyCode
<1>6. OutputCapped
  BY <1>3, LimitAssumption DEF OutputCapped
<1>7. QED
  BY <1>2, <1>4, <1>5, <1>6 DEF RowInv

LEMMA NextLeaseIffRunning ==
  ASSUME RowInv, NEW j \in Job, RowStep(j)
  PROVE  /\ (job'[j].lease # NoLease) <=> (job'[j].status = "running")
         /\ job'[j].status = "running" => job'[j].worker \in Worker
         /\ job'[j].status \in {"absent", "queued"} => job'[j].worker = NoWorker
<1>1. /\ job[j] \in JobRow
      /\ (job[j].lease # NoLease) <=> (job[j].status = "running")
      /\ job[j].status = "running" => job[j].worker \in Worker
      /\ job[j].status \in {"absent", "queued"} => job[j].worker = NoWorker
  BY DEF RowInv, TypeOK, LeaseIffRunning
<1>2. LeaseTicks # NoLease
  BY LimitAssumption DEF NoLease
<1>3. CASE Untouched(j) \/ Submitted(j) \/ CancelRequested(j)
  BY <1>1, <1>3 DEF Untouched, Submitted, CancelRequested, CancelRow, Finish, JobRow
<1>4. CASE Reaped(j) \/ Denied(j)
  BY <1>1, <1>4 DEF Reaped, Denied, WorkerLost, Refused, Finish, JobRow
<1>5. CASE Granted(j)
  BY <1>1, <1>2, <1>5 DEF Granted, Claimed, JobRow
<1>6. CASE Appended(j)
  BY <1>1, <1>2, <1>6 DEF Appended, AppendRow, JobRow
<1>7. CASE Completed(j)
  BY <1>1, <1>7 DEF Completed, OutcomeOf, Finish, JobRow
<1>8. CASE Aged(j)
  <2>1. job[j].lease - 1 # NoLease
    BY <1>1, <1>8 DEF Aged, JobRow, Lease, NoLease
  <2>2. QED
    BY <1>1, <1>8, <2>1 DEF Aged, JobRow
<1>9. QED
  BY <1>3, <1>4, <1>5, <1>6, <1>7, <1>8 DEF RowStep, CalmStep

LEMMA NextStartedOnlyIfAudited ==
  ASSUME RowInv, NEW j \in Job, RowStep(j), audit \subseteq audit'
  PROVE  /\ job'[j].worker # NoWorker =>
              [job |-> j, worker |-> job'[j].worker, decision |-> "allow"] \in audit'
         /\ job'[j].errorCode \in DenyCode =>
              \E w \in Worker :
                 [job |-> j, worker |-> w, decision |-> "deny"] \in audit'
<1>1. /\ job[j] \in JobRow
      /\ job[j].worker # NoWorker =>
           [job |-> j, worker |-> job[j].worker, decision |-> "allow"] \in audit'
      /\ job[j].errorCode \in DenyCode =>
           \E w \in Worker : [job |-> j, worker |-> w, decision |-> "deny"] \in audit'
  BY DEF RowInv, TypeOK, StartedOnlyIfAudited
<1>2. CASE job'[j].worker = job[j].worker /\ job'[j].errorCode = job[j].errorCode
  BY <1>1, <1>2
<1>3. CASE CancelRequested(j) \/ Reaped(j)
  BY <1>1, <1>3
     DEF CancelRequested, CancelRow, Reaped, WorkerLost, Finish, JobRow, DenyCode
<1>4. CASE Denied(j)
  BY <1>1, <1>4 DEF Denied, Refused, Finish, JobRow
<1>5. CASE Granted(j)
  BY <1>1, <1>5 DEF Granted, Claimed, JobRow
<1>6. CASE Completed(j)
  <2>1. PICK body \in FinishBody :
           job'[j] = Finish(job[j], OutcomeOf(job[j], body), body.exitCode,
                            body.errorCode, body.errorMessage)
    BY <1>6, ReportAssumption DEF Completed
  <2>2. job'[j].worker = job[j].worker /\ job'[j].errorCode = body.errorCode
    BY <1>1, <2>1 DEF Finish, JobRow
  <2>3. body.errorCode \notin DenyCode
    BY DEF FinishBody, DenyCode
  <2>4. QED
    BY <1>1, <2>2, <2>3
<1>7. CASE Untouched(j) \/ Submitted(j) \/ Appended(j) \/ Aged(j)
  BY <1>1, <1>2, <1>7 DEF Untouched, Submitted, Appended, AppendRow, Aged, JobRow
<1>8. QED
  BY <1>3, <1>4, <1>5, <1>6, <1>7 DEF RowStep, CalmStep

LEMMA NextCanceledOnlyIfAsked ==
  ASSUME RowInv, NEW j \in Job, RowStep(j), cancelAsked \subseteq cancelAsked'
  PROVE  job'[j].cancelRequested \/ job'[j].status = "canceled" => j \in cancelAsked'
<1>1. /\ job[j] \in JobRow
      /\ job[j].cancelRequested \/ job[j].status = "canceled" => j \in cancelAsked'
  BY DEF RowInv, TypeOK, CanceledOnlyIfAsked
<1>2. CASE Untouched(j) \/ Submitted(j)
  BY <1>1, <1>2 DEF Untouched, Submitted, JobRow
<1>3. CASE CancelRequested(j)
  BY <1>3 DEF CancelRequested
<1>4. CASE Reaped(j) \/ Denied(j) \/ Granted(j)
  BY <1>1, <1>4 DEF Reaped, Denied, Granted, WorkerLost, Refused, Claimed, Finish, JobRow
<1>5. CASE Appended(j) \/ Aged(j)
  BY <1>1, <1>5 DEF Appended, AppendRow, Aged, JobRow
<1>6. CASE Completed(j)
  BY <1>1, <1>6 DEF Completed, OutcomeOf, Finish, JobRow
<1>7. QED
  BY <1>2, <1>3, <1>4, <1>5, <1>6 DEF RowStep, CalmStep

LEMMA NextOutcomeConsistent ==
  ASSUME RowInv, NEW j \in Job, RowStep(j)
  PROVE  /\ job'[j].status = "succeeded" =>
              /\ job'[j].worker \in Worker
              /\ job'[j].exitCode = "zero"
              /\ job'[j].errorCode = "none"
         /\ job'[j].status = "failed" =>
              job'[j].exitCode # "zero" \/ job'[j].errorCode # "none"
         /\ job'[j].worker = NoWorker => output'[j] = <<>>
<1>1. /\ job[j] \in JobRow
      /\ job[j].status = "running" => job[j].worker \in Worker
      /\ job[j].status = "succeeded" =>
           /\ job[j].worker \in Worker
           /\ job[j].exitCode = "zero"
           /\ job[j].errorCode = "none"
      /\ job[j].status = "failed" =>
           job[j].exitCode # "zero" \/ job[j].errorCode # "none"
      /\ job[j].worker = NoWorker => output[j] = <<>>
  BY DEF RowInv, TypeOK, LeaseIffRunning, OutcomeConsistent
<1>2. CASE Untouched(j) \/ Submitted(j) \/ CancelRequested(j)
  BY <1>1, <1>2 DEF Untouched, Submitted, CancelRequested, CancelRow, Finish, JobRow
<1>3. CASE Reaped(j) \/ Denied(j)
  BY <1>1, <1>3 DEF Reaped, Denied, WorkerLost, Refused, Finish, JobRow
<1>4. CASE Granted(j)
  BY <1>1, <1>4, WorkerAssumption DEF Granted, Claimed, JobRow
<1>5. CASE Appended(j)
  <2>1. /\ job'[j].status = "running"
        /\ job'[j].worker \in Worker
    BY <1>1, <1>5 DEF Appended, AppendRow, JobRow
  <2>2. QED
    BY <2>1, WorkerAssumption
<1>6. CASE Completed(j)
  BY <1>1, <1>6, WorkerAssumption DEF Completed, OutcomeOf, Finish, JobRow
<1>7. CASE Aged(j)
  BY <1>1, <1>7 DEF Aged, JobRow
<1>8. QED
  BY <1>2, <1>3, <1>4, <1>5, <1>6, <1>7 DEF RowStep, CalmStep

\* What is cut to fit grows by two bytes at most.
LEMMA CutBound ==
  ASSUME NEW room \in Nat, NEW width \in 1 .. 4
  PROVE  Cut(room, width) <= room + 2
<1>1. room % width \in Nat
  OBVIOUS
<1>2. QED
  BY <1>1 DEF Cut

LEMMA NextOutputCapped ==
  ASSUME RowInv, NEW j \in Job, RowStep(j)
  PROVE  /\ job'[j].bytes <= MaxOutput + 2
         /\ ~job'[j].truncated => job'[j].bytes <= MaxOutput
<1>1. /\ job[j] \in JobRow
      /\ job[j].bytes <= MaxOutput + 2
      /\ ~job[j].truncated => job[j].bytes <= MaxOutput
  BY DEF RowInv, TypeOK, OutputCapped
<1>2. CASE Appended(j)
  <2>1. PICK post \in Posts : job'[j] = AppendRow(job[j], post)
    BY <1>2 DEF Appended
  <2>2. CASE post = <<>> \/ job[j].truncated
    BY <1>1, <2>1, <2>2 DEF AppendRow, JobRow
  <2>3. CASE ~(post = <<>> \/ job[j].truncated)
    <3>1. PICK b \in Batch : post = <<b>>
      BY <2>3 DEF Posts
    <3>2. /\ job'[j].bytes = job[j].bytes + Stored(job[j], b)
          /\ job'[j].truncated = (Size[b] > Room(job[j]))
      BY <1>1, <2>1, <2>3, <3>1 DEF AppendRow, JobRow
    <3>3. Size[b] \in Nat /\ Width[b] \in 1 .. 4 /\ MaxOutput \in Nat
      BY SizeAssumption, LimitAssumption
    <3>4. job[j].bytes \in Nat
      BY <1>1 DEF JobRow
    <3>5. Room(job[j]) = MaxOutput - job[j].bytes /\ Room(job[j]) \in Nat
      BY <1>1, <2>3, <3>3, <3>4 DEF Room
    <3>6. Cut(Room(job[j]), Width[b]) <= Room(job[j]) + 2
      BY <3>3, <3>5, CutBound
    <3>7. CASE Size[b] <= Room(job[j])
      BY <3>2, <3>3, <3>4, <3>5, <3>7 DEF Stored
    <3>8. CASE ~(Size[b] <= Room(job[j]))
      <4>1. Stored(job[j], b) = Cut(Room(job[j]), Width[b])
        BY <3>8 DEF Stored
      <4>2. Size[b] > Room(job[j])
        BY <3>3, <3>5, <3>8
      <4>3. job'[j].truncated
        BY <3>2, <4>2, Zenon
      <4>4. Cut(Room(job[j]), Width[b]) \in Nat
        BY <3>3, <3>5 DEF Cut
      <4>5. QED
        BY <3>2, <3>3, <3>4, <3>5, <3>6, <4>1, <4>3, <4>4
    <3>9. QED
      BY <3>7, <3>8
  <2>4. QED
    BY <2>2, <2>3
<1>3. CASE Untouched(j) \/ Submitted(j) \/ CancelRequested(j) \/ Aged(j)
  BY <1>1, <1>3
     DEF Untouched, Submitted, CancelRequested, CancelRow, Aged, Finish, JobRow
<1>4. CASE Reaped(j) \/ Denied(j) \/ Granted(j) \/ Completed(j)
  BY <1>1, <1>4
     DEF Reaped, Denied, Granted, Completed, WorkerLost, Refused, Claimed, Finish, JobRow
<1>5. QED
  BY <1>2, <1>3, <1>4 DEF RowStep, CalmStep

LEMMA NextRowInv == RowInv /\ [QueueNext]_queueVars => RowInv'
<1>1. SUFFICES ASSUME RowInv, [QueueNext]_queueVars
               PROVE  RowInv'
  OBVIOUS
<1>2. TypeOK
  BY <1>1 DEF RowInv
<1>3. /\ \A j \in Job : RowStep(j)
      /\ audit \subseteq audit'
      /\ cancelAsked \subseteq cancelAsked'
  BY <1>1, <1>2, NextRowSteps
<1>4. TypeOK'
  BY <1>1, <1>2, NextTypeOK
<1>5. LeaseIffRunning'
  BY <1>1, <1>3, NextLeaseIffRunning DEF LeaseIffRunning
<1>6. StartedOnlyIfAudited'
  BY <1>1, <1>3, NextStartedOnlyIfAudited DEF StartedOnlyIfAudited
<1>7. CanceledOnlyIfAsked'
  BY <1>1, <1>3, NextCanceledOnlyIfAsked DEF CanceledOnlyIfAsked
<1>8. OutcomeConsistent'
  BY <1>1, <1>3, NextOutcomeConsistent DEF OutcomeConsistent
<1>9. OutputCapped'
  BY <1>1, <1>3, NextOutputCapped DEF OutputCapped
<1>10. QED
  BY <1>4, <1>5, <1>6, <1>7, <1>8, <1>9 DEF RowInv

LEMMA QueueRowInv == QueueSpec => []RowInv
BY InitRowInv, NextRowInv, PTL DEF QueueSpec

\* The running jobs are exactly those with a lease, and they have an owner.
THEOREM QueueLeaseIffRunning == QueueSpec => []LeaseIffRunning
BY QueueRowInv, PTL DEF RowInv

\* Every claim is in the audit trail before it takes effect, cut short or not.
THEOREM QueueStartedOnlyIfAudited == QueueSpec => []StartedOnlyIfAudited
BY QueueRowInv, PTL DEF RowInv

\* No worker can make a job canceled that nobody asked to cancel.
THEOREM QueueCanceledOnlyIfAsked == QueueSpec => []CanceledOnlyIfAsked
BY QueueRowInv, PTL DEF RowInv

\* The status of a finished job and its stored outcome agree.
THEOREM QueueOutcomeConsistent == QueueSpec => []OutcomeConsistent
BY QueueRowInv, PTL DEF RowInv

\* The tables of the queue make sense together, whatever its workers report.
THEOREM QueueJobsConsistent == QueueSpec => []JobsConsistent
<1>1. RowInv => JobsConsistent
  BY DEF RowInv, JobsConsistent
<1>2. QED
  BY <1>1, QueueRowInv, PTL

----------------------------------------------------------------------------
\* Who moves a job.  RowStep looks at one row; what follows also needs that
\* only a submission queues a job, and only a granted claim starts one.

LEMMA ClaimMoves ==
  ASSUME TypeOK, NEW w \in Worker, NEW refused \in SUBSET Job,
         NEW granted \in SUBSET Job, job' = AfterClaim(w, refused, granted)
  PROVE  \A j \in Job :
           /\ job'[j].status = "queued" => job[j].status = "queued"
           /\ job[j].status = "queued" /\ job'[j].status = "running" => j \in granted
           /\ job'[j].rowid = job[j].rowid
           /\ job'[j].errorCode = "WORKER_LOST" =>
                job[j].errorCode = "WORKER_LOST" \/ Expired(j)
<1>1. SUFFICES ASSUME NEW j \in Job
               PROVE  /\ job'[j].status = "queued" => job[j].status = "queued"
                      /\ job[j].status = "queued" /\ job'[j].status = "running"
                           => j \in granted
                      /\ job'[j].rowid = job[j].rowid
                      /\ job'[j].errorCode = "WORKER_LOST" =>
                           job[j].errorCode = "WORKER_LOST" \/ Expired(j)
  OBVIOUS
<1>2. job[j] \in JobRow
  BY DEF TypeOK
<1>3. CASE Expired(j)
  BY <1>2, <1>3 DEF AfterClaim, WorkerLost, Finish, JobRow
<1>4. CASE ~Expired(j) /\ j \in refused
  BY <1>2, <1>4 DEF AfterClaim, Refused, DenialCode, Finish, JobRow
<1>5. CASE ~Expired(j) /\ j \notin refused /\ j \in granted
  BY <1>2, <1>5 DEF AfterClaim, Claimed, JobRow
<1>6. CASE ~Expired(j) /\ j \notin refused /\ j \notin granted
  BY <1>6 DEF AfterClaim
<1>7. QED
  BY <1>3, <1>4, <1>5, <1>6

\* What every step except a submission leaves as it was.
QuietFor(j) ==
  /\ job'[j].status = "queued" => job[j].status = "queued"
  /\ job[j].status = "queued" /\ job'[j].status = "running" =>
       \E w \in Worker : ClaimGrant(w, j)
  /\ job'[j].rowid = job[j].rowid
  /\ job[j].errorCode = "none" /\ job'[j].errorCode = "WORKER_LOST" => Expired(j)

Submission == \E u \in User, c \in Command, k \in Job : Submit(u, c, k)

LEMMA StepIsQuiet ==
  ASSUME TypeOK, [QueueNext]_queueVars, ~Submission
  PROVE  nextRow' = nextRow /\ \A j \in Job : QuietFor(j)
<1>1. ASSUME NEW k \in Job, CancelJob(k)
      PROVE  \A j \in Job : QuietFor(j)
  BY <1>1 DEF CancelJob, CancelRow, Finish, TypeOK, JobRow, QuietFor
<1>2. ASSUME UNCHANGED job
      PROVE  \A j \in Job : QuietFor(j)
  BY <1>2 DEF QuietFor
<1>3. ASSUME NEW w \in Worker, NEW k \in Job, ClaimGrant(w, k)
      PROVE  \A j \in Job : QuietFor(j)
  <2>1. OlderQueued(k) \in SUBSET Job /\ {k} \in SUBSET Job
    BY DEF OlderQueued, InStatus
  <2>2. job' = AfterClaim(w, OlderQueued(k), {k})
    BY <1>3 DEF ClaimGrant
  <2>3. QED
    BY <1>3, <2>1, <2>2, ClaimMoves DEF QuietFor
<1>4. ASSUME NEW w \in Worker, ClaimNothing(w)
      PROVE  \A j \in Job : QuietFor(j)
  <2>1. Candidates \in SUBSET Job /\ {} \in SUBSET Job
    BY DEF Candidates, InStatus
  <2>2. job' = AfterClaim(w, Candidates, {})
    BY <1>4 DEF ClaimNothing
  <2>3. QED
    BY <2>1, <2>2, ClaimMoves DEF QuietFor
<1>5. ASSUME NEW w \in Worker, ClaimCutShort(w)
      PROVE  \A j \in Job : QuietFor(j)
  <2>1. PICK k \in Candidates : job' = AfterClaim(w, OlderQueued(k), {})
    BY <1>5 DEF ClaimCutShort
  <2>2. OlderQueued(k) \in SUBSET Job /\ {} \in SUBSET Job
    BY DEF OlderQueued, InStatus
  <2>3. QED
    BY <2>1, <2>2, ClaimMoves DEF QuietFor
<1>6. ASSUME NEW w \in Worker, NEW k \in Job, NEW post \in Posts,
             AppendOutput(w, k, post)
      PROVE  \A j \in Job : QuietFor(j)
  BY <1>6 DEF AppendOutput, AppendRow, Owns, TypeOK, JobRow, QuietFor
<1>7. ASSUME NEW w \in Worker, NEW k \in Job, NEW body \in Report,
             Complete(w, k, body)
      PROVE  \A j \in Job : QuietFor(j)
  <2>1. body \in FinishBody
    BY ReportAssumption
  <2>2. /\ job[k].status = "running"
        /\ \A j \in Job \ {k} : job'[j] = job[j]
        /\ job'[k] = Finish(job[k], OutcomeOf(job[k], body), body.exitCode,
                            body.errorCode, body.errorMessage)
    BY <1>7 DEF Complete, Owns, TypeOK
  <2>3. /\ job'[k].status \in {"succeeded", "failed", "canceled"}
        /\ job'[k].rowid = job[k].rowid
        /\ job'[k].errorCode = body.errorCode
    BY <2>2 DEF TypeOK, JobRow, Finish, OutcomeOf
  <2>4. body.errorCode # "WORKER_LOST"
    BY <2>1 DEF FinishBody
  <2>5. QED
    BY <2>2, <2>3, <2>4 DEF QuietFor
<1>8. ASSUME ReapExpired \/ Tick
      PROVE  \A j \in Job : QuietFor(j)
  <2>1. SUFFICES ASSUME NEW j \in Job
                 PROVE  QuietFor(j)
    OBVIOUS
  <2>2. job[j] \in JobRow
    BY DEF TypeOK
  <2>3. CASE job'[j] = job[j]
    BY <2>3 DEF QuietFor
  <2>4. CASE Expired(j) /\ job'[j] = WorkerLost(job[j])
    BY <2>2, <2>4 DEF WorkerLost, Finish, Expired, JobRow, QuietFor
  <2>5. CASE job[j].status = "running" /\ job'[j] = [job[j] EXCEPT !.lease = @ - 1]
    BY <2>2, <2>5 DEF JobRow, QuietFor
  <2>6. QED
    BY <1>8, <2>3, <2>4, <2>5 DEF ReapExpired, Tick
<1>9. \A j \in Job : QuietFor(j)
  BY <1>1, <1>2, <1>3, <1>4, <1>5, <1>6, <1>7, <1>8
     DEF Submission, QueueNext, ClientNext, WorkerNext, TimeNext, UpdatePolicy,
         SetWorkspaceGrant, SetPolicy, SetMember, queueVars
<1>10. nextRow' = nextRow
  BY DEF Submission, QueueNext, ClientNext, WorkerNext, TimeNext, UpdatePolicy,
         SetWorkspaceGrant, SetPolicy, SetMember, queueVars, CancelJob,
         ClaimGrant, ClaimNothing, ClaimCutShort, AppendOutput, Complete,
         ReapExpired, Tick
<1>11. QED
  BY <1>9, <1>10

----------------------------------------------------------------------------
\* The queue's limit and its order.

LEMMA NextQueueBounded ==
  ASSUME TypeOK, QueueBounded, [QueueNext]_queueVars
  PROVE  QueueBounded'
<1> DEFINE Q == InStatus("queued")
<1>1. /\ IsFiniteSet(Q)
      /\ Cardinality(Q) \in Nat
      /\ MaxQueued \in Nat
  BY JobAssumption, LimitAssumption, FS_Subset, FS_CardinalityType DEF InStatus
<1>2. CASE Submission
  <2>1. PICK u \in User, c \in Command, k \in Job : Submit(u, c, k)
    BY <1>2 DEF Submission
  <2>2. Q' \subseteq Q \cup {k}
    BY <2>1 DEF Submit, TypeOK, InStatus
  <2>3. k \notin Q /\ Cardinality(Q) < MaxQueued
    BY <2>1 DEF Submit, InStatus
  <2>4. /\ IsFiniteSet(Q \cup {k})
        /\ Cardinality(Q \cup {k}) = Cardinality(Q) + 1
    BY <1>1, <2>3, FS_AddElement
  <2>5. IsFiniteSet(Q') /\ Cardinality(Q') <= Cardinality(Q \cup {k})
    BY <2>2, <2>4, FS_Subset
  <2>6. Cardinality(Q') \in Nat
    BY <2>5, FS_CardinalityType
  <2>7. QED
    BY <1>1, <2>3, <2>4, <2>5, <2>6 DEF QueueBounded
<1>3. CASE ~Submission
  <2>1. Q' \subseteq Q
    BY <1>3, StepIsQuiet DEF InStatus, QuietFor
  <2>2. IsFiniteSet(Q') /\ Cardinality(Q') <= Cardinality(Q)
    BY <1>1, <2>1, FS_Subset
  <2>3. Cardinality(Q') \in Nat
    BY <2>2, FS_CardinalityType
  <2>4. QED
    BY <1>1, <2>2, <2>3 DEF QueueBounded
<1>4. QED
  BY <1>2, <1>3

LEMMA InitQueueBounded == QueueInit => QueueBounded
<1>1. SUFFICES ASSUME QueueInit PROVE QueueBounded
  OBVIOUS
<1>2. InStatus("queued") = {}
  BY <1>1 DEF QueueInit, EmptyRow, InStatus
<1>3. Cardinality({}) = 0
  BY FS_EmptySet
<1>4. QED
  BY <1>2, <1>3, LimitAssumption DEF QueueBounded

\* However many clients submit, the tenant's limit on queued jobs holds.
THEOREM QueueQueueBounded == QueueSpec => []QueueBounded
BY InitTypeOK, NextTypeOK, InitQueueBounded, NextQueueBounded, PTL DEF QueueSpec

LEMMA NextRowIds ==
  ASSUME TypeOK, RowIdsOrderTheQueue, [QueueNext]_queueVars
  PROVE  RowIdsOrderTheQueue'
<1>1. nextRow \in Nat /\ \A j \in Job : job[j].rowid \in Nat
  BY DEF TypeOK, JobRow
<1>2. CASE Submission
  <2>1. PICK u \in User, c \in Command, k \in Job : Submit(u, c, k)
    BY <1>2 DEF Submission
  <2>2. /\ nextRow' = nextRow + 1
        /\ job'[k].rowid = nextRow
        /\ \A j \in Job \ {k} : job'[j] = job[j]
    BY <2>1 DEF Submit, TypeOK, JobRow
  <2>3. QED
    BY <1>1, <2>2 DEF RowIdsOrderTheQueue
<1>3. CASE ~Submission
  <2>1. /\ nextRow' = nextRow
        /\ \A j \in Job : job'[j].rowid = job[j].rowid
    BY <1>3, StepIsQuiet DEF QuietFor
  <2>2. \A j \in Job : job'[j].status # "absent" => job[j].status # "absent"
    <3>1. SUFFICES ASSUME NEW j \in Job, job[j].status = "absent"
                   PROVE  job'[j].status = "absent"
      OBVIOUS
    <3>2. RowStep(j)
      BY NextRowSteps
    <3>3. job'[j].status # "queued"
      BY <1>3, <3>1, StepIsQuiet DEF QuietFor
    <3>4. QED
      BY <3>1, <3>2, <3>3
         DEF RowStep, CalmStep, Untouched, Submitted, CancelRequested, Reaped, Expired,
             Denied, Granted, Appended, Completed, Aged, TypeOK, JobRow
  <2>3. QED
    BY <2>1, <2>2 DEF RowIdsOrderTheQueue
<1>4. QED
  BY <1>2, <1>3

\* No two jobs of the queue ever share a place in it.
THEOREM QueueRowIds == QueueSpec => []RowIdsOrderTheQueue
<1>1. QueueInit => RowIdsOrderTheQueue
  BY DEF QueueInit, EmptyRow, RowIdsOrderTheQueue
<1>2. QED
  BY <1>1, InitTypeOK, NextTypeOK, NextRowIds, PTL DEF QueueSpec

----------------------------------------------------------------------------
\* What a step may never do.

\* A job that starts is authorized then, and nobody is overtaken: those ahead of
\* it are refused in the same step.
THEOREM QueueStartsOldest == QueueSpec => StartsOldestAuthorized
<1> DEFINE Fair == \A j \in Job :
      job[j].status = "queued" /\ job'[j].status = "running" =>
        /\ Authorized(j)
        /\ \A k \in OlderQueued(j) : job'[k].status = "failed"
                                      /\ job'[k].errorCode \in DenyCode
<1>1. ASSUME TypeOK, [QueueNext]_queueVars, NEW j \in Job,
             job[j].status = "queued", job'[j].status = "running"
      PROVE  /\ Authorized(j)
             /\ \A k \in OlderQueued(j) : job'[k].status = "failed"
                                           /\ job'[k].errorCode \in DenyCode
  <2>1. ~Submission
    BY <1>1 DEF Submission, Submit, TypeOK, JobRow
  <2>2. PICK w \in Worker : ClaimGrant(w, j)
    BY <1>1, <2>1, StepIsQuiet DEF QuietFor
  <2>3. Authorized(j)
    BY <2>2 DEF ClaimGrant, FirstAuthorized
  <2>4. ASSUME NEW k \in OlderQueued(j)
        PROVE  job'[k].status = "failed" /\ job'[k].errorCode \in DenyCode
    <3>1. k \in Job /\ job[k] \in JobRow /\ ~Expired(k)
      BY <1>1 DEF OlderQueued, InStatus, TypeOK, Expired
    <3>2. job'[k] = Refused(k)
      BY <2>2, <3>1 DEF ClaimGrant, AfterClaim
    <3>3. job'[k].status = "failed" /\ job'[k].errorCode = DenialCode(k)
      BY <3>1, <3>2 DEF Refused, Finish, JobRow
    <3>4. QED
      BY <3>3 DEF DenialCode, DenyCode
  <2>5. QED
    BY <2>3, <2>4
<1>2. TypeOK /\ [QueueNext]_queueVars => [Fair]_queueVars
  BY <1>1
<1>3. QED
  BY <1>2, QueueTypeOK, PTL DEF QueueSpec, StartsOldestAuthorized

\* Only a job whose lease ran out is ever given up as WORKER_LOST.
THEOREM QueueLostOnlyAfterLease == QueueSpec => LostOnlyAfterLease
<1> DEFINE Patient == \A j \in Job :
      job[j].errorCode = "none" /\ job'[j].errorCode = "WORKER_LOST"
        => job[j].status = "running" /\ job[j].lease < 0
<1>1. ASSUME TypeOK, [QueueNext]_queueVars, NEW j \in Job,
             job[j].errorCode = "none", job'[j].errorCode = "WORKER_LOST"
      PROVE  job[j].status = "running" /\ job[j].lease < 0
  <2>1. ~Submission
    <3>1. SUFFICES ASSUME NEW u \in User, NEW c \in Command, NEW k \in Job,
                          Submit(u, c, k)
                   PROVE  job'[j].errorCode = job[j].errorCode
      BY <1>1 DEF Submission
    <3>2. job[j] \in JobRow /\ job[k] \in JobRow
      BY <1>1 DEF TypeOK
    <3>3. QED
      BY <1>1, <3>1, <3>2 DEF Submit, TypeOK, JobRow
  <2>2. QED
    BY <1>1, <2>1, StepIsQuiet DEF QuietFor, Expired
<1>2. TypeOK /\ [QueueNext]_queueVars => [Patient]_queueVars
  BY <1>1
<1>3. QED
  BY <1>2, QueueTypeOK, PTL DEF QueueSpec, LostOnlyAfterLease

----------------------------------------------------------------------------
\* The queue implements the contract.

\* Every row step is a step the contract allows for that job.
LEMMA RowStepKeepsContract ==
  ASSUME RowInv, NEW j \in Job, RowStep(j)
  PROVE  JC!JobStep(j)
<1>1. /\ job[j] \in JobRow
      /\ output[j] \in Seq([batch: Batch, size: Nat])
      /\ job[j].status = "running" => job[j].worker \in Worker
  BY DEF RowInv, TypeOK, LeaseIffRunning
<1> USE DEF JC!JobStep, JC!Same
<1>2. CASE Untouched(j)
  BY <1>2 DEF Untouched, JC!Stays
<1>3. CASE Submitted(j)
  BY <1>1, <1>3 DEF Submitted, JobRow, JC!Waits
<1>4. CASE CancelRequested(j)
  BY <1>1, <1>4 DEF CancelRequested, CancelRow, Finish, JobRow, JC!Rejects, JC!Stays
<1>5. CASE Reaped(j)
  BY <1>1, <1>5 DEF Reaped, Expired, WorkerLost, Finish, JobRow, JC!Ends, JC!Ended
<1>6. CASE Denied(j)
  BY <1>1, <1>6 DEF Denied, Refused, Finish, JobRow, JC!Rejects
<1>7. CASE Granted(j)
  BY <1>1, <1>7 DEF Granted, Claimed, JobRow, JC!Begins, JC!Starts
<1>8. CASE Appended(j)
  <2>1. PICK post \in Posts : /\ job'[j] = AppendRow(job[j], post)
                             /\ output'[j] = AppendLog(output[j], job[j], post)
                             /\ job[j].status = "running"
    BY <1>8 DEF Appended
  <2>2. job'[j].status = "running" /\ job'[j].worker = job[j].worker
    BY <1>1, <2>1 DEF AppendRow, JobRow
  <2>3. CASE output'[j] = output[j]
    BY <2>1, <2>2, <2>3 DEF JC!Stays
  <2>4. CASE output'[j] # output[j]
    <3>1. PICK b \in Batch : post = <<b>>
      BY <2>1, <2>4 DEF Posts, AppendLog
    <3>2. Stored(job[j], b) \in Nat
      BY <1>1, StoredType
    <3>3. PICK e \in [batch: Batch, size: Nat] : output'[j] = Append(output[j], e)
      BY <2>1, <2>4, <3>1, <3>2 DEF AppendLog
    <3>4. /\ output'[j] # <<>>
          /\ output'[j][Len(output'[j])] = e
      BY <1>1, <3>3
    <3>5. QED
      BY <2>1, <2>2, <3>3, <3>4 DEF JC!Prints
  <2>5. QED
    BY <2>3, <2>4
<1>9. CASE Completed(j)
  BY <1>1, <1>9 DEF Completed, OutcomeOf, Finish, JobRow, JC!Ends, JC!Ended
<1>10. CASE Aged(j)
  BY <1>1, <1>10 DEF Aged, JobRow, JC!Stays
<1>11. QED
  BY <1>2, <1>3, <1>4, <1>5, <1>6, <1>7, <1>8, <1>9, <1>10 DEF RowStep, CalmStep

LEMMA StepKeepsContract ==
  ASSUME RowInv, [QueueNext]_queueVars
  PROVE  [JC!Next]_(JC!contractVars)
<1>1. TypeOK
  BY DEF RowInv
<1>2. \A j \in Job : RowStep(j) /\ JC!JobStep(j)
  BY <1>1, NextRowSteps, RowStepKeepsContract
<1>3. \A j, k \in Job : JC!Starts(j) /\ JC!Starts(k) => j = k
  <2>1. SUFFICES ASSUME NEW j \in Job, NEW k \in Job, JC!Starts(j), JC!Starts(k)
                 PROVE  j = k
    OBVIOUS
  <2>2. /\ job[j].status = "queued" /\ job'[j].status = "running"
        /\ job[k].status = "queued" /\ job'[k].status = "running"
    BY <2>1 DEF JC!Starts
  <2>3. ~Submission
    BY <1>1, <2>2 DEF Submission, Submit, TypeOK, JobRow
  <2>4. PICK w \in Worker : ClaimGrant(w, j)
    BY <1>1, <2>2, <2>3, StepIsQuiet DEF QuietFor
  <2>5. job' = AfterClaim(w, OlderQueued(j), {j})
    BY <2>4 DEF ClaimGrant
  <2>6. OlderQueued(j) \in SUBSET Job /\ {j} \in SUBSET Job
    BY DEF OlderQueued, InStatus
  <2>7. QED
    BY <1>1, <2>2, <2>5, <2>6, ClaimMoves
<1>4. cancelAsked \subseteq cancelAsked'
  BY <1>1, NextRowSteps
<1>5. ASSUME NEW j \in Job, job'[j].status = "canceled"
      PROVE  j \in cancelAsked'
  BY <1>2, <1>4, <1>5, NextCanceledOnlyIfAsked
<1>6. QED
  BY <1>2, <1>3, <1>4, <1>5 DEF JC!Next

\* Whatever the reaper, the administrators and any number of workers do, a
\* client sees only what the job API promises.
THEOREM QueueImplementsContract == QueueSpec => ContractSpec
<1>1. QueueInit => JC!Init
  BY DEF QueueInit, EmptyRow, JC!Init
<1>2. QED
  BY <1>1, QueueRowInv, StepKeepsContract, PTL DEF QueueSpec, ContractSpec, JC!Spec

----------------------------------------------------------------------------
\* The shape of a run: what the fields of one worker have to do with each other.

Busy  == {"running", "draining", "reporting"}
Exits == {"zero", "nonzero", "null", "error"}

ShapeAt(w) ==
  /\ run[w].pc = "idle" => run[w] = Idle
  /\ run[w].pc = "stopped" => run[w] = Stopped /\ call[w] = NoCall
  /\ run[w].pc \in Busy => run[w].job \in Job
  /\ run[w].child = "alive" <=> run[w].pc = "running"
  /\ run[w].pc = "draining" => run[w].child \in Exits
  /\ run[w].pc = "reporting" => run[w].body \in RunnerReport
  /\ Delivering(w) /\ call[w] # NoCall => run[w].queue # <<>>
  /\ call[w].kind = "none" => call[w] = NoCall
  /\ call[w].kind = "sent" => call[w] = Sent

FineAt(w) == run[w] \in RunState /\ call[w] \in CallState /\ ShapeAt(w)

\* The inductive invariant for types: with the queue's, so that what a request
\* carries is what the queue's handlers take.
ShapeInv == TypeOK /\ RunnerTypeOK /\ \A w \in Worker : ShapeAt(w)

LEMMA ReportsFit == RunnerReport \subseteq Report /\ Report \subseteq FinishBody
BY RunnerReportAssumption, ReportAssumption

LEMMA IdleFits ==
  /\ Idle \in RunState /\ Stopped \in RunState
  /\ Idle.pc = "idle" /\ Stopped.pc = "stopped"
  /\ Idle.child = "none" /\ Stopped.child = "none"
  /\ Idle.term = "none" /\ Stopped.term = "none"
<1>1. NoBody \in FinishBody
  BY DEF NoBody, Body, FinishBody, ExitCode
<1>2. Idle \in RunState
  BY <1>1 DEF Idle, RunState, Pc, ExitState, Termination
<1>3. QED
  BY <1>2 DEF Idle, Stopped, RunState, Pc

LEMMA CallsFit ==
  /\ NoCall \in CallState /\ Sent \in CallState /\ NoCall # Sent
  /\ NoCall.kind = "none" /\ Sent.kind = "sent"
BY DEF NoCall, Sent, Answer, CallState

LEMMA TerminateFits ==
  ASSUME NEW r \in RunState, NEW reason \in Termination
  PROVE  LET s == Terminate(r, reason)
         IN  /\ s \in RunState
             /\ s.pc = r.pc /\ s.job = r.job /\ s.child = r.child /\ s.queue = r.queue
             /\ s.body = r.body /\ s.unauthenticated = r.unauthenticated
             /\ s.term = r.term \/ (r.term = "none" /\ s.term = reason)
BY DEF Terminate, RunState

LEMMA DequeueFits ==
  ASSUME NEW r \in RunState, r.queue # <<>>
  PROVE  LET s == Dequeue(r)
         IN  /\ s \in RunState
             /\ s.pc = r.pc /\ s.job = r.job /\ s.child = r.child /\ s.body = r.body
             /\ s.unauthenticated = r.unauthenticated /\ s.term = r.term
<1>1. r.queue \in Seq(Posts)
  BY DEF RunState
<1>2. Tail(r.queue) \in Seq(Posts)
  BY <1>1
<1>3. QED
  BY <1>2 DEF Dequeue, RunState

\* An answer changes no more of a run than its flags and the reason it ends for.
LEMMA HeardFits ==
  ASSUME NEW r \in RunState, NEW a \in CallState
  PROVE  LET s == Heard(r, a)
         IN  /\ s \in RunState
             /\ s.pc = r.pc /\ s.job = r.job /\ s.child = r.child
             /\ s.queue = r.queue /\ s.body = r.body
             /\ s.term = "gone" =>
                  \/ s.unauthenticated
                  \/ r.term = "gone"
                  \/ a.kind = "job-gone"
             /\ r.unauthenticated => s.unauthenticated
<1> DEFINE lost == [r EXCEPT !.lost = TRUE]
           out  == [r EXCEPT !.unauthenticated = TRUE]
<1>1. /\ lost \in RunState /\ lost.pc = r.pc /\ lost.job = r.job
      /\ lost.child = r.child /\ lost.queue = r.queue /\ lost.body = r.body
      /\ lost.term = r.term /\ lost.unauthenticated = r.unauthenticated
  BY DEF RunState
<1>2. /\ out \in RunState /\ out.pc = r.pc /\ out.job = r.job
      /\ out.child = r.child /\ out.queue = r.queue /\ out.body = r.body
      /\ out.term = r.term /\ out.unauthenticated
  BY DEF RunState
<1> HIDE DEF lost, out
<1>3. {"cancel", "gone"} \subseteq Termination
  BY DEF Termination
<1>4. CASE a.kind = "ok" /\ a.cancel
  <2>1. Heard(r, a) = Terminate(r, "cancel")
    BY <1>4 DEF Heard
  <2>2. QED
    BY <1>3, <2>1, TerminateFits
<1>5. CASE a.kind = "ok" /\ ~a.cancel
  BY <1>5 DEF Heard
<1>6. CASE a.kind = "job-gone"
  <2>1. Heard(r, a) = Terminate(r, "gone")
    BY <1>6 DEF Heard
  <2>2. QED
    BY <1>3, <1>6, <2>1, TerminateFits
<1>7. CASE a.kind = "rejected"
  <2>1. Heard(r, a) = lost
    BY <1>7 DEF Heard, lost
  <2>2. QED
    BY <1>1, <2>1
<1>8. CASE a.kind \notin {"ok", "job-gone", "rejected"}
  <2>1. Heard(r, a) = Terminate(out, "gone")
    BY <1>8 DEF Heard, out
  <2>2. QED
    BY <1>2, <1>3, <2>1, TerminateFits
<1>9. QED
  BY <1>4, <1>5, <1>6, <1>7, <1>8

LEMMA FailureFits == FailureBody \in RunnerReport /\ FailureBody.exitCode = "null"
BY DEF FailureBody, RunnerReport, Body

\* What is reported is a report, and says zero only of a process that exited so.
LEMMA BodyFits ==
  ASSUME NEW r \in RunState, r.child \in Exits
  PROVE  /\ BodyOf(r) \in RunnerReport
         /\ BodyOf(r).exitCode = "zero" => r.child = "zero"
<1>1. r.lost \in BOOLEAN
  BY DEF RunState
<1>2. CASE BodyOf(r) = FailureBody
  BY <1>2, FailureFits
<1>3. CASE BodyOf(r) = Body("null", "CANCELED", r.lost, TRUE)
  <2>1. BodyOf(r) \in RunnerReport
    BY <1>1, <1>3 DEF RunnerReport, Body
  <2>2. BodyOf(r).exitCode = "null"
    BY <1>3 DEF Body
  <2>3. QED
    BY <2>1, <2>2
<1>4. CASE BodyOf(r) = Body(r.child, "none", r.lost, FALSE) /\ r.child \notin {"error", "null"}
  <2>1. r.child \in {"zero", "nonzero"}
    BY <1>4 DEF Exits
  <2>2. BodyOf(r) \in RunnerReport
    BY <1>1, <1>4, <2>1 DEF RunnerReport, Body
  <2>3. BodyOf(r).exitCode = r.child
    BY <1>4 DEF Body
  <2>4. QED
    BY <2>2, <2>3
<1>5. QED
  BY <1>2, <1>3, <1>4 DEF BodyOf

----------------------------------------------------------------------------
\* What reaches the server is a request, so that its handlers take the steps of
\* JobQueue.

LEMMA RequestFits ==
  ASSUME ShapeInv, NEW w \in Worker, call[w] = Sent
  PROVE  RequestOf(w) \in Request
<1>1. run[w] \in RunState /\ ShapeAt(w)
  BY DEF ShapeInv, RunnerTypeOK
<1>2. call[w] # NoCall
  BY CallsFit
<1>3. CASE run[w].pc = "idle"
  BY <1>3 DEF RequestOf, Request
<1>4. CASE run[w].pc = "reporting"
  <2>1. run[w].job \in Job /\ run[w].body \in Report
    BY <1>1, <1>4, ReportsFit DEF ShapeAt, Busy
  <2>2. RequestOf(w) = [worker |-> w, op |-> "exit", job |-> run[w].job,
                        body |-> run[w].body]
    BY <1>4 DEF RequestOf
  <2>3. QED
    BY <2>1, <2>2 DEF Request
<1>5. CASE run[w].pc \notin {"idle", "reporting"}
  <2>1. Delivering(w)
    BY <1>1, <1>2, <1>5 DEF ShapeAt, Delivering, RunState, Pc
  <2>2. run[w].job \in Job /\ run[w].queue # <<>>
    BY <1>1, <1>2, <2>1 DEF ShapeAt, Delivering, Busy
  <2>3. run[w].queue[1] \in Posts
    BY <1>1, <2>2 DEF RunState
  <2>4. RequestOf(w) = [worker |-> w, op |-> "output", job |-> run[w].job,
                        post |-> run[w].queue[1]]
    BY <1>5 DEF RequestOf
  <2>5. QED
    BY <2>2, <2>3, <2>4 DEF Request
<1>6. QED
  BY <1>3, <1>4, <1>5

LEMMA HandleSteps ==
  ASSUME NEW r \in Request, Handle(r)
  PROVE  [QueueNext]_queueVars
<1>1. r.worker \in Worker
  BY DEF Request
<1>2. CASE r.op = "claim" /\ ~UNCHANGED queueVars
  BY <1>1, <1>2 DEF Handle, QueueNext, WorkerNext
<1>3. CASE r.op = "output" /\ ~UNCHANGED queueVars
  <2>1. r.job \in Job /\ r.post \in Posts
    BY <1>3 DEF Request
  <2>2. AppendOutput(r.worker, r.job, r.post)
    BY <1>3 DEF Handle
  <2>3. QED
    BY <1>1, <2>1, <2>2 DEF QueueNext, WorkerNext
<1>4. CASE r.op = "exit" /\ ~UNCHANGED queueVars
  <2>1. r.job \in Job /\ r.body \in Report
    BY <1>4 DEF Request
  <2>2. Complete(r.worker, r.job, r.body)
    BY <1>4 DEF Handle
  <2>3. QED
    BY <1>1, <2>1, <2>2 DEF QueueNext, WorkerNext
<1>5. r.op \in {"claim", "output", "exit"}
  BY DEF Request
<1>6. QED
  BY <1>2, <1>3, <1>4, <1>5

\* Every step of the composed system is one of the queue, or none.
LEMMA RunnerRefines ==
  ASSUME ShapeInv, [RunnerNext]_allVars
  PROVE  [QueueNext]_queueVars
<1>1. CASE (ClientNext \/ TimeNext) /\ UNCHANGED runnerVars
  BY <1>1 DEF QueueNext
<1>2. ASSUME NEW r \in late, ServeLate(r)
      PROVE  [QueueNext]_queueVars
  BY <1>2, HandleSteps DEF ServeLate, ShapeInv, RunnerTypeOK
<1>3. ASSUME NEW w \in Worker, Serve(w)
      PROVE  [QueueNext]_queueVars
  BY <1>3, RequestFits, HandleSteps DEF Serve
<1>4. ASSUME NEW w \in Worker, CallStep(w) \/ RunStep(w) \/ ProcessStep(w), ~Serve(w)
      PROVE  UNCHANGED queueVars
  BY <1>4
     DEF CallStep, Send, TakeClaim, ClaimAgain, ClaimRefused, OutputAnswered,
         OutputFailed, ExitAnswered, ExitFailed, RunStep, Push, Heartbeat, JobTimeout,
         DrainTimeout, Drained, ChildExit, ProcessStep, Reject, RevokeToken, HearPolicy,
         Stop, Crash, Restart
<1>5. CASE UNCHANGED allVars
  BY <1>5 DEF allVars
<1>6. QED
  BY <1>1, <1>2, <1>3, <1>4, <1>5 DEF RunnerNext

----------------------------------------------------------------------------
\* The shape is kept.  An action of worker w changes its own run and call only.

OnlyAt(w) == /\ run' = [run EXCEPT ![w] = run'[w]]
             /\ call' = [call EXCEPT ![w] = call'[w]]

\* What a step without the server does to the requests nobody waits for.
LateFrom(w) == late' \subseteq late \cup {r \in {RequestOf(w)} : call[w] = Sent}

LEMMA GivenUpFits ==
  ASSUME NEW w \in Worker, GivenUp(w)
  PROVE  LateFrom(w)
BY DEF GivenUp, LateFrom

LEMMA CallShape ==
  ASSUME ShapeInv, NEW w \in Worker, CallStep(w), ~Serve(w)
  PROVE  OnlyAt(w) /\ FineAt(w)' /\ LateFrom(w)
<1>1. run[w] \in RunState /\ call[w] \in CallState /\ ShapeAt(w)
  BY DEF ShapeInv, RunnerTypeOK
<1>2. run \in [Worker -> RunState] /\ call \in [Worker -> CallState]
  BY DEF ShapeInv, RunnerTypeOK
<1>3. CASE Send(w)
  BY <1>1, <1>2, <1>3, IdleFits, CallsFit
     DEF Send, OnlyAt, LateFrom, FineAt, ShapeAt, Delivering, Busy
<1>4. CASE TakeClaim(w)
  <2>1. /\ call[w].job \in Job
        /\ [Idle EXCEPT !.job = call[w].job, !.version = call[w].version] \in RunState
    BY <1>1, <1>4, IdleFits DEF TakeClaim, CallState, RunState
  <2> DEFINE claimed == [Idle EXCEPT !.job = call[w].job, !.version = call[w].version]
  <2>2. CASE run' = [run EXCEPT ![w] = [claimed EXCEPT !.pc = "reporting", !.body = FailureBody]]
    <3>1. /\ run'[w] \in RunState /\ run'[w].pc = "reporting"
          /\ run'[w].job = call[w].job /\ run'[w].body = FailureBody
          /\ run'[w].child = "none"
      BY <1>2, <2>1, <2>2, IdleFits, FailureFits, ReportsFit DEF RunState, Pc
    <3>2. call'[w] = NoCall
      BY <1>2, <1>4 DEF TakeClaim
    <3>3. QED
      BY <1>2, <1>4, <2>1, <2>2, <3>1, <3>2, FailureFits, CallsFit
         DEF TakeClaim, OnlyAt, LateFrom, FineAt, ShapeAt, Delivering, Busy
  <2>3. CASE run' = [run EXCEPT ![w] = [claimed EXCEPT !.pc = "running", !.child = "alive"]]
    <3>1. /\ run'[w] \in RunState /\ run'[w].pc = "running"
          /\ run'[w].job = call[w].job /\ run'[w].child = "alive"
      BY <1>2, <2>1, <2>3, IdleFits DEF RunState, Pc, ExitState
    <3>2. call'[w] = NoCall
      BY <1>2, <1>4 DEF TakeClaim
    <3>3. QED
      BY <1>2, <1>4, <2>1, <2>3, <3>1, <3>2, CallsFit
         DEF TakeClaim, OnlyAt, LateFrom, FineAt, ShapeAt, Delivering, Busy
  <2>4. QED
    BY <1>4, <2>2, <2>3 DEF TakeClaim
<1>5. CASE ClaimAgain(w)
  BY <1>1, <1>2, <1>5, CallsFit, GivenUpFits
     DEF ClaimAgain, OnlyAt, LateFrom, FineAt, ShapeAt, Delivering, Busy
<1>6. CASE ClaimRefused(w)
  BY <1>1, <1>2, <1>6, CallsFit, IdleFits
     DEF ClaimRefused, OnlyAt, LateFrom, FineAt, ShapeAt, Delivering, Busy
<1>7. CASE OutputAnswered(w)
  <2>1. call[w] # NoCall
    BY <1>7, CallsFit DEF OutputAnswered, Answered
  <2>2. run[w].queue # <<>> /\ run[w].pc \in {"running", "draining"}
    BY <1>1, <1>7, <2>1 DEF OutputAnswered, ShapeAt, Delivering
  <2> DEFINE r == Dequeue(run[w])
  <2>3. /\ r \in RunState /\ r.pc = run[w].pc /\ r.job = run[w].job
        /\ r.child = run[w].child /\ r.body = run[w].body
    BY <1>1, <2>2, DequeueFits
  <2> HIDE DEF r
  <2>4. /\ Heard(r, call[w]) \in RunState
        /\ Heard(r, call[w]).pc = run[w].pc /\ Heard(r, call[w]).job = run[w].job
        /\ Heard(r, call[w]).child = run[w].child
        /\ Heard(r, call[w]).body = run[w].body
    BY <1>1, <2>3, HeardFits
  <2>5. run'[w] = Heard(r, call[w]) /\ call'[w] = NoCall
    BY <1>2, <1>7 DEF OutputAnswered, r
  <2>6. OnlyAt(w) /\ LateFrom(w)
    BY <1>2, <1>7 DEF OutputAnswered, OnlyAt, LateFrom
  <2>7. QED
    BY <1>1, <2>2, <2>4, <2>5, <2>6, CallsFit DEF FineAt, ShapeAt, Delivering, Busy
<1>8. CASE OutputFailed(w)
  <2>1. run[w].queue # <<>> /\ run[w].pc \in {"running", "draining"}
    BY <1>1, <1>8 DEF OutputFailed, ShapeAt, Delivering
  <2>2. /\ Dequeue(run[w]) \in RunState /\ Dequeue(run[w]).pc = run[w].pc
        /\ Dequeue(run[w]).job = run[w].job /\ Dequeue(run[w]).child = run[w].child
        /\ Dequeue(run[w]).body = run[w].body
    BY <1>1, <2>1, DequeueFits
  <2>3. /\ run'[w] \in RunState /\ run'[w].pc = run[w].pc /\ run'[w].job = run[w].job
        /\ run'[w].child = run[w].child /\ run'[w].body = run[w].body
    <3>1. CASE run[w].tries + 1 < MaxAttempts
      <4>1. run'[w] = [run[w] EXCEPT !.tries = run[w].tries + 1]
        BY <1>2, <1>8, <3>1 DEF OutputFailed
      <4>2. QED
        BY <1>1, <4>1 DEF RunState
    <3>2. CASE ~(run[w].tries + 1 < MaxAttempts)
      <4>1. run'[w] = [Dequeue(run[w]) EXCEPT !.lost = TRUE]
        BY <1>2, <1>8, <3>2 DEF OutputFailed
      <4>2. QED
        BY <2>2, <4>1 DEF RunState
    <3>3. QED
      BY <3>1, <3>2
  <2>4. OnlyAt(w) /\ LateFrom(w) /\ call'[w] = NoCall
    BY <1>2, <1>8, GivenUpFits DEF OutputFailed, OnlyAt
  <2>5. QED
    BY <1>1, <2>1, <2>3, <2>4, CallsFit DEF FineAt, ShapeAt, Delivering, Busy
<1>9. CASE ExitAnswered(w)
  <2>1. run'[w] \in {Idle, Stopped} /\ call'[w] = NoCall
    BY <1>2, <1>9 DEF ExitAnswered, AfterRun
  <2>2. OnlyAt(w) /\ LateFrom(w)
    BY <1>2, <1>9 DEF ExitAnswered, OnlyAt, LateFrom
  <2>3. QED
    BY <2>1, <2>2, CallsFit, IdleFits DEF FineAt, ShapeAt, Delivering, Busy
<1>10. CASE ExitFailed(w)
  <2>1. call'[w] = NoCall /\ OnlyAt(w) /\ LateFrom(w)
    BY <1>2, <1>10, GivenUpFits DEF ExitFailed, OnlyAt
  <2>2. CASE run'[w] = [run[w] EXCEPT !.tries = @ + 1]
    <3>1. /\ run'[w] \in RunState /\ run'[w].pc = run[w].pc /\ run'[w].job = run[w].job
          /\ run'[w].child = run[w].child /\ run'[w].body = run[w].body
      BY <1>1, <2>2 DEF RunState
    <3>2. QED
      BY <1>1, <1>10, <2>1, <3>1, CallsFit DEF ExitFailed, FineAt, ShapeAt, Delivering, Busy
  <2>3. CASE run'[w] \in {Idle, Stopped}
    BY <2>1, <2>3, CallsFit, IdleFits DEF FineAt, ShapeAt, Delivering, Busy
  <2>4. QED
    BY <1>2, <1>10, <2>2, <2>3 DEF ExitFailed, AfterRun
<1>11. QED
  BY <1>3, <1>4, <1>5, <1>6, <1>7, <1>8, <1>9, <1>10 DEF CallStep

Flushed(r, q) == [[[r EXCEPT !.queue = q] EXCEPT !.tries = 0] EXCEPT !.lost = TRUE]

LEMMA FlushFits ==
  ASSUME NEW r \in RunState, NEW q \in Seq(Posts)
  PROVE  LET s == Flushed(r, q)
         IN  s \in RunState /\ s.pc = r.pc /\ s.job = r.job /\ s.child = r.child
<1> DEFINE a == [r EXCEPT !.queue = q]
           b == [a EXCEPT !.tries = 0]
<1>1. a \in RunState /\ a.pc = r.pc /\ a.job = r.job /\ a.child = r.child
  BY DEF RunState
<1> HIDE DEF a
<1>2. b \in RunState /\ b.pc = a.pc /\ b.job = a.job /\ b.child = a.child
  BY <1>1 DEF RunState
<1> HIDE DEF b
<1>3. LET s == [b EXCEPT !.lost = TRUE]
      IN  s \in RunState /\ s.pc = b.pc /\ s.job = b.job /\ s.child = b.child
  BY <1>2 DEF RunState
<1>4. QED
  BY <1>1, <1>2, <1>3 DEF a, b, Flushed

LEMMA RunShape ==
  ASSUME ShapeInv, NEW w \in Worker, RunStep(w)
  PROVE  OnlyAt(w) /\ FineAt(w)' /\ LateFrom(w)
<1>1. run[w] \in RunState /\ call[w] \in CallState /\ ShapeAt(w)
  BY DEF ShapeInv, RunnerTypeOK
<1>2. run \in [Worker -> RunState] /\ call \in [Worker -> CallState]
  BY DEF ShapeInv, RunnerTypeOK
<1>3. ASSUME NEW post \in Posts, run' = [run EXCEPT ![w].queue = Append(@, post)],
             run[w].pc = "running", call' = call, late' = late
      PROVE  OnlyAt(w) /\ FineAt(w)' /\ LateFrom(w)
  <2>1. /\ Append(run[w].queue, post) \in Seq(Posts)
        /\ Append(run[w].queue, post) # <<>>
    BY <1>1 DEF RunState
  <2>2. run'[w] = [run[w] EXCEPT !.queue = Append(run[w].queue, post)]
    BY <1>2, <1>3
  <2>3. /\ run'[w] \in RunState /\ run'[w].pc = run[w].pc /\ run'[w].job = run[w].job
        /\ run'[w].child = run[w].child /\ run'[w].queue # <<>>
    BY <1>1, <2>1, <2>2 DEF RunState
  <2>4. QED
    BY <1>1, <1>2, <1>3, <2>3 DEF OnlyAt, LateFrom, FineAt, ShapeAt, Delivering, Busy
\* A run that is only told to end.
<1>4. ASSUME NEW s \in RunState, run' = [run EXCEPT ![w] = s],
             s.pc = run[w].pc, s.job = run[w].job, s.child = run[w].child,
             s.queue = run[w].queue, s.body = run[w].body,
             run[w].pc \in Busy, call' = call, late' = late
      PROVE  OnlyAt(w) /\ FineAt(w)' /\ LateFrom(w)
  BY <1>1, <1>2, <1>4 DEF OnlyAt, LateFrom, FineAt, ShapeAt, Delivering, Busy
<1>5. ASSUME NEW b \in Batch, Push(w, b)
      PROVE  OnlyAt(w) /\ FineAt(w)' /\ LateFrom(w)
  <2>1. run[w].pc = "running" /\ call' = call /\ late' = late
    BY <1>1, <1>5 DEF Push, ShapeAt
  <2>2. CASE run' = [run EXCEPT ![w].queue = Append(@, <<b>>)]
    BY <1>3, <2>1, <2>2 DEF Posts
  <2>3. CASE run' = [run EXCEPT ![w] = Terminate([@ EXCEPT !.lost = TRUE], "output-limit")]
    <3> DEFINE lost == [run[w] EXCEPT !.lost = TRUE]
               s    == Terminate(lost, "output-limit")
    <3>1. /\ lost \in RunState /\ lost.pc = run[w].pc /\ lost.job = run[w].job
          /\ lost.child = run[w].child /\ lost.queue = run[w].queue
          /\ lost.body = run[w].body
      BY <1>1 DEF RunState
    <3>2. /\ s \in RunState /\ s.pc = lost.pc /\ s.job = lost.job
          /\ s.child = lost.child /\ s.queue = lost.queue /\ s.body = lost.body
      <4> HIDE DEF lost
      <4>1. "output-limit" \in Termination
        BY DEF Termination
      <4>2. QED
        BY <3>1, <4>1, TerminateFits
    <3>3. run' = [run EXCEPT ![w] = s]
      BY <1>2, <2>3
    <3> HIDE DEF lost, s
    <3>4. QED
      BY <1>4, <2>1, <3>1, <3>2, <3>3 DEF Busy
  <2>4. QED
    BY <1>5, <2>2, <2>3 DEF Push
<1>6. CASE Heartbeat(w)
  BY <1>3, <1>6 DEF Heartbeat, Posts
<1>7. CASE JobTimeout(w)
  <2>1. "timeout" \in Termination
    BY DEF Termination
  <2>2. run' = [run EXCEPT ![w] = Terminate(run[w], "timeout")]
    BY <1>2, <1>7 DEF JobTimeout
  <2>3. run[w].pc \in Busy /\ call' = call /\ late' = late
    BY <1>7 DEF JobTimeout, Busy
  <2>4. QED
    BY <1>1, <1>4, <2>1, <2>2, <2>3, TerminateFits
<1>8. CASE DrainTimeout(w)
  <2>1. run'[w] = Flushed(run[w], <<>>)
    BY <1>2, <1>8 DEF DrainTimeout, Flushed
  <2>2. /\ run'[w] \in RunState /\ run'[w].pc = run[w].pc /\ run'[w].job = run[w].job
        /\ run'[w].child = run[w].child
    <3>1. PICK q \in Seq(Posts) : q = <<>>
      <4>1. <<>> \in Seq(Posts)
        OBVIOUS
      <4>2. QED
        BY <4>1, Zenon
    <3> DEFINE s == Flushed(run[w], q)
    <3>2. /\ s \in RunState /\ s.pc = run[w].pc /\ s.job = run[w].job
          /\ s.child = run[w].child
      BY <1>1, FlushFits
    <3>3. run'[w] = s
      BY <2>1, <3>1
    <3> HIDE DEF s
    <3>4. QED
      BY <3>2, <3>3
  <2>3. OnlyAt(w) /\ LateFrom(w) /\ call'[w] = NoCall /\ run[w].pc = "draining"
    BY <1>2, <1>8, GivenUpFits DEF DrainTimeout, OnlyAt
  <2>4. QED
    BY <1>1, <2>2, <2>3, CallsFit DEF FineAt, ShapeAt, Delivering, Busy
<1>9. CASE Drained(w)
  <2>1. call[w] = NoCall /\ call' = call /\ late' = late
    BY <1>1, <1>9 DEF Drained, ShapeAt, Delivering
  <2>2. CASE run'[w] \in {Idle, Stopped}
    BY <1>2, <1>9, <2>1, <2>2, CallsFit, IdleFits
       DEF Drained, OnlyAt, LateFrom, FineAt, ShapeAt, Delivering, Busy
  <2>3. CASE run'[w] = [run[w] EXCEPT !.pc = "reporting", !.body = BodyOf(run[w])]
    <3>1. run[w].child \in Exits /\ run[w].job \in Job
      BY <1>1, <1>9 DEF Drained, ShapeAt, Busy
    <3>2. BodyOf(run[w]) \in RunnerReport /\ BodyOf(run[w]) \in FinishBody
      BY <1>1, <3>1, BodyFits, ReportsFit
    <3>3. /\ run'[w] \in RunState /\ run'[w].pc = "reporting" /\ run'[w].job = run[w].job
          /\ run'[w].child = run[w].child /\ run'[w].body = BodyOf(run[w])
      BY <1>1, <2>3, <3>2 DEF RunState, Pc
    <3>4. QED
      BY <1>1, <1>2, <1>9, <2>1, <3>1, <3>2, <3>3, CallsFit
         DEF Drained, OnlyAt, LateFrom, FineAt, ShapeAt, Delivering, Busy, Exits
  <2>4. QED
    BY <1>2, <1>9, <2>2, <2>3 DEF Drained, AfterRun
<1>10. ASSUME NEW exit \in Exits, ChildExit(w, exit)
       PROVE  OnlyAt(w) /\ FineAt(w)' /\ LateFrom(w)
  <2>1. run'[w] = [[run[w] EXCEPT !.child = exit] EXCEPT !.pc = "draining"]
    BY <1>2, <1>10 DEF ChildExit
  <2>2. /\ run'[w] \in RunState /\ run'[w].pc = "draining" /\ run'[w].job = run[w].job
        /\ run'[w].child = exit /\ run'[w].queue = run[w].queue
    BY <1>1, <2>1 DEF RunState, Pc, ExitState, Exits
  <2>3. OnlyAt(w) /\ LateFrom(w) /\ call' = call /\ run[w].pc = "running"
    BY <1>1, <1>2, <1>10 DEF ChildExit, OnlyAt, LateFrom, ShapeAt
  <2>4. QED
    BY <1>1, <2>2, <2>3 DEF FineAt, ShapeAt, Delivering, Busy, Exits
<1>11. QED
  BY <1>5, <1>6, <1>7, <1>8, <1>9, <1>10 DEF RunStep, Exits

LEMMA ProcessShape ==
  ASSUME ShapeInv, NEW w \in Worker, ProcessStep(w)
  PROVE  OnlyAt(w) /\ FineAt(w)' /\ LateFrom(w)
<1>1. run[w] \in RunState /\ call[w] \in CallState /\ ShapeAt(w)
  BY DEF ShapeInv, RunnerTypeOK
<1>2. run \in [Worker -> RunState] /\ call \in [Worker -> CallState]
  BY DEF ShapeInv, RunnerTypeOK
<1>3. CASE Reject(w)
  <2>1. call'[w] = Answer("rejected", NoJob, 0, FALSE)
    BY <1>2, <1>3 DEF Reject
  <2>2. call'[w] \in CallState /\ call'[w].kind = "rejected"
    BY <2>1 DEF Answer, CallState
  <2>3. OnlyAt(w) /\ LateFrom(w) /\ run' = run /\ call[w] # NoCall
    BY <1>2, <1>3, CallsFit DEF Reject, OnlyAt, LateFrom
  <2>4. QED
    BY <1>1, <2>2, <2>3 DEF FineAt, ShapeAt, Delivering
<1>4. CASE RevokeToken(w) \/ HearPolicy(w)
  BY <1>1, <1>2, <1>4
     DEF RevokeToken, HearPolicy, OnlyAt, LateFrom, FineAt, ShapeAt, Delivering
<1>5. CASE Stop(w)
  <2>1. CASE run[w].pc = "idle"
    BY <1>2, <1>5, <2>1, CallsFit, IdleFits, GivenUpFits
       DEF Stop, OnlyAt, FineAt, ShapeAt, Delivering, Busy
  <2>2. CASE run[w].pc # "idle"
    <3> DEFINE r == IF run[w].pc = "running" THEN Terminate(run[w], "shutdown") ELSE run[w]
    <3>1. /\ r \in RunState /\ r.pc = run[w].pc /\ r.job = run[w].job
          /\ r.child = run[w].child /\ r.queue = run[w].queue /\ r.body = run[w].body
      <4>1. "shutdown" \in Termination
        BY DEF Termination
      <4>2. QED
        BY <1>1, <4>1, TerminateFits
    <3>2. run' = [run EXCEPT ![w] = [r EXCEPT !.stopping = TRUE]]
      BY <1>2, <1>5, <2>2 DEF Stop
    <3> HIDE DEF r
    <3>3. /\ run'[w] \in RunState /\ run'[w].pc = run[w].pc /\ run'[w].job = run[w].job
          /\ run'[w].child = run[w].child /\ run'[w].queue = run[w].queue
          /\ run'[w].body = run[w].body
      BY <1>2, <3>1, <3>2 DEF RunState
    <3>4. call' = call /\ late' = late /\ run[w].pc # "stopped"
      BY <1>5, <2>2 DEF Stop
    <3>5. OnlyAt(w) /\ LateFrom(w)
      BY <1>2, <3>2, <3>4 DEF OnlyAt, LateFrom
    <3>6. QED
      BY <1>1, <2>2, <3>3, <3>4, <3>5 DEF FineAt, ShapeAt, Delivering, Busy
  <2>3. QED
    BY <2>1, <2>2
<1>6. CASE Crash(w)
  BY <1>2, <1>6, CallsFit, IdleFits, GivenUpFits
     DEF Crash, OnlyAt, FineAt, ShapeAt, Delivering, Busy
<1>7. CASE Restart(w)
  BY <1>1, <1>2, <1>7, CallsFit, IdleFits
     DEF Restart, OnlyAt, LateFrom, FineAt, ShapeAt, Delivering, Busy
<1>8. QED
  BY <1>3, <1>4, <1>5, <1>6, <1>7 DEF ProcessStep

\* The answers of the server.
LEMMA AnswerFits ==
  ASSUME NEW r \in Request, policy \in Seq(Policy), TypeOK
  PROVE  /\ AnswerTo(r) \in CallState
         /\ AnswerTo(r).kind \in {"ok", "job-gone", "unauthenticated"}
<1>1. CASE r.worker \notin valid
  BY <1>1 DEF AnswerTo, Answer, CallState
<1>2. CASE r.worker \in valid /\ r.op = "claim"
  <2>1. CASE Started = {}
    BY <1>2, <2>1 DEF AnswerTo, Answer, CallState
  <2>2. CASE Started # {}
    <3>1. (CHOOSE j \in Started : TRUE) \in Job
      BY <2>2 DEF Started
    <3>2. PolicyVersion \in Nat
      BY DEF PolicyVersion
    <3>3. AnswerTo(r) = Answer("ok", CHOOSE j \in Started : TRUE, PolicyVersion, FALSE)
      BY <1>2, <2>2 DEF AnswerTo
    <3>4. QED
      BY <3>1, <3>2, <3>3 DEF Answer, CallState
  <2>3. QED
    BY <2>1, <2>2
<1>3. CASE r.worker \in valid /\ r.op # "claim" /\ Owns(r.worker, r.job)
  <2>1. r.job \in Job
    BY <1>3 DEF Request
  <2>2. job[r.job].cancelRequested \in BOOLEAN
    BY <2>1 DEF TypeOK, JobRow
  <2>3. AnswerTo(r) = Answer("ok", NoJob, 0, job[r.job].cancelRequested)
    BY <1>3 DEF AnswerTo
  <2>4. QED
    BY <2>2, <2>3 DEF Answer, CallState
<1>4. CASE r.worker \in valid /\ r.op # "claim" /\ ~Owns(r.worker, r.job)
  BY <1>4 DEF AnswerTo, Answer, CallState
<1>5. QED
  BY <1>1, <1>2, <1>3, <1>4

LEMMA ServeShape ==
  ASSUME ShapeInv, NEW w \in Worker, Serve(w)
  PROVE  OnlyAt(w) /\ FineAt(w)' /\ LateFrom(w)
<1>1. run[w] \in RunState /\ call[w] \in CallState /\ ShapeAt(w)
  BY DEF ShapeInv, RunnerTypeOK
<1>2. run \in [Worker -> RunState] /\ call \in [Worker -> CallState]
  BY DEF ShapeInv, RunnerTypeOK
<1>3. RequestOf(w) \in Request
  BY RequestFits DEF Serve
<1>4. TypeOK /\ policy \in Seq(Policy)
  BY DEF ShapeInv, TypeOK
<1>5. /\ AnswerTo(RequestOf(w)) \in CallState
      /\ AnswerTo(RequestOf(w)).kind \in {"ok", "job-gone", "unauthenticated"}
  BY <1>3, <1>4, AnswerFits
<1>6. call'[w] = AnswerTo(RequestOf(w)) /\ run' = run /\ OnlyAt(w) /\ LateFrom(w)
  BY <1>2 DEF Serve, OnlyAt, LateFrom
<1>7. call[w] # NoCall
  BY CallsFit DEF Serve
<1>8. QED
  BY <1>1, <1>5, <1>6, <1>7 DEF FineAt, ShapeAt, Delivering, Busy

\* The rest of the variables.
LEMMA PolicyGrows ==
  ASSUME TypeOK, [QueueNext]_queueVars
  PROVE  PolicyVersion \in Nat /\ PolicyVersion' >= PolicyVersion
<1>1. policy \in Seq(Policy)
  BY DEF TypeOK
<1>2. ASSUME NEW p, SetPolicy(p)
      PROVE  PolicyVersion' = PolicyVersion + 1
  BY <1>1, <1>2 DEF SetPolicy, PolicyVersion
<1>3. CASE policy' = policy
  BY <1>1, <1>3 DEF PolicyVersion
<1>4. policy' = policy \/ \E p : SetPolicy(p)
  BY DEF QueueNext, ClientNext, WorkerNext, TimeNext, UpdatePolicy, SetWorkspaceGrant,
         SetMember, queueVars, Submit, CancelJob, ClaimGrant, ClaimNothing,
         ClaimCutShort, AppendOutput, Complete, ReapExpired, Tick
<1>5. PolicyVersion \in Nat
  BY <1>1 DEF PolicyVersion
<1>6. QED
  BY <1>2, <1>3, <1>4, <1>5

LEMMA RestShape ==
  ASSUME ShapeInv, [RunnerNext]_allVars
  PROVE  /\ latest' \in [Worker -> 1 .. PolicyVersion']
         /\ valid' \subseteq Worker /\ starts' \in Nat
         /\ spawns' \in [Job -> Nat] /\ exitOf' \in [Job -> ExitState]
         /\ printed' \in [Job -> Seq(Batch)]
<1>1. /\ latest \in [Worker -> 1 .. PolicyVersion]
      /\ valid \subseteq Worker /\ starts \in Nat
      /\ spawns \in [Job -> Nat] /\ exitOf \in [Job -> ExitState]
      /\ printed \in [Job -> Seq(Batch)]
  BY DEF ShapeInv, RunnerTypeOK
<1>2. PolicyVersion \in Nat /\ PolicyVersion' >= PolicyVersion
  BY RunnerRefines, PolicyGrows DEF ShapeInv
<1>3. latest \in [Worker -> 1 .. PolicyVersion']
  <2>1. 1 .. PolicyVersion \subseteq 1 .. PolicyVersion'
    <3>1. PolicyVersion' \in Nat
      <4>1. TypeOK'
        BY RunnerRefines, NextTypeOK DEF ShapeInv
      <4>2. QED
        BY <4>1 DEF TypeOK, PolicyVersion
    <3>2. QED
      BY <1>2, <3>1
  <2>2. QED
    BY <1>1, <2>1
<1>4. ASSUME NEW w \in Worker, CallStep(w) \/ RunStep(w) \/ ProcessStep(w)
      PROVE  /\ latest' \in [Worker -> 1 .. PolicyVersion']
             /\ valid' \subseteq Worker /\ starts' \in Nat
             /\ spawns' \in [Job -> Nat] /\ exitOf' \in [Job -> ExitState]
             /\ printed' \in [Job -> Seq(Batch)]
  <2>1. CASE CallStep(w) /\ ~TakeClaim(w)
    BY <1>1, <1>3, <2>1
       DEF CallStep, Send, Serve, ClaimAgain, ClaimRefused, OutputAnswered,
           OutputFailed, ExitAnswered, ExitFailed
  <2>2. CASE TakeClaim(w)
    <3>1. call[w].job \in Job
      BY <2>2 DEF TakeClaim, ShapeInv, RunnerTypeOK, CallState
    <3>2. \/ spawns' = spawns /\ exitOf' = exitOf
          \/ /\ spawns' = [spawns EXCEPT ![call[w].job] = @ + 1]
             /\ exitOf' = [exitOf EXCEPT ![call[w].job] = "alive"]
      BY <2>2 DEF TakeClaim
    <3>3. spawns' \in [Job -> Nat]
      <4>1. spawns[call[w].job] + 1 \in Nat
        BY <1>1, <3>1
      <4>2. QED
        BY <1>1, <3>1, <3>2, <4>1
    <3>4. exitOf' \in [Job -> ExitState]
      BY <1>1, <3>1, <3>2 DEF ExitState
    <3>5. QED
      BY <1>1, <1>3, <2>2, <3>3, <3>4 DEF TakeClaim
  <2>3. CASE RunStep(w)
    <3>1. ASSUME NEW b \in Batch, Push(w, b)
          PROVE  printed' \in [Job -> Seq(Batch)]
      <4>1. run[w].job \in Job
        BY <3>1 DEF Push, ShapeInv, ShapeAt, Busy
      <4>2. \/ printed' = printed
            \/ printed' = [printed EXCEPT ![run[w].job] = Append(printed[run[w].job], b)]
        BY <3>1 DEF Push
      <4>3. Append(printed[run[w].job], b) \in Seq(Batch)
        BY <1>1, <4>1
      <4>4. QED
        BY <1>1, <4>1, <4>2, <4>3
    <3>2. ASSUME NEW exit \in Exits, ChildExit(w, exit)
          PROVE  exitOf' \in [Job -> ExitState]
      BY <1>1, <3>2 DEF ChildExit, Exits, ExitState
    <3>3. printed' \in [Job -> Seq(Batch)] /\ exitOf' \in [Job -> ExitState]
      BY <1>1, <2>3, <3>1, <3>2
         DEF RunStep, Push, Heartbeat, JobTimeout, DrainTimeout, Drained, ChildExit, Exits
    <3>4. QED
      BY <1>1, <1>3, <2>3, <3>3
         DEF RunStep, Push, Heartbeat, JobTimeout, DrainTimeout, Drained, ChildExit
  <2>4. CASE ProcessStep(w) /\ ~HearPolicy(w) /\ ~Restart(w)
    BY <1>1, <1>3, <2>4 DEF ProcessStep, Reject, RevokeToken, Stop, Crash
  <2>5. CASE HearPolicy(w)
    <3>1. PICK v \in latest[w] + 1 .. PolicyVersion : latest' = [latest EXCEPT ![w] = v]
      BY <2>5 DEF HearPolicy
    <3>2. policy' = policy
      BY <2>5 DEF HearPolicy, queueVars
    <3>3. v \in 1 .. PolicyVersion
      BY <1>1, <1>2, <3>1
    <3>4. latest' \in [Worker -> 1 .. PolicyVersion']
      BY <1>1, <3>1, <3>2, <3>3 DEF PolicyVersion
    <3>5. QED
      BY <1>1, <2>5, <3>4 DEF HearPolicy
  <2>6. CASE Restart(w)
    <3>1. 1 \in 1 .. PolicyVersion
      BY <1>1, <1>2
    <3>2. QED
      BY <1>1, <1>3, <2>6, <3>1 DEF Restart, queueVars, PolicyVersion
  <2>7. QED
    BY <1>4, <2>1, <2>2, <2>3, <2>4, <2>5, <2>6
<1>5. CASE UNCHANGED runnerVars
  BY <1>1, <1>3, <1>5 DEF runnerVars
<1>6. ASSUME NEW r \in late, ServeLate(r)
      PROVE  UNCHANGED <<latest, valid, starts, spawns, exitOf, printed>>
  BY <1>6 DEF ServeLate
<1>7. QED
  BY <1>1, <1>3, <1>4, <1>5, <1>6 DEF RunnerNext, allVars

\* A step changes the run and the call of one worker, in the ways above, and
\* what is late comes from there.
LEMMA StepShape ==
  ASSUME ShapeInv, [RunnerNext]_allVars
  PROVE  \/ run' = run /\ call' = call /\ late' \subseteq late
         \/ \E w \in Worker : OnlyAt(w) /\ FineAt(w)' /\ LateFrom(w)
<1>1. CASE UNCHANGED runnerVars
  BY <1>1 DEF runnerVars
<1>2. ASSUME NEW r \in late, ServeLate(r)
      PROVE  run' = run /\ call' = call /\ late' \subseteq late
  BY <1>2 DEF ServeLate
<1>3. ASSUME NEW w \in Worker, CallStep(w) \/ RunStep(w) \/ ProcessStep(w)
      PROVE  OnlyAt(w) /\ FineAt(w)' /\ LateFrom(w)
  BY <1>3, CallShape, ServeShape, RunShape, ProcessShape
<1>4. QED
  BY <1>1, <1>2, <1>3 DEF RunnerNext, allVars

LEMMA NextShapeInv ==
  ASSUME ShapeInv, [RunnerNext]_allVars
  PROVE  ShapeInv'
<1>1. TypeOK'
  BY RunnerRefines, NextTypeOK DEF ShapeInv
<1>2. /\ run \in [Worker -> RunState] /\ call \in [Worker -> CallState]
      /\ late \subseteq Request /\ \A w \in Worker : ShapeAt(w)
  BY DEF ShapeInv, RunnerTypeOK
<1>3. CASE run' = run /\ call' = call /\ late' \subseteq late
  <2>1. \A w \in Worker : ShapeAt(w)'
    BY <1>2, <1>3 DEF ShapeAt, Delivering
  <2>2. QED
    BY <1>1, <1>2, <1>3, <2>1, RestShape DEF ShapeInv, RunnerTypeOK
<1>4. ASSUME NEW w \in Worker, OnlyAt(w), FineAt(w)', LateFrom(w)
      PROVE  ShapeInv'
  <2>1. run'[w] \in RunState /\ call'[w] \in CallState /\ ShapeAt(w)'
    BY <1>4 DEF FineAt
  <2>2. run' \in [Worker -> RunState] /\ call' \in [Worker -> CallState]
    BY <1>2, <1>4, <2>1 DEF OnlyAt
  <2>3. ASSUME NEW v \in Worker
        PROVE  ShapeAt(v)'
    <3>1. CASE v = w
      BY <2>1, <3>1
    <3>2. CASE v # w
      <4>1. run'[v] = run[v] /\ call'[v] = call[v]
        BY <1>2, <1>4, <3>2 DEF OnlyAt
      <4>2. ShapeAt(v)
        BY <1>2
      <4>3. QED
        BY <4>1, <4>2 DEF ShapeAt, Delivering
    <3>3. QED
      BY <3>1, <3>2
  <2>4. late' \subseteq Request
    BY <1>2, <1>4, RequestFits DEF LateFrom
  <2>5. QED
    BY <1>1, <2>2, <2>3, <2>4, RestShape DEF ShapeInv, RunnerTypeOK
<1>5. QED
  BY <1>3, <1>4, StepShape

LEMMA InitShapeInv == RunnerInit => ShapeInv
<1>1. SUFFICES ASSUME RunnerInit PROVE ShapeInv
  OBVIOUS
<1>2. TypeOK /\ PolicyVersion = 1
  BY <1>1, InitTypeOK DEF RunnerInit, QueueInit, PolicyVersion
<1>3. RunnerTypeOK
  BY <1>1, <1>2, IdleFits, CallsFit DEF RunnerInit, RunnerTypeOK, ExitState
<1>4. \A w \in Worker : ShapeAt(w)
  BY <1>1, IdleFits, CallsFit DEF RunnerInit, ShapeAt, Delivering, Busy
<1>5. QED
  BY <1>2, <1>3, <1>4 DEF ShapeInv

LEMMA RunnerShapeInv == RunnerSpec => []ShapeInv
BY InitShapeInv, NextShapeInv, PTL DEF RunnerSpec

\* Workers, calls and requests keep their types: every request that reaches the
\* server, however late, is one its handlers take, with a report that a runner
\* can have built.
THEOREM RunnerTypes == RunnerSpec => []RunnerTypeOK
BY RunnerShapeInv, PTL DEF ShapeInv

\* The workers are callers of the queue: every behaviour of the composed system,
\* with its losses, delays, crashes and restarts, is one of JobQueue.
THEOREM RunnerImplementsQueue == RunnerSpec => WorkersUseTheQueue
<1>1. RunnerInit => QueueInit
  BY DEF RunnerInit
<1>2. ShapeInv /\ [RunnerNext]_allVars => [QueueNext]_queueVars
  BY RunnerRefines
<1>3. QED
  BY <1>1, <1>2, RunnerShapeInv, PTL DEF RunnerSpec, WorkersUseTheQueue, QueueSpec

\* So the tables of the queue are consistent with real workers too.
THEOREM RunnerKeepsJobsConsistent == RunnerSpec => []JobsConsistent
BY RunnerImplementsQueue, QueueJobsConsistent, PTL DEF WorkersUseTheQueue


----------------------------------------------------------------------------
\* The life of a job at its worker: an answer on its way to a worker that waits
\* for it, then a run.  It belongs to the one worker in the job's row, which
\* never changes again, so there is one such worker at most.

Pending(w, j) == run[w].pc = "idle" /\ call[w].kind = "ok" /\ call[w].job = j
Holds(w, j)   == run[w].pc \in Busy /\ run[w].job = j
Taken(j)      == job[j].status \notin {"absent", "queued"}

ClaimAt(j) ==
  /\ spawns[j] = 0 <=> exitOf[j] = "none"
  /\ spawns[j] <= 1
  /\ ~Taken(j) => spawns[j] = 0
  /\ \A w \in Worker :
       /\ Pending(w, j) \/ Holds(w, j) => job[j].worker = w /\ Taken(j)
       /\ Pending(w, j) => spawns[j] = 0

\* Somebody is about to report body for j, or did and was given up.
Reported(j, body) ==
  \/ \E r \in late : r.op = "exit" /\ r.job = j /\ r.body = body
  \/ \E w \in Worker : run[w].pc = "reporting" /\ run[w].job = j /\ run[w].body = body

RunningOrLost(j) ==
  \/ job[j].status = "running"
  \/ job[j].status \in Terminal /\ job[j].errorCode = "WORKER_LOST"

\* Reports come after the process they are about, and while it runs nothing but
\* the reaper ends its job.
ReportAt(j) ==
  /\ \A w \in Worker : Holds(w, j) /\ Delivering(w) => exitOf[j] = run[w].child
  /\ \A body : Reported(j, body) =>
       /\ exitOf[j] # "alive" /\ Taken(j)
       /\ body.exitCode = "zero" => exitOf[j] = "zero"
       /\ \A w \in Worker : ~Pending(w, j)
  /\ exitOf[j] = "alive" \/ (\E w \in Worker : Pending(w, j)) => RunningOrLost(j)
  /\ job[j].status = "succeeded" => exitOf[j] = "zero"

GoneAt(w) ==
  /\ call[w].kind = "job-gone" /\ Delivering(w) => ~Owns(w, run[w].job)
  /\ run[w].term = "gone" => run[w].unauthenticated \/ ~Owns(w, run[w].job)

RunInv == /\ ShapeInv
          /\ \A j \in Job : ClaimAt(j) /\ ReportAt(j)
          /\ \A w \in Worker : GoneAt(w)

\* What happens to a row once its job was taken.
LEMMA TakenRow ==
  ASSUME TypeOK, NEW j \in Job, RowStep(j), Taken(j)
  PROVE  /\ Taken(j)' /\ job'[j].worker = job[j].worker
         /\ job'[j].status = "running" => job[j].status = "running"
<1>1. job[j] \in JobRow
  BY DEF TypeOK
<1>2. CASE Untouched(j) \/ Submitted(j) \/ CancelRequested(j) \/ Aged(j)
  BY <1>1, <1>2 DEF Untouched, Submitted, CancelRequested, CancelRow, Aged, Taken, JobRow
<1>3. CASE Reaped(j) \/ Denied(j) \/ Granted(j)
  BY <1>1, <1>3
     DEF Reaped, Expired, Denied, Granted, WorkerLost, Refused, Finish, Taken, JobRow
<1>4. CASE Appended(j)
  BY <1>1, <1>4 DEF Appended, AppendRow, Taken, JobRow
<1>5. CASE Completed(j)
  BY <1>1, <1>5 DEF Completed, OutcomeOf, Finish, Taken, JobRow
<1>6. QED
  BY <1>2, <1>3, <1>4, <1>5 DEF RowStep, CalmStep

\* Without a report nothing succeeds, and a running job only ends as lost.
LEMMA CalmRow ==
  ASSUME TypeOK, NEW j \in Job, CalmStep(j)
  PROVE  /\ RunningOrLost(j) => RunningOrLost(j)'
         /\ job'[j].status = "succeeded" => job[j].status = "succeeded"
<1>1. job[j] \in JobRow
  BY DEF TypeOK
<1>2. CASE Untouched(j) \/ Submitted(j) \/ CancelRequested(j) \/ Aged(j)
  BY <1>1, <1>2
     DEF Untouched, Submitted, CancelRequested, CancelRow, Finish, Aged,
         RunningOrLost, Terminal, JobRow
<1>3. CASE Reaped(j) \/ Denied(j) \/ Granted(j)
  BY <1>1, <1>3
     DEF Reaped, Expired, Denied, Granted, Claimed, WorkerLost, Refused, Finish,
         RunningOrLost, Terminal, JobRow
<1>4. CASE Appended(j)
  BY <1>1, <1>4 DEF Appended, AppendRow, RunningOrLost, Terminal, JobRow
<1>5. QED
  BY <1>2, <1>3, <1>4 DEF CalmStep

\* A claim starts jobs for its own worker, and they were queued.
LEMMA StartedByClaim ==
  ASSUME TypeOK, NEW r \in Request, r.op = "claim", Handle(r), NEW j \in Started
  PROVE  /\ j \in Job /\ ~Taken(j) /\ Taken(j)'
         /\ job'[j].status = "running" /\ job'[j].worker = r.worker
<1>1. /\ j \in Job /\ job[j].status = "queued" /\ job'[j].status = "running"
      /\ job[j] \in JobRow
  BY DEF Started, TypeOK
<1>2. r.worker \in Worker
  BY DEF Request
<1>3. ASSUME NEW refused, NEW granted, job' = AfterClaim(r.worker, refused, granted)
      PROVE  job'[j].worker = r.worker
  <2>1. ~Expired(j)
    BY <1>1 DEF Expired
  <2>2. CASE j \in refused
    <3>1. job'[j] = Refused(j)
      BY <1>1, <1>3, <2>1, <2>2 DEF AfterClaim
    <3>2. QED
      BY <1>1, <3>1 DEF Refused, Finish, JobRow
  <2>3. CASE j \notin refused /\ j \in granted
    <3>1. job'[j] = Claimed(job[j], r.worker)
      BY <1>1, <1>3, <2>1, <2>3 DEF AfterClaim
    <3>2. QED
      BY <1>1, <3>1 DEF Claimed, JobRow
  <2>4. CASE j \notin refused /\ j \notin granted
    BY <1>1, <1>3, <2>1, <2>4 DEF AfterClaim
  <2>5. QED
    BY <2>2, <2>3, <2>4
<1>4. \/ UNCHANGED queueVars
      \/ \E refused, granted : job' = AfterClaim(r.worker, refused, granted)
  BY DEF Handle, ClaimGrant, ClaimNothing, ClaimCutShort
<1>5. job' # job
  BY <1>1
<1>6. QED
  BY <1>1, <1>3, <1>4, <1>5 DEF Taken, queueVars

\* The server takes a report as it is, or does nothing that ends a job otherwise.
LEMMA HandleRows ==
  ASSUME TypeOK, NEW r \in Request, Handle(r)
  PROVE  \/ \A j \in Job : CalmStep(j)
         \/ r.op = "exit" /\ Complete(r.worker, r.job, r.body)
<1>1. r.worker \in Worker
  BY DEF Request
<1>2. r.op = "output" => r.job \in Job /\ r.post \in Posts
  BY DEF Request
<1>3. CalmNext \/ (r.op = "exit" /\ Complete(r.worker, r.job, r.body))
  BY <1>1, <1>2 DEF Handle, CalmNext
<1>4. QED
  BY <1>3, CalmRowSteps

----------------------------------------------------------------------------
\* Most steps of a worker start nothing, end nothing and report nothing.

KeepsRun(w) ==
  /\ \/ run'[w] \in {Idle, Stopped} /\ call'[w].kind \notin {"ok", "job-gone"}
     \/ /\ run'[w].pc = run[w].pc /\ run'[w].job = run[w].job
        /\ run'[w].child = run[w].child /\ run'[w].body = run[w].body
        /\ run[w].unauthenticated => run'[w].unauthenticated
        /\ call'[w] = call[w] \/ call'[w].kind \notin {"ok", "job-gone"}
  /\ run'[w].term = "gone" => \/ run'[w].unauthenticated
                              \/ run[w].term = "gone"
                              \/ call[w].kind = "job-gone" /\ Delivering(w)

Quiet(w) == KeepsRun(w) /\ UNCHANGED <<queueVars, spawns, exitOf>>

LEMMA QuietCalls ==
  ASSUME ShapeInv, NEW w \in Worker, CallStep(w), ~Serve(w), ~TakeClaim(w)
  PROVE  Quiet(w)
<1>1. run[w] \in RunState /\ call[w] \in CallState /\ ShapeAt(w)
  BY DEF ShapeInv, RunnerTypeOK
<1>2. run \in [Worker -> RunState] /\ call \in [Worker -> CallState]
  BY DEF ShapeInv, RunnerTypeOK
<1>3. CASE Send(w) \/ ClaimAgain(w)
  BY <1>1, <1>2, <1>3, CallsFit DEF Send, ClaimAgain, Quiet, KeepsRun
<1>4. CASE ClaimRefused(w) \/ ExitAnswered(w)
  BY <1>1, <1>2, <1>4, CallsFit, IdleFits
     DEF ClaimRefused, ExitAnswered, AfterRun, Quiet, KeepsRun
<1>5. CASE OutputAnswered(w)
  <2>1. run[w].queue # <<>>
    BY <1>1, <1>5, CallsFit DEF OutputAnswered, Answered, ShapeAt
  <2> DEFINE r == Dequeue(run[w])
  <2>2. /\ r \in RunState /\ r.pc = run[w].pc /\ r.job = run[w].job
        /\ r.child = run[w].child /\ r.body = run[w].body
        /\ r.unauthenticated = run[w].unauthenticated /\ r.term = run[w].term
    BY <1>1, <2>1, DequeueFits
  <2>3. run'[w] = Heard(r, call[w]) /\ call'[w] = NoCall
    BY <1>2, <1>5 DEF OutputAnswered
  <2> HIDE DEF r
  <2>4. /\ Heard(r, call[w]).pc = r.pc /\ Heard(r, call[w]).job = r.job
        /\ Heard(r, call[w]).child = r.child /\ Heard(r, call[w]).body = r.body
        /\ r.unauthenticated => Heard(r, call[w]).unauthenticated
        /\ Heard(r, call[w]).term = "gone" =>
             \/ Heard(r, call[w]).unauthenticated
             \/ r.term = "gone"
             \/ call[w].kind = "job-gone"
    BY <1>1, <2>2, HeardFits
  <2>5. UNCHANGED <<queueVars, spawns, exitOf>> /\ Delivering(w)
    BY <1>5 DEF OutputAnswered
  <2>6. QED
    BY <2>2, <2>3, <2>4, <2>5, CallsFit DEF Quiet, KeepsRun
<1>6. CASE OutputFailed(w)
  <2>1. run[w].queue # <<>>
    BY <1>1, <1>6 DEF OutputFailed, ShapeAt
  <2> DEFINE r == Dequeue(run[w])
  <2>2. /\ r \in RunState /\ r.pc = run[w].pc /\ r.job = run[w].job
        /\ r.child = run[w].child /\ r.body = run[w].body
        /\ r.unauthenticated = run[w].unauthenticated /\ r.term = run[w].term
    BY <1>1, <2>1, DequeueFits
  <2>3. \/ run'[w] = [run[w] EXCEPT !.tries = run[w].tries + 1]
        \/ run'[w] = [r EXCEPT !.lost = TRUE]
    BY <1>2, <1>6 DEF OutputFailed
  <2> HIDE DEF r
  <2>4. /\ run'[w].pc = run[w].pc /\ run'[w].job = run[w].job
        /\ run'[w].child = run[w].child /\ run'[w].body = run[w].body
        /\ run'[w].unauthenticated = run[w].unauthenticated
        /\ run'[w].term = run[w].term
    BY <1>1, <2>2, <2>3 DEF RunState
  <2>5. call'[w] = NoCall /\ UNCHANGED <<queueVars, spawns, exitOf>>
    BY <1>2, <1>6 DEF OutputFailed
  <2>6. QED
    BY <2>4, <2>5, CallsFit DEF Quiet, KeepsRun
<1>7. CASE ExitFailed(w)
  <2>1. \/ run'[w] = [run[w] EXCEPT !.tries = run[w].tries + 1]
        \/ run'[w] \in {Idle, Stopped}
    BY <1>2, <1>7 DEF ExitFailed, AfterRun
  <2>2. call'[w] = NoCall /\ UNCHANGED <<queueVars, spawns, exitOf>>
    BY <1>2, <1>7 DEF ExitFailed
  <2>3. CASE run'[w] \in {Idle, Stopped}
    BY <2>2, <2>3, CallsFit, IdleFits DEF Quiet, KeepsRun
  <2>4. CASE run'[w] = [run[w] EXCEPT !.tries = run[w].tries + 1]
    <3>1. /\ run'[w].pc = run[w].pc /\ run'[w].job = run[w].job
          /\ run'[w].child = run[w].child /\ run'[w].body = run[w].body
          /\ run'[w].unauthenticated = run[w].unauthenticated
          /\ run'[w].term = run[w].term
      BY <1>1, <2>4 DEF RunState
    <3>2. QED
      BY <2>2, <3>1, CallsFit DEF Quiet, KeepsRun
  <2>5. QED
    BY <2>1, <2>3, <2>4
<1>8. QED
  BY <1>3, <1>4, <1>5, <1>6, <1>7 DEF CallStep

LEMMA QuietRuns ==
  ASSUME ShapeInv, NEW w \in Worker, RunStep(w), ~Drained(w),
         \A exit \in Exits : ~ChildExit(w, exit)
  PROVE  Quiet(w)
<1>1. run[w] \in RunState /\ ShapeAt(w)
  BY DEF ShapeInv, RunnerTypeOK
<1>2. run \in [Worker -> RunState] /\ call \in [Worker -> CallState]
  BY DEF ShapeInv, RunnerTypeOK
<1>3. ASSUME NEW s \in RunState, run'[w] = s, s.pc = run[w].pc, s.job = run[w].job,
             s.child = run[w].child, s.body = run[w].body,
             s.unauthenticated = run[w].unauthenticated,
             s.term # "gone" \/ s.term = run[w].term,
             call'[w] = call[w] \/ call'[w] = NoCall,
             UNCHANGED <<queueVars, spawns, exitOf>>
      PROVE  Quiet(w)
  BY <1>3, CallsFit DEF Quiet, KeepsRun
<1>4. ASSUME NEW post \in Posts, run' = [run EXCEPT ![w].queue = Append(@, post)],
             call' = call, UNCHANGED <<queueVars, spawns, exitOf>>
      PROVE  Quiet(w)
  <2>1. Append(run[w].queue, post) \in Seq(Posts)
    BY <1>1 DEF RunState
  <2>2. run'[w] = [run[w] EXCEPT !.queue = Append(run[w].queue, post)]
    BY <1>2, <1>4
  <2>3. /\ run'[w] \in RunState /\ run'[w].pc = run[w].pc /\ run'[w].job = run[w].job
        /\ run'[w].child = run[w].child /\ run'[w].body = run[w].body
        /\ run'[w].unauthenticated = run[w].unauthenticated
        /\ run'[w].term = run[w].term
    BY <1>1, <2>1, <2>2 DEF RunState
  <2>4. QED
    BY <1>3, <1>4, <2>3
<1>5. ASSUME NEW b \in Batch, Push(w, b)
      PROVE  Quiet(w)
  <2>1. call' = call /\ UNCHANGED <<queueVars, spawns, exitOf>>
    BY <1>5 DEF Push
  <2>2. CASE run' = [run EXCEPT ![w].queue = Append(@, <<b>>)]
    BY <1>4, <2>1, <2>2 DEF Posts
  <2>3. CASE run' = [run EXCEPT ![w] = Terminate([@ EXCEPT !.lost = TRUE], "output-limit")]
    <3> DEFINE lost == [run[w] EXCEPT !.lost = TRUE]
               s    == Terminate(lost, "output-limit")
    <3>1. /\ lost \in RunState /\ lost.pc = run[w].pc /\ lost.job = run[w].job
          /\ lost.child = run[w].child /\ lost.body = run[w].body
          /\ lost.unauthenticated = run[w].unauthenticated /\ lost.term = run[w].term
      BY <1>1 DEF RunState
    <3>2. run'[w] = s
      BY <1>2, <2>3
    <3> HIDE DEF lost
    <3>3. /\ s \in RunState /\ s.pc = lost.pc /\ s.job = lost.job
          /\ s.child = lost.child /\ s.body = lost.body
          /\ s.unauthenticated = lost.unauthenticated
          /\ s.term = lost.term \/ (lost.term = "none" /\ s.term = "output-limit")
      <4>1. "output-limit" \in Termination
        BY DEF Termination
      <4>2. QED
        BY <3>1, <4>1, TerminateFits
    <3> HIDE DEF s
    <3>4. QED
      BY <1>3, <2>1, <3>1, <3>2, <3>3
  <2>4. QED
    BY <1>5, <2>2, <2>3 DEF Push
<1>6. CASE Heartbeat(w)
  BY <1>4, <1>6 DEF Heartbeat, Posts
<1>7. CASE JobTimeout(w)
  <2> DEFINE s == Terminate(run[w], "timeout")
  <2>1. /\ s \in RunState /\ s.pc = run[w].pc /\ s.job = run[w].job
        /\ s.child = run[w].child /\ s.body = run[w].body
        /\ s.unauthenticated = run[w].unauthenticated
        /\ s.term = run[w].term \/ (run[w].term = "none" /\ s.term = "timeout")
    <3>1. "timeout" \in Termination
      BY DEF Termination
    <3>2. QED
      BY <1>1, <3>1, TerminateFits
  <2>2. run'[w] = s /\ call'[w] = call[w] /\ UNCHANGED <<queueVars, spawns, exitOf>>
    BY <1>2, <1>7 DEF JobTimeout
  <2> HIDE DEF s
  <2>3. QED
    BY <1>3, <2>1, <2>2
<1>8. CASE DrainTimeout(w)
  <2>1. /\ run'[w].pc = run[w].pc /\ run'[w].job = run[w].job
        /\ run'[w].child = run[w].child /\ run'[w].body = run[w].body
        /\ run'[w].unauthenticated = run[w].unauthenticated
        /\ run'[w].term = run[w].term
    <3>1. run'[w] = [[[run[w] EXCEPT !.queue = <<>>] EXCEPT !.tries = 0] EXCEPT !.lost = TRUE]
      BY <1>2, <1>8 DEF DrainTimeout
    <3>2. QED
      BY <1>1, <3>1 DEF RunState
  <2>2. call'[w] = NoCall /\ UNCHANGED <<queueVars, spawns, exitOf>>
    BY <1>2, <1>8 DEF DrainTimeout
  <2>3. QED
    BY <2>1, <2>2, CallsFit DEF Quiet, KeepsRun
<1>9. QED
  BY <1>5, <1>6, <1>7, <1>8 DEF RunStep, Exits

LEMMA QuietProcess ==
  ASSUME ShapeInv, NEW w \in Worker, ProcessStep(w)
  PROVE  Quiet(w)
<1>1. run[w] \in RunState /\ ShapeAt(w)
  BY DEF ShapeInv, RunnerTypeOK
<1>2. run \in [Worker -> RunState] /\ call \in [Worker -> CallState]
  BY DEF ShapeInv, RunnerTypeOK
<1>3. CASE Reject(w) \/ RevokeToken(w) \/ HearPolicy(w)
  BY <1>1, <1>2, <1>3 DEF Reject, RevokeToken, HearPolicy, Answer, Quiet, KeepsRun
<1>4. CASE Crash(w) \/ Restart(w)
  BY <1>1, <1>2, <1>4, CallsFit, IdleFits DEF Crash, Restart, ShapeAt, Quiet, KeepsRun
<1>5. CASE Stop(w)
  <2>1. CASE run[w].pc = "idle"
    BY <1>2, <1>5, <2>1, CallsFit, IdleFits DEF Stop, Quiet, KeepsRun
  <2>2. CASE run[w].pc # "idle"
    <3> DEFINE r == IF run[w].pc = "running" THEN Terminate(run[w], "shutdown") ELSE run[w]
    <3>1. /\ r \in RunState /\ r.pc = run[w].pc /\ r.job = run[w].job
          /\ r.child = run[w].child /\ r.body = run[w].body
          /\ r.unauthenticated = run[w].unauthenticated
          /\ r.term = run[w].term \/ r.term = "shutdown"
      <4>1. "shutdown" \in Termination
        BY DEF Termination
      <4>2. QED
        BY <1>1, <4>1, TerminateFits
    <3>2. run'[w] = [r EXCEPT !.stopping = TRUE]
      BY <1>2, <1>5, <2>2 DEF Stop
    <3> HIDE DEF r
    <3>3. /\ run'[w].pc = run[w].pc /\ run'[w].job = run[w].job
          /\ run'[w].child = run[w].child /\ run'[w].body = run[w].body
          /\ run'[w].unauthenticated = run[w].unauthenticated
          /\ run'[w].term = run[w].term \/ run'[w].term = "shutdown"
      BY <3>1, <3>2 DEF RunState
    <3>4. call' = call /\ UNCHANGED <<queueVars, spawns, exitOf>>
      BY <1>5, <2>2 DEF Stop
    <3>5. QED
      BY <3>3, <3>4 DEF Quiet, KeepsRun
  <2>3. QED
    BY <2>1, <2>2
<1>6. QED
  BY <1>3, <1>4, <1>5 DEF ProcessStep

----------------------------------------------------------------------------
\* What a step keeps of one job and of one worker, by what it does to it.

LEMMA ClaimKept ==
  ASSUME RunInv, NEW j \in Job, RowStep(j), spawns'[j] = spawns[j],
         exitOf'[j] = "none" <=> exitOf[j] = "none",
         \A w \in Worker : Pending(w, j)' => \/ Pending(w, j)
                                             \/ ~Taken(j) /\ Taken(j)' /\ job'[j].worker = w,
         \A w \in Worker : Holds(w, j)' => Holds(w, j)
  PROVE  ClaimAt(j)'
<1>1. ClaimAt(j) /\ TypeOK
  BY DEF RunInv, ShapeInv
<1>2. Taken(j) => Taken(j)' /\ job'[j].worker = job[j].worker
  BY <1>1, TakenRow
<1>3. /\ spawns'[j] = 0 <=> exitOf'[j] = "none"
      /\ spawns'[j] <= 1
      /\ ~Taken(j)' => spawns'[j] = 0
  BY <1>1, <1>2 DEF ClaimAt
<1>4. ASSUME NEW w \in Worker
      PROVE  /\ (Pending(w, j) \/ Holds(w, j))' => job'[j].worker = w /\ Taken(j)'
             /\ Pending(w, j)' => spawns'[j] = 0
  <2>1. /\ Pending(w, j) \/ Holds(w, j) => job[j].worker = w /\ Taken(j)
        /\ Pending(w, j) => spawns[j] = 0
        /\ ~Taken(j) => spawns[j] = 0
    BY <1>1 DEF ClaimAt
  <2>2. QED
    BY <1>2, <2>1
<1>5. QED
  BY <1>3, <1>4 DEF ClaimAt

LEMMA ReportKept ==
  ASSUME RunInv, NEW j \in Job, RowStep(j), exitOf'[j] = exitOf[j],
         \A w \in Worker : Pending(w, j)' =>
             Pending(w, j) \/ (~Taken(j) /\ job'[j].status = "running"),
         \A w \in Worker : Holds(w, j)' /\ Delivering(w)' =>
             Holds(w, j) /\ Delivering(w) /\ run'[w].child = run[w].child,
         \A body : Reported(j, body)' => Reported(j, body),
         \/ CalmStep(j)
         \/ \E body : /\ Reported(j, body)
                      /\ job'[j] = Finish(job[j], OutcomeOf(job[j], body), body.exitCode,
                                          body.errorCode, body.errorMessage)
  PROVE  ReportAt(j)'
<1>1. ReportAt(j) /\ TypeOK /\ job[j] \in JobRow
  BY DEF RunInv, ShapeInv, TypeOK
<1>2. Taken(j) => Taken(j)'
  BY <1>1, TakenRow
<1>3. \A w \in Worker : (Holds(w, j) /\ Delivering(w))' => exitOf'[j] = run'[w].child
  BY <1>1 DEF ReportAt
<1>4. ASSUME NEW body, Reported(j, body)'
      PROVE  /\ exitOf'[j] # "alive" /\ Taken(j)'
             /\ body.exitCode = "zero" => exitOf'[j] = "zero"
             /\ \A w \in Worker : ~Pending(w, j)'
  <2>1. /\ exitOf[j] # "alive" /\ Taken(j)
        /\ body.exitCode = "zero" => exitOf[j] = "zero"
        /\ \A w \in Worker : ~Pending(w, j)
    BY <1>1, <1>4 DEF ReportAt
  <2>2. QED
    BY <1>2, <2>1
<1>5. CASE CalmStep(j)
  <2>1. /\ RunningOrLost(j) => RunningOrLost(j)'
        /\ job'[j].status = "succeeded" => job[j].status = "succeeded"
    BY <1>1, <1>5, CalmRow
  <2>2. exitOf'[j] = "alive" \/ (\E w \in Worker : Pending(w, j)') => RunningOrLost(j)'
    BY <1>1, <2>1 DEF ReportAt, RunningOrLost
  <2>3. job'[j].status = "succeeded" => exitOf'[j] = "zero"
    BY <1>1, <2>1 DEF ReportAt
  <2>4. QED
    BY <1>3, <1>4, <2>2, <2>3 DEF ReportAt
<1>6. ASSUME NEW body, Reported(j, body),
             job'[j] = Finish(job[j], OutcomeOf(job[j], body), body.exitCode,
                              body.errorCode, body.errorMessage)
      PROVE  ReportAt(j)'
  <2>1. /\ exitOf[j] # "alive" /\ Taken(j)
        /\ body.exitCode = "zero" => exitOf[j] = "zero"
        /\ \A w \in Worker : ~Pending(w, j)
    BY <1>1, <1>6 DEF ReportAt
  <2>2. \A w \in Worker : ~Pending(w, j)'
    BY <2>1
  <2>3. job'[j].status = OutcomeOf(job[j], body)
    BY <1>1, <1>6 DEF Finish, JobRow
  <2>4. job'[j].status = "succeeded" => exitOf'[j] = "zero"
    BY <2>1, <2>3 DEF OutcomeOf
  <2>5. QED
    BY <1>3, <1>4, <2>1, <2>2, <2>4 DEF ReportAt
<1>7. QED
  BY <1>5, <1>6

LEMMA GoneKept ==
  ASSUME RunInv, NEW w \in Worker, \A j \in Job : RowStep(j), KeepsRun(w)
  PROVE  GoneAt(w)'
<1>1. /\ GoneAt(w) /\ TypeOK /\ ShapeAt(w) /\ run[w] \in RunState
      /\ \A j \in Job : ClaimAt(j)
  BY DEF RunInv, ShapeInv, RunnerTypeOK
<1>2. ASSUME NEW j \in Job, Holds(w, j), ~Owns(w, j)
      PROVE  ~Owns(w, j)'
  <2>1. Taken(j)
    BY <1>1, <1>2 DEF ClaimAt
  <2>2. QED
    BY <1>1, <1>2, <2>1, TakenRow DEF Owns
<1>3. CASE run'[w] \in {Idle, Stopped} /\ call'[w].kind \notin {"ok", "job-gone"}
  BY <1>3, IdleFits DEF GoneAt
<1>4. CASE /\ run'[w].pc = run[w].pc /\ run'[w].job = run[w].job
           /\ run[w].unauthenticated => run'[w].unauthenticated
           /\ call'[w] = call[w] \/ call'[w].kind \notin {"ok", "job-gone"}
  <2>1. Delivering(w) => run[w].job \in Job /\ Holds(w, run[w].job)
    BY <1>1 DEF Delivering, ShapeAt, Holds, Busy
  <2>2. run[w].term = "gone" => run[w].job \in Job /\ Holds(w, run[w].job)
    BY <1>1, IdleFits DEF ShapeAt, Holds, Busy, RunState, Pc
  <2>3. call'[w].kind = "job-gone" /\ Delivering(w)' => ~Owns(w, run[w].job)'
    BY <1>1, <1>2, <1>4, <2>1 DEF GoneAt, Delivering
  <2>4. run'[w].term = "gone" => run'[w].unauthenticated \/ ~Owns(w, run[w].job)'
    BY <1>1, <1>2, <1>4, <2>1, <2>2 DEF KeepsRun, GoneAt
  <2>5. QED
    BY <1>4, <2>3, <2>4 DEF GoneAt, Owns
<1>5. QED
  BY <1>3, <1>4 DEF KeepsRun

----------------------------------------------------------------------------
\* The steps, one kind after the other.

\* All other workers are as they were.
LEMMA OthersKept ==
  ASSUME ShapeInv, NEW w \in Worker, OnlyAt(w)
  PROVE  \A v \in Worker : v # w =>
           /\ run'[v] = run[v] /\ call'[v] = call[v] /\ KeepsRun(v)
           /\ \A j \in Job : (Pending(v, j)' <=> Pending(v, j)) /\ (Holds(v, j)' <=> Holds(v, j))
           /\ Delivering(v)' <=> Delivering(v)
<1>1. run \in [Worker -> RunState] /\ call \in [Worker -> CallState]
  BY DEF ShapeInv, RunnerTypeOK
<1>2. \A v \in Worker : v # w => run'[v] = run[v] /\ call'[v] = call[v]
  BY <1>1 DEF OnlyAt
<1>3. QED
  BY <1>2 DEF KeepsRun, Pending, Holds, Delivering

\* A report that is late afterwards was made before.
LEMMA LateReports ==
  ASSUME ShapeInv, NEW w \in Worker, LateFrom(w), NEW r \in late', r.op = "exit"
  PROVE  Reported(r.job, r.body)
<1>1. CASE r \in late
  BY <1>1 DEF Reported
<1>2. CASE r \notin late
  <2>1. r = RequestOf(w)
    BY <1>2 DEF LateFrom
  <2>2. run[w].pc # "idle"
    BY <2>1 DEF RequestOf
  <2>3. run[w].pc = "reporting"
    BY <2>1, <2>2 DEF RequestOf
  <2>4. r.job = run[w].job /\ r.body = run[w].body
    BY <2>1, <2>2, <2>3 DEF RequestOf
  <2>5. QED
    BY <2>3, <2>4 DEF Reported
<1>3. QED
  BY <1>1, <1>2

LEMMA QuietKeeps ==
  ASSUME RunInv, [RunnerNext]_allVars, NEW w \in Worker, OnlyAt(w), LateFrom(w), Quiet(w)
  PROVE  /\ \A j \in Job : ClaimAt(j)' /\ ReportAt(j)'
         /\ \A v \in Worker : GoneAt(v)'
<1>1. ShapeInv /\ TypeOK
  BY DEF RunInv, ShapeInv
<1>2. \A j \in Job : CalmStep(j) /\ RowStep(j)
  <2>1. job' = job /\ output' = output
    BY DEF Quiet, queueVars
  <2>2. QED
    BY <2>1 DEF CalmStep, RowStep, Untouched
<1>3. \A v \in Worker, j \in Job :
        /\ Pending(v, j)' => Pending(v, j)
        /\ Holds(v, j)' => Holds(v, j)
        /\ Holds(v, j)' /\ Delivering(v)' => Delivering(v) /\ run'[v].child = run[v].child
  <2>1. \A j \in Job :
        /\ Pending(w, j)' => Pending(w, j)
        /\ Holds(w, j)' => Holds(w, j)
        /\ Holds(w, j)' /\ Delivering(w)' => Delivering(w) /\ run'[w].child = run[w].child
    BY IdleFits DEF Quiet, KeepsRun, Pending, Holds, Delivering, Busy
  <2>2. QED
    BY <1>1, <2>1, OthersKept
<1>4. \A j \in Job : \A body : Reported(j, body)' => Reported(j, body)
  <2>1. ASSUME NEW j \in Job, NEW body, NEW r \in late', r.op = "exit", r.job = j, r.body = body
        PROVE  Reported(j, body)
    BY <1>1, <2>1, LateReports
  <2>2. ASSUME NEW j \in Job, NEW body, NEW v \in Worker, run'[v].pc = "reporting",
               run'[v].job = j, run'[v].body = body
        PROVE  Reported(j, body)
    <3>1. run[v].pc = "reporting" /\ run[v].job = j /\ run[v].body = body
      <4>1. CASE v # w
        BY <1>1, <2>2, <4>1, OthersKept
      <4>2. CASE v = w
        BY <2>2, <4>2, IdleFits DEF Quiet, KeepsRun
      <4>3. QED
        BY <4>1, <4>2
    <3>2. QED
      BY <3>1 DEF Reported
  <2>3. QED
    BY <2>1, <2>2 DEF Reported
<1>5. ASSUME NEW j \in Job
      PROVE  ClaimAt(j)' /\ ReportAt(j)'
  <2>1. spawns'[j] = spawns[j] /\ exitOf'[j] = exitOf[j]
    BY DEF Quiet
  <2>2. QED
    BY <1>2, <1>3, <1>4, <2>1, ClaimKept, ReportKept
<1>6. \A v \in Worker : GoneAt(v)'
  BY <1>1, <1>2, GoneKept, OthersKept DEF Quiet
<1>7. QED
  BY <1>5, <1>6

\* What the server does to the rows, for a request that somebody made.
RowsBy(j) ==
  \/ CalmStep(j)
  \/ \E body : /\ Reported(j, body)
               /\ job'[j] = Finish(job[j], OutcomeOf(job[j], body), body.exitCode,
                                   body.errorCode, body.errorMessage)

LEMMA HandleRowsBy ==
  ASSUME TypeOK, NEW r \in Request, Handle(r),
         r.op = "exit" => Reported(r.job, r.body)
  PROVE  \A j \in Job : RowsBy(j)
<1>1. CASE \A j \in Job : CalmStep(j)
  BY <1>1 DEF RowsBy
<1>2. CASE r.op = "exit" /\ Complete(r.worker, r.job, r.body)
  <2>1. job' = [job EXCEPT ![r.job] = Finish(job[r.job], OutcomeOf(job[r.job], r.body),
                                            r.body.exitCode, r.body.errorCode,
                                            r.body.errorMessage)]
        /\ output' = output
    BY <1>2 DEF Complete
  <2>2. ASSUME NEW j \in Job, j # r.job
        PROVE  CalmStep(j)
    BY <2>1, <2>2 DEF CalmStep, Untouched, TypeOK
  <2>3. ASSUME NEW j \in Job, j = r.job
        PROVE  RowsBy(j)
    <3>1. job'[j] = Finish(job[j], OutcomeOf(job[j], r.body), r.body.exitCode,
                           r.body.errorCode, r.body.errorMessage)
      BY <2>1, <2>3 DEF TypeOK
    <3>2. Reported(j, r.body)
      BY <1>2, <2>3
    <3>3. QED
      BY <3>1, <3>2 DEF RowsBy
  <2>4. QED
    BY <2>2, <2>3 DEF RowsBy
<1>3. QED
  BY <1>1, <1>2, HandleRows

LEMMA ServerKeeps ==
  ASSUME RunInv, [RunnerNext]_allVars, run' = run, UNCHANGED <<spawns, exitOf>>,
         \A r \in late' : r.op = "exit" => Reported(r.job, r.body),
         \A j \in Job : RowsBy(j),
         \A w \in Worker, j \in Job : Pending(w, j)' =>
           \/ Pending(w, j)
           \/ ~Taken(j) /\ Taken(j)' /\ job'[j].status = "running" /\ job'[j].worker = w
  PROVE  \A j \in Job : ClaimAt(j)' /\ ReportAt(j)'
<1>1. ShapeInv /\ TypeOK
  BY DEF RunInv, ShapeInv
<1>2. \A j \in Job : RowStep(j)
  BY <1>1, RunnerRefines, NextRowSteps
<1>3. \A w \in Worker, j \in Job :
        /\ Holds(w, j)' <=> Holds(w, j)
        /\ Delivering(w)' <=> Delivering(w)
        /\ run'[w].child = run[w].child
  BY DEF Holds, Delivering
<1>4. \A j \in Job : \A body : Reported(j, body)' => Reported(j, body)
  <2>1. ASSUME NEW j \in Job, NEW body, NEW r \in late', r.op = "exit", r.job = j, r.body = body
        PROVE  Reported(j, body)
    BY <2>1
  <2>2. ASSUME NEW j \in Job, NEW body, NEW v \in Worker, run'[v].pc = "reporting",
               run'[v].job = j, run'[v].body = body
        PROVE  Reported(j, body)
    BY <2>2 DEF Reported
  <2>3. QED
    BY <2>1, <2>2 DEF Reported
<1>5. ASSUME NEW j \in Job
      PROVE  ClaimAt(j)' /\ ReportAt(j)'
  <2>1. RowStep(j) /\ RowsBy(j) /\ spawns'[j] = spawns[j] /\ exitOf'[j] = exitOf[j]
    BY <1>2
  <2>2. ClaimAt(j)'
    BY <1>3, <2>1, ClaimKept
  <2>3. ReportAt(j)'
    BY <1>3, <1>4, <2>1, ReportKept DEF RowsBy
  <2>4. QED
    BY <2>2, <2>3
<1>6. QED
  BY <1>5

LEMMA QueueKeeps ==
  ASSUME RunInv, [RunnerNext]_allVars, run' = run, call' = call, late' \subseteq late,
         UNCHANGED <<spawns, exitOf>>, \A j \in Job : RowsBy(j)
  PROVE  /\ \A j \in Job : ClaimAt(j)' /\ ReportAt(j)'
         /\ \A v \in Worker : GoneAt(v)'
<1>1. ShapeInv /\ TypeOK
  BY DEF RunInv, ShapeInv
<1>2. \A j \in Job : RowStep(j)
  BY <1>1, RunnerRefines, NextRowSteps
<1>3. \A r \in late' : r.op = "exit" => Reported(r.job, r.body)
  BY DEF Reported
<1>4. \A w \in Worker, j \in Job : Pending(w, j)' => Pending(w, j)
  BY DEF Pending
<1>5. \A w \in Worker : KeepsRun(w)
  BY DEF KeepsRun
<1>6. QED
  BY <1>2, <1>3, <1>4, <1>5, ServerKeeps, GoneKept

LEMMA ServeKeeps ==
  ASSUME RunInv, [RunnerNext]_allVars, NEW w \in Worker, Serve(w)
  PROVE  /\ \A j \in Job : ClaimAt(j)' /\ ReportAt(j)'
         /\ \A v \in Worker : GoneAt(v)'
<1> DEFINE r == RequestOf(w)
<1>1. ShapeInv /\ TypeOK /\ run[w] \in RunState /\ ShapeAt(w)
  BY DEF RunInv, ShapeInv, RunnerTypeOK
<1>2. r \in Request /\ r.worker = w
  BY <1>1, RequestFits DEF Serve, RequestOf
<1>3. /\ Handle(r) /\ run' = run /\ late' = late /\ UNCHANGED <<spawns, exitOf>>
      /\ OnlyAt(w) /\ call'[w] = AnswerTo(r)
  BY <1>1, ServeShape DEF Serve, ShapeInv, RunnerTypeOK
<1>4. r.op = "claim" <=> run[w].pc = "idle"
  BY DEF RequestOf
<1>5. r.op = "exit" => Reported(r.job, r.body)
  <2>1. ASSUME r.op = "exit"
        PROVE  run[w].pc = "reporting" /\ r.job = run[w].job /\ r.body = run[w].body
    BY <2>1, <1>4 DEF RequestOf
  <2>2. QED
    BY <2>1 DEF Reported
<1>6. \A j \in Job : RowsBy(j)
  BY <1>1, <1>2, <1>3, <1>5, HandleRowsBy
<1>7. ASSUME NEW v \in Worker, NEW j \in Job, Pending(v, j)'
      PROVE  \/ Pending(v, j)
             \/ ~Taken(j) /\ Taken(j)' /\ job'[j].status = "running" /\ job'[j].worker = v
  <2>1. CASE v # w
    BY <1>1, <1>3, <1>7, <2>1, OthersKept
  <2>2. CASE v = w
    <3>1. r.op = "claim" /\ AnswerTo(r).kind = "ok" /\ AnswerTo(r).job = j
      BY <1>3, <1>4, <1>7, <2>2 DEF Pending
    <3>2. j \in Started
      <4>1. NoJob \notin Job
        BY RunnerAssumption
      <4>2. r.worker \in valid /\ Started # {}
        BY <3>1, <4>1 DEF AnswerTo, Answer
      <4>3. AnswerTo(r).job = CHOOSE k \in Started : TRUE
        BY <3>1, <4>2 DEF AnswerTo, Answer
      <4>4. QED
        BY <3>1, <4>2, <4>3
    <3>3. QED
      BY <1>1, <1>2, <1>3, <2>2, <3>1, <3>2, StartedByClaim
  <2>3. QED
    BY <2>1, <2>2
<1>8. \A q \in late' : q.op = "exit" => Reported(q.job, q.body)
  BY <1>3 DEF Reported
<1>9. \A j \in Job : ClaimAt(j)' /\ ReportAt(j)'
  BY <1>3, <1>6, <1>7, <1>8, ServerKeeps
<1>10. \A j \in Job : RowStep(j)
  BY <1>1, RunnerRefines, NextRowSteps
<1>11. \A v \in Worker : v # w => GoneAt(v)'
  BY <1>1, <1>3, <1>10, GoneKept, OthersKept
<1>12. GoneAt(w)'
  <2>1. GoneAt(w) /\ \A j \in Job : ClaimAt(j)
    BY DEF RunInv
  <2>2. ASSUME run[w].pc \in Busy, ~Owns(w, run[w].job)
        PROVE  ~Owns(w, run[w].job)'
    <3>1. run[w].job \in Job /\ Holds(w, run[w].job)
      BY <1>1, <2>2 DEF ShapeAt, Holds
    <3>2. Taken(run[w].job)
      BY <2>1, <3>1 DEF ClaimAt
    <3>3. job'[run[w].job].worker = job[run[w].job].worker
          /\ (job'[run[w].job].status = "running" => job[run[w].job].status = "running")
      BY <1>1, <1>10, <3>1, <3>2, TakenRow
    <3>4. QED
      BY <1>3, <2>2, <3>3 DEF Owns
  <2>3. call'[w].kind = "job-gone" /\ Delivering(w) => ~Owns(w, run[w].job)
    <3>1. SUFFICES ASSUME AnswerTo(r).kind = "job-gone", Delivering(w)
                   PROVE  ~Owns(w, run[w].job)
      BY <1>3
    <3>2. r.op # "claim" /\ r.job = run[w].job
      BY <1>4, <3>1 DEF Delivering, RequestOf
    <3>3. ~Owns(r.worker, r.job)
      BY <3>1, <3>2 DEF AnswerTo, Answer
    <3>4. QED
      BY <1>2, <3>2, <3>3
  <2>4. Delivering(w) => run[w].pc \in Busy
    BY DEF Delivering, Busy
  <2>5. run[w].term = "gone" => run[w].pc \in Busy
    BY <1>1, IdleFits DEF ShapeAt, Busy, RunState, Pc
  <2>6. QED
    BY <1>3, <2>1, <2>2, <2>3, <2>4, <2>5 DEF GoneAt, Delivering, Owns
<1>13. QED
  BY <1>9, <1>11, <1>12

LEMMA TakeClaimKeeps ==
  ASSUME RunInv, NEW w \in Worker, TakeClaim(w)
  PROVE  /\ \A j \in Job : ClaimAt(j)' /\ ReportAt(j)'
         /\ \A v \in Worker : GoneAt(v)'
<1>1. ShapeInv /\ TypeOK /\ run \in [Worker -> RunState] /\ call \in [Worker -> CallState]
  BY DEF RunInv, ShapeInv, RunnerTypeOK
<1>2. OnlyAt(w)
  BY <1>1 DEF TakeClaim, OnlyAt
<1> PICK k \in Job : k = call[w].job
  BY <1>1 DEF TakeClaim, CallState
<1> DEFINE claimed == [Idle EXCEPT !.job = k, !.version = call[w].version]
<1>3. Pending(w, k) /\ call'[w] = NoCall /\ late' = late /\ UNCHANGED queueVars
  BY <1>1 DEF TakeClaim, Answered, CallState, Pending
<1>4. \A j \in Job : CalmStep(j) /\ RowStep(j) /\ (Taken(j)' <=> Taken(j)) /\ job'[j] = job[j]
  BY <1>3 DEF CalmStep, RowStep, Untouched, Taken, queueVars
<1>5. /\ run'[w].job = k /\ run'[w].term = "none"
      /\ \/ /\ run'[w].pc = "reporting" /\ run'[w].body = FailureBody
            /\ UNCHANGED <<spawns, exitOf>>
         \/ /\ run'[w].pc = "running" /\ run'[w].child = "alive"
            /\ spawns' = [spawns EXCEPT ![k] = @ + 1]
            /\ exitOf' = [exitOf EXCEPT ![k] = "alive"]
  <2>1. claimed \in RunState /\ claimed.job = k /\ claimed.term = "none"
    BY <1>1, <1>3, IdleFits DEF RunState, CallState
  <2>2. \/ /\ run'[w] = [claimed EXCEPT !.pc = "reporting", !.body = FailureBody]
           /\ UNCHANGED <<spawns, exitOf>>
        \/ /\ run'[w] = [claimed EXCEPT !.pc = "running", !.child = "alive"]
           /\ spawns' = [spawns EXCEPT ![k] = @ + 1]
           /\ exitOf' = [exitOf EXCEPT ![k] = "alive"]
    BY <1>1 DEF TakeClaim
  <2> HIDE DEF claimed
  <2>3. QED
    BY <2>1, <2>2 DEF RunState
<1>6. \A j \in Job : ClaimAt(j) /\ ReportAt(j)
  BY DEF RunInv
<1>7. /\ \A j \in Job : ~Pending(w, j)'
      /\ \A j \in Job : Holds(w, j)' <=> j = k
  BY <1>3, <1>5, CallsFit DEF Pending, Holds, Busy
<1>8. \A v \in Worker, j \in Job :
        v # w => /\ Pending(v, j)' <=> Pending(v, j)
                 /\ Holds(v, j)' <=> Holds(v, j)
                 /\ Delivering(v)' <=> Delivering(v)
                 /\ run'[v] = run[v]
  BY <1>1, <1>2, OthersKept
<1>9. /\ Taken(k) /\ job[k].worker = w /\ spawns[k] = 0 /\ exitOf[k] = "none"
      /\ \A v \in Worker : v # w => ~Pending(v, k) /\ ~Holds(v, k)
  BY <1>3, <1>6 DEF ClaimAt
<1>10. \A j \in Job : \A body : Reported(j, body)' =>
         \/ Reported(j, body)
         \/ j = k /\ body = FailureBody /\ run'[w].pc = "reporting"
  <2>1. ASSUME NEW j \in Job, NEW body, NEW v \in Worker, run'[v].pc = "reporting",
               run'[v].job = j, run'[v].body = body
        PROVE  \/ Reported(j, body)
               \/ j = k /\ body = FailureBody /\ run'[w].pc = "reporting"
    <3>1. CASE v # w
      BY <1>8, <2>1, <3>1 DEF Reported
    <3>2. CASE v = w
      BY <1>5, <2>1, <3>2
    <3>3. QED
      BY <3>1, <3>2
  <2>2. QED
    BY <1>3, <2>1 DEF Reported
<1>11. ASSUME NEW j \in Job, j # k
       PROVE  ClaimAt(j)' /\ ReportAt(j)'
  <2>1. spawns'[j] = spawns[j] /\ exitOf'[j] = exitOf[j]
    BY <1>1, <1>5, <1>11 DEF ShapeInv, RunnerTypeOK
  <2>2. \A v \in Worker : /\ Pending(v, j)' => Pending(v, j)
                          /\ Holds(v, j)' => Holds(v, j)
                          /\ Holds(v, j)' /\ Delivering(v)' =>
                               Holds(v, j) /\ Delivering(v) /\ run'[v].child = run[v].child
    BY <1>7, <1>8, <1>11
  <2>3. \A body : Reported(j, body)' => Reported(j, body)
    BY <1>10, <1>11
  <2>4. QED
    BY <1>4, <2>1, <2>2, <2>3, ClaimKept, ReportKept
<1>12. ClaimAt(k)' /\ ReportAt(k)'
  <2>1. /\ \A v \in Worker : ~Pending(v, k)'
        /\ \A v \in Worker : Holds(v, k)' => v = w
        /\ Taken(k)' /\ job'[k].worker = w
    BY <1>3, <1>4, <1>7, <1>8, <1>9
  <2>2. CASE run'[w].pc = "reporting"
    <3>1. spawns'[k] = 0 /\ exitOf'[k] = "none"
      BY <1>5, <1>9, <2>2
    <3>2. ClaimAt(k)'
      BY <2>1, <3>1 DEF ClaimAt
    <3>3. job[k].status # "succeeded"
      BY <1>3, <1>6, <1>9 DEF ReportAt
    <3>4. \A body : Reported(k, body)' => body.exitCode # "zero"
      <4>1. ASSUME NEW body, Reported(k, body)
            PROVE  FALSE
        BY <1>3, <1>6, <4>1 DEF ReportAt
      <4>2. QED
        BY <1>3, <1>10, <4>1, FailureFits
    <3>5. ReportAt(k)'
      BY <1>3, <1>4, <2>1, <2>2, <3>1, <3>3, <3>4 DEF ReportAt, Delivering
    <3>6. QED
      BY <3>2, <3>5
  <2>3. CASE run'[w].pc = "running"
    <3>1. spawns'[k] = 1 /\ exitOf'[k] = "alive" /\ run'[w].child = "alive"
      BY <1>1, <1>3, <1>5, <1>9, <2>3 DEF ShapeInv, RunnerTypeOK
    <3>2. ClaimAt(k)'
      BY <2>1, <3>1 DEF ClaimAt
    <3>3. job[k].status # "succeeded" /\ RunningOrLost(k)
      BY <1>3, <1>6, <1>9 DEF ReportAt
    <3>4. \A body : ~Reported(k, body)'
      <4>1. ASSUME NEW body, Reported(k, body)
            PROVE  FALSE
        BY <1>3, <1>6, <4>1 DEF ReportAt
      <4>2. QED
        BY <1>3, <1>10, <2>3, <4>1
    <3>5. job'[k].status # "succeeded" /\ RunningOrLost(k)'
      BY <1>3, <1>4, <3>3 DEF RunningOrLost
    <3>6. ReportAt(k)'
      BY <2>1, <3>1, <3>4, <3>5 DEF ReportAt
    <3>7. QED
      BY <3>2, <3>6
  <2>4. QED
    BY <1>5, <2>2, <2>3
<1>13. \A v \in Worker : GoneAt(v)'
  <2>1. GoneAt(w)'
    BY <1>3, <1>5, CallsFit DEF GoneAt
  <2>2. QED
    BY <1>1, <1>2, <1>4, <2>1, OthersKept, GoneKept
<1>14. QED
  BY <1>11, <1>12, <1>13

\* The report of a process: made after its exit, and true to it.
LEMMA DrainedKeeps ==
  ASSUME RunInv, [RunnerNext]_allVars, NEW w \in Worker, Drained(w)
  PROVE  /\ \A j \in Job : ClaimAt(j)' /\ ReportAt(j)'
         /\ \A v \in Worker : GoneAt(v)'
<1>1. /\ ShapeInv /\ TypeOK /\ run[w] \in RunState /\ ShapeAt(w)
      /\ run \in [Worker -> RunState] /\ call \in [Worker -> CallState]
  BY DEF RunInv, ShapeInv, RunnerTypeOK
<1>2. OnlyAt(w) /\ LateFrom(w) /\ late' = late /\ call' = call
      /\ UNCHANGED <<queueVars, spawns, exitOf>>
  BY <1>1 DEF Drained, OnlyAt, LateFrom
<1>3. /\ run[w].pc = "draining" /\ call[w] = NoCall
      /\ run[w].child \in Exits /\ run[w].job \in Job
  BY <1>1 DEF Drained, ShapeAt, Delivering, Busy
<1>4. CASE run'[w] \in {Idle, Stopped}
  <2>1. Quiet(w)
    BY <1>2, <1>3, <1>4, CallsFit, IdleFits DEF Quiet, KeepsRun
  <2>2. QED
    BY <1>2, <2>1, QuietKeeps
<1>5. CASE run'[w] = [run[w] EXCEPT !.pc = "reporting", !.body = BodyOf(run[w])]
  <2> PICK k \in Job : k = run[w].job
    BY <1>3
  <2> PICK b : b = BodyOf(run[w])
    OBVIOUS
  <2>1. /\ run'[w].pc = "reporting" /\ run'[w].job = k /\ run'[w].body = b
        /\ run'[w].term = run[w].term
        /\ run'[w].unauthenticated = run[w].unauthenticated
    BY <1>1, <1>5 DEF RunState
  <2>2. \A j \in Job : ClaimAt(j) /\ ReportAt(j)
    BY DEF RunInv
  <2>3. Holds(w, k) /\ Delivering(w)
    BY <1>3 DEF Holds, Busy, Delivering
  <2>4. /\ Taken(k) /\ exitOf[k] \in Exits
        /\ b.exitCode = "zero" => exitOf[k] = "zero"
        /\ \A v \in Worker : ~Pending(v, k)
    <3>1. Taken(k) /\ exitOf[k] = run[w].child
      BY <2>2, <2>3 DEF ClaimAt, ReportAt
    <3>2. spawns[k] # 0
      BY <1>3, <2>2, <3>1 DEF ClaimAt, Exits
    <3>3. \A v \in Worker : ~Pending(v, k)
      BY <2>2, <3>2 DEF ClaimAt
    <3>4. QED
      BY <1>1, <1>3, <3>1, <3>3, BodyFits
  <2>5. \A j \in Job : CalmStep(j) /\ RowStep(j) /\ job'[j] = job[j]
    BY <1>2 DEF CalmStep, RowStep, Untouched, queueVars
  <2>6. \A v \in Worker, j \in Job :
          /\ Pending(v, j)' => Pending(v, j)
          /\ Holds(v, j)' => Holds(v, j)
          /\ Holds(v, j)' /\ Delivering(v)' => Delivering(v) /\ run'[v].child = run[v].child
    <3>1. \A j \in Job : /\ ~Pending(w, j)' /\ ~Delivering(w)'
                         /\ Holds(w, j)' => Holds(w, j)
      BY <2>1, <2>3 DEF Pending, Holds, Delivering
    <3>2. QED
      BY <1>1, <1>2, <3>1, OthersKept
  <2>7. \A j \in Job : \A body : Reported(j, body)' => Reported(j, body) \/ (j = k /\ body = b)
    <3>1. ASSUME NEW j \in Job, NEW body, NEW v \in Worker, run'[v].pc = "reporting",
                 run'[v].job = j, run'[v].body = body
          PROVE  Reported(j, body) \/ (j = k /\ body = b)
      <4>1. CASE v # w
        BY <1>1, <1>2, <3>1, <4>1, OthersKept DEF Reported
      <4>2. CASE v = w
        BY <2>1, <3>1, <4>2
      <4>3. QED
        BY <4>1, <4>2
    <3>2. QED
      BY <1>2, <3>1 DEF Reported
  <2>8. \A j \in Job : ClaimAt(j)'
    BY <1>2, <2>5, <2>6, ClaimKept
  <2>9. ASSUME NEW j \in Job, j # k
        PROVE  ReportAt(j)'
    <3>1. \A body : Reported(j, body)' => Reported(j, body)
      BY <2>7, <2>9
    <3>2. QED
      BY <1>2, <2>5, <2>6, <3>1, ReportKept
  <2>10. ReportAt(k)'
    <3>1. /\ exitOf'[k] = exitOf[k] /\ job'[k] = job[k]
          /\ Taken(k)'
      BY <1>2, <2>4, <2>5 DEF Taken
    <3>2. \A v \in Worker : Holds(v, k)' /\ Delivering(v)' => exitOf'[k] = run'[v].child
      BY <2>2, <2>6, <3>1 DEF ReportAt
    <3>3. \A v \in Worker : ~Pending(v, k)'
      BY <2>4, <2>6
    <3>4. \A body : Reported(k, body)' =>
            exitOf'[k] # "alive" /\ (body.exitCode = "zero" => exitOf'[k] = "zero")
      <4>1. \A body : Reported(k, body) =>
              exitOf[k] # "alive" /\ (body.exitCode = "zero" => exitOf[k] = "zero")
        BY <2>2 DEF ReportAt
      <4>2. QED
        BY <2>4, <2>7, <3>1, <4>1 DEF Exits
    <3>5. exitOf'[k] # "alive" /\ (job'[k].status = "succeeded" => exitOf'[k] = "zero")
      BY <2>2, <2>4, <3>1 DEF ReportAt, Exits
    <3>6. QED
      BY <3>1, <3>2, <3>3, <3>4, <3>5 DEF ReportAt
  <2>11. \A v \in Worker : v # w => GoneAt(v)'
    BY <1>1, <1>2, <2>5, GoneKept, OthersKept
  <2>12. GoneAt(w)'
    <3>1. GoneAt(w) /\ call'[w].kind # "job-gone"
      BY <1>2, <1>3, CallsFit DEF RunInv
    <3>2. Owns(w, k)' <=> Owns(w, k)
      BY <2>5 DEF Owns
    <3>3. QED
      BY <2>1, <3>1, <3>2 DEF GoneAt
  <2>13. QED
    BY <2>8, <2>9, <2>10, <2>11, <2>12
<1>6. QED
  BY <1>1, <1>4, <1>5 DEF Drained, AfterRun

\* The exit of a process, of which nothing was reported yet.
LEMMA ChildExitKeeps ==
  ASSUME RunInv, [RunnerNext]_allVars, NEW w \in Worker, NEW exit \in Exits,
         ChildExit(w, exit)
  PROVE  /\ \A j \in Job : ClaimAt(j)' /\ ReportAt(j)'
         /\ \A v \in Worker : GoneAt(v)'
<1>1. /\ ShapeInv /\ TypeOK /\ run[w] \in RunState /\ ShapeAt(w)
      /\ run \in [Worker -> RunState] /\ exitOf \in [Job -> ExitState]
  BY DEF RunInv, ShapeInv, RunnerTypeOK
<1>2. OnlyAt(w) /\ late' = late /\ call' = call /\ UNCHANGED <<queueVars, spawns>>
  <2>1. call \in [Worker -> CallState]
    BY DEF RunInv, ShapeInv, RunnerTypeOK
  <2>2. QED
    BY <1>1, <2>1 DEF ChildExit, OnlyAt
<1>3. run[w].pc = "running" /\ run[w].child = "alive" /\ run[w].job \in Job
  BY <1>1 DEF ChildExit, ShapeAt, Busy
<1> PICK k \in Job : k = run[w].job
  BY <1>3
<1>4. /\ run'[w].pc = "draining" /\ run'[w].child = exit /\ run'[w].job = k
      /\ run'[w].term = run[w].term
      /\ run'[w].unauthenticated = run[w].unauthenticated
      /\ exitOf' = [exitOf EXCEPT ![k] = exit]
  BY <1>1 DEF ChildExit, RunState
<1>5. \A j \in Job : ClaimAt(j) /\ ReportAt(j)
  BY DEF RunInv
<1>6. Holds(w, k) /\ Delivering(w)
  BY <1>3 DEF Holds, Busy, Delivering
<1>7. exitOf[k] = "alive"
  BY <1>3, <1>5, <1>6 DEF ReportAt
<1>8. /\ Taken(k) /\ job[k].worker = w
      /\ \A v \in Worker : v # w => ~Holds(v, k)
      /\ \A v \in Worker : ~Pending(v, k)
      /\ \A body : ~Reported(k, body)
      /\ job[k].status # "succeeded"
  BY <1>5, <1>6, <1>7 DEF ClaimAt, ReportAt
<1>9. \A j \in Job : CalmStep(j) /\ RowStep(j) /\ job'[j] = job[j]
  BY <1>2 DEF CalmStep, RowStep, Untouched, queueVars
<1>10. \A j \in Job : ~Pending(w, j)' /\ (Holds(w, j)' <=> j = k) /\ (Holds(w, j) <=> j = k)
  BY <1>3, <1>4 DEF Pending, Holds, Busy
<1>11. \A v \in Worker, j \in Job :
         v # w => /\ Pending(v, j)' <=> Pending(v, j)
                  /\ Holds(v, j)' <=> Holds(v, j)
                  /\ Delivering(v)' <=> Delivering(v)
                  /\ run'[v] = run[v]
  BY <1>1, <1>2, OthersKept
<1>12. \A j \in Job : \A body : Reported(j, body)' => Reported(j, body)
  <2>1. ASSUME NEW j \in Job, NEW body, NEW v \in Worker, run'[v].pc = "reporting",
               run'[v].job = j, run'[v].body = body
        PROVE  Reported(j, body)
    BY <1>4, <1>11, <2>1 DEF Reported
  <2>2. QED
    BY <1>2, <2>1 DEF Reported
<1>13. ASSUME NEW j \in Job
       PROVE  ClaimAt(j)'
  <2>1. exitOf'[j] = "none" <=> exitOf[j] = "none"
    BY <1>1, <1>4, <1>7 DEF Exits
  <2>2. \A v \in Worker : (Pending(v, j)' => Pending(v, j)) /\ (Holds(v, j)' => Holds(v, j))
    BY <1>10, <1>11
  <2>3. QED
    BY <1>2, <1>9, <2>1, <2>2, ClaimKept
<1>14. ASSUME NEW j \in Job, j # k
       PROVE  ReportAt(j)'
  <2>1. exitOf'[j] = exitOf[j]
    BY <1>1, <1>4, <1>14
  <2>2. \A v \in Worker : /\ Pending(v, j)' => Pending(v, j)
                          /\ Holds(v, j)' /\ Delivering(v)' =>
                               Holds(v, j) /\ Delivering(v) /\ run'[v].child = run[v].child
    BY <1>10, <1>11, <1>14
  <2>3. QED
    BY <1>9, <1>12, <2>1, <2>2, ReportKept
<1>15. ReportAt(k)'
  <2>1. exitOf'[k] = exit /\ exit # "alive" /\ job'[k].status # "succeeded"
    BY <1>1, <1>4, <1>8, <1>9 DEF Exits
  <2>2. \A v \in Worker : Holds(v, k)' => v = w
    BY <1>8, <1>11
  <2>3. \A v \in Worker : Holds(v, k)' /\ Delivering(v)' => exitOf'[k] = run'[v].child
    BY <1>4, <2>1, <2>2
  <2>4. \A v \in Worker : ~Pending(v, k)'
    BY <1>8, <1>10, <1>11
  <2>5. \A body : ~Reported(k, body)'
    BY <1>8, <1>12
  <2>6. QED
    BY <2>1, <2>3, <2>4, <2>5 DEF ReportAt
<1>16. \A v \in Worker : v # w => GoneAt(v)'
  BY <1>1, <1>2, <1>9, GoneKept, OthersKept
<1>17. GoneAt(w)'
  <2>1. GoneAt(w) /\ call'[w] = call[w] /\ (Owns(w, k)' <=> Owns(w, k))
    BY <1>2, <1>9 DEF RunInv, Owns
  <2>2. QED
    BY <1>4, <1>6, <2>1 DEF GoneAt
<1>18. QED
  BY <1>13, <1>14, <1>15, <1>16, <1>17

LEMMA NextRunInv ==
  ASSUME RunInv, [RunnerNext]_allVars
  PROVE  RunInv'
<1> DEFINE Kept == /\ \A j \in Job : ClaimAt(j)' /\ ReportAt(j)'
                   /\ \A v \in Worker : GoneAt(v)'
<1>1. ShapeInv /\ TypeOK /\ ShapeInv'
  BY NextShapeInv DEF RunInv, ShapeInv
<1>2. ASSUME ClientNext \/ TimeNext \/ UNCHANGED queueVars, UNCHANGED runnerVars
      PROVE  Kept
  <2>1. \A j \in Job : RowsBy(j)
    BY <1>1, <1>2, CalmRowSteps DEF CalmNext, RowsBy
  <2>2. QED
    BY <1>2, <2>1, QueueKeeps DEF runnerVars
<1>3. ASSUME NEW r \in late, ServeLate(r)
      PROVE  Kept
  <2>1. r \in Request /\ Handle(r)
    BY <1>1, <1>3 DEF ShapeInv, RunnerTypeOK, ServeLate
  <2>2. r.op = "exit" => Reported(r.job, r.body)
    BY DEF Reported
  <2>3. \A j \in Job : RowsBy(j)
    BY <1>1, <2>1, <2>2, HandleRowsBy
  <2>4. QED
    BY <1>3, <2>3, QueueKeeps DEF ServeLate
<1>4. ASSUME NEW w \in Worker, CallStep(w)
      PROVE  Kept
  <2>1. CASE ~Serve(w) /\ ~TakeClaim(w)
    BY <1>1, <1>4, <2>1, QuietCalls, CallShape, QuietKeeps
  <2>2. QED
    BY <2>1, ServeKeeps, TakeClaimKeeps
<1>5. ASSUME NEW w \in Worker, RunStep(w)
      PROVE  Kept
  <2>1. CASE ~Drained(w) /\ \A exit \in Exits : ~ChildExit(w, exit)
    BY <1>1, <1>5, <2>1, QuietRuns, RunShape, QuietKeeps
  <2>2. QED
    BY <2>1, DrainedKeeps, ChildExitKeeps
<1>6. ASSUME NEW w \in Worker, ProcessStep(w)
      PROVE  Kept
  BY <1>1, <1>6, QuietProcess, ProcessShape, QuietKeeps
<1>7. Kept
  BY <1>2, <1>3, <1>4, <1>5, <1>6 DEF RunnerNext, allVars
<1>8. QED
  BY <1>1, <1>7 DEF RunInv

LEMMA InitRunInv == RunnerInit => RunInv
<1>1. SUFFICES ASSUME RunnerInit PROVE RunInv
  OBVIOUS
<1>2. ShapeInv
  BY <1>1, InitShapeInv
<1>3. /\ \A w \in Worker : run[w] = Stopped /\ call[w] = NoCall
      /\ \A j \in Job : spawns[j] = 0 /\ exitOf[j] = "none" /\ job[j].status = "absent"
      /\ late = {}
  BY <1>1 DEF RunnerInit, QueueInit, EmptyRow
<1>4. \A w \in Worker, j \in Job : ~Pending(w, j) /\ ~Holds(w, j)
  BY <1>3, IdleFits DEF Pending, Holds, Busy
<1>5. \A j \in Job : \A body : ~Reported(j, body)
  BY <1>3, IdleFits DEF Reported
<1>6. \A j \in Job : ClaimAt(j) /\ ReportAt(j)
  BY <1>3, <1>4, <1>5 DEF ClaimAt, ReportAt
<1>7. \A w \in Worker : GoneAt(w)
  BY <1>3, IdleFits, CallsFit DEF GoneAt
<1>8. QED
  BY <1>2, <1>6, <1>7 DEF RunInv

LEMMA RunnerRunInv == RunnerSpec => []RunInv
BY InitRunInv, NextRunInv, PTL DEF RunnerSpec

\* A command is spawned once at most, whatever is lost, delayed, retried or
\* restarted: a claimed job belongs to one worker, which never changes, and that
\* worker has spawned nothing for it while the claim is unanswered (worker.ts,
\* claimLoop; sqlite-jobs.ts, claim).
THEOREM CommandsRunOnce == RunnerSpec => []SpawnedAtMostOnce
<1>1. RunInv => SpawnedAtMostOnce
  BY DEF RunInv, ClaimAt, SpawnedAtMostOnce
<1>2. QED
  BY <1>1, RunnerRunInv, PTL

\* What a client reads of a job is what happened to its process, late and
\* duplicated reports included: a report is made after the exit it is about, and
\* an outcome nobody reported is a loss (runner.ts; sqlite-jobs.ts, complete).
THEOREM ReportsAreTrue == RunnerSpec => []ReportedOutcomeIsTrue
<1>1. ASSUME RunInv, NEW j \in Job
      PROVE  /\ job[j].status = "succeeded" => exitOf[j] = "zero"
             /\ job[j].status \in Terminal /\ job[j].worker # NoWorker
                  /\ job[j].errorCode # "WORKER_LOST" => exitOf[j] # "alive"
  <2>1. ReportAt(j) /\ "running" \notin Terminal
    BY <1>1 DEF RunInv, Terminal
  <2>2. QED
    BY <2>1 DEF ReportAt, RunningOrLost
<1>2. RunInv => ReportedOutcomeIsTrue
  BY <1>1 DEF ReportedOutcomeIsTrue
<1>3. QED
  BY <1>2, RunnerRunInv, PTL

\* A worker never kills a process as "gone" that the server still counts on,
\* however old the answer it acts upon: JOB_NOT_FOUND is never taken back
\* (runner.ts, sendOutput).
THEOREM GoneStaysGone == RunnerSpec => []GoneIsFinal
<1>1. RunInv => GoneIsFinal
  BY DEF RunInv, GoneAt, GoneIsFinal
<1>2. QED
  BY <1>1, RunnerRunInv, PTL

----------------------------------------------------------------------------
\* What became of the output of a process: the first batches it printed are
\* stored and the others are in the queue of its worker, both in order.

Kept(p, k, log) ==
  \E f \in [1 .. k -> 1 .. Len(log)] :
    /\ \A i \in 1 .. k : log[f[i]].batch = p[i]
    /\ \A i, h \in 1 .. k : i < h => f[i] < f[h]

Waiting(p, k, q) ==
  \E g \in [k + 1 .. Len(p) -> 1 .. Len(q)] :
    /\ \A i \in k + 1 .. Len(p) : q[g[i]] = <<p[i]>>
    /\ \A i, h \in k + 1 .. Len(p) : i < h => g[i] < g[h]

\* q2 holds q, d places further on.
Covers(q2, q, d) ==
  /\ Len(q) + d <= Len(q2)
  /\ \A i \in 1 .. Len(q) : q2[i + d] = q[i]

\* One more than s, at its end.
Longer(s2, s, x) == Covers(s2, s, 0) /\ Len(s2) = Len(s) + 1 /\ s2[Len(s) + 1] = x

LEMMA NothingKept ==
  ASSUME NEW p, NEW log, Len(log) \in Nat
  PROVE  Kept(p, 0, log)
<1> DEFINE f == [i \in 1 .. 0 |-> 1]
<1>1. 1 .. 0 = {}
  OBVIOUS
<1>2. f \in [1 .. 0 -> 1 .. Len(log)]
  BY <1>1
<1>3. QED
  BY <1>1, <1>2 DEF Kept

LEMMA NothingWaits ==
  ASSUME NEW p, NEW q, Len(p) \in Nat, Len(q) \in Nat
  PROVE  Waiting(p, Len(p), q)
<1> DEFINE n == Len(p) + 1
           g == [i \in n .. Len(p) |-> 1]
<1>1. n .. Len(p) = {}
  OBVIOUS
<1>2. g \in [n .. Len(p) -> 1 .. Len(q)]
  BY <1>1
<1>3. QED
  BY <1>1, <1>2 DEF Waiting

\* An empty queue: everything is stored.
LEMMA NothingLeft ==
  ASSUME NEW p, NEW q, NEW k \in 0 .. Len(p), Len(p) \in Nat, Len(q) = 0,
         Waiting(p, k, q)
  PROVE  k = Len(p)
<1>1. SUFFICES ASSUME k < Len(p) PROVE FALSE
  OBVIOUS
<1>2. PICK g \in [k + 1 .. Len(p) -> 1 .. Len(q)] : TRUE
  BY DEF Waiting
<1>3. k + 1 \in k + 1 .. Len(p)
  BY <1>1
<1>4. g[k + 1] \in 1 .. Len(q)
  BY <1>2, <1>3
<1>5. QED
  BY <1>4

LEMMA KeptLonger ==
  ASSUME NEW p, NEW p2, NEW k \in Nat, NEW log, NEW log2,
         Len(log) \in Nat, Len(log2) \in Nat,
         Covers(log2, log, 0), \A i \in 1 .. k : p2[i] = p[i], Kept(p, k, log)
  PROVE  Kept(p2, k, log2)
<1>1. PICK f \in [1 .. k -> 1 .. Len(log)] :
        /\ \A i \in 1 .. k : log[f[i]].batch = p[i]
        /\ \A i, h \in 1 .. k : i < h => f[i] < f[h]
  BY DEF Kept
<1>2. \A n \in 1 .. Len(log) : n \in 1 .. Len(log2) /\ log2[n] = log[n]
  BY DEF Covers
<1>3. f \in [1 .. k -> 1 .. Len(log2)]
  BY <1>2
<1>4. \A i \in 1 .. k : log2[f[i]].batch = p2[i]
  BY <1>1, <1>2
<1>5. QED
  BY <1>1, <1>3, <1>4 DEF Kept

LEMMA KeptNext ==
  ASSUME NEW p, NEW k \in Nat, NEW log, NEW log2, NEW x,
         Len(log) \in Nat, Len(log2) \in Nat,
         Longer(log2, log, x), x.batch = p[k + 1], Kept(p, k, log)
  PROVE  Kept(p, k + 1, log2)
<1>1. PICK f \in [1 .. k -> 1 .. Len(log)] :
        /\ \A i \in 1 .. k : log[f[i]].batch = p[i]
        /\ \A i, h \in 1 .. k : i < h => f[i] < f[h]
  BY DEF Kept
<1> DEFINE n  == Len(log) + 1
           f2 == [i \in 1 .. k + 1 |-> IF i <= k THEN f[i] ELSE n]
<1>2. /\ \A i \in 1 .. Len(log) : log2[i] = log[i]
      /\ Len(log2) = n /\ log2[n] = x
  BY DEF Longer, Covers
<1>3. \A i \in 1 .. k : f2[i] = f[i] /\ f2[i] \in 1 .. Len(log)
  OBVIOUS
<1>4. f2[k + 1] = n
  OBVIOUS
<1>5. f2 \in [1 .. k + 1 -> 1 .. Len(log2)]
  <2>1. \A i \in 1 .. k + 1 : (IF i <= k THEN f[i] ELSE n) \in 1 .. Len(log2)
    BY <1>2
  <2>2. QED
    BY <2>1
<1> HIDE DEF f2
<1>6. \A i \in 1 .. k + 1 : log2[f2[i]].batch = p[i]
  <2>1. SUFFICES ASSUME NEW i \in 1 .. k + 1 PROVE log2[f2[i]].batch = p[i]
    OBVIOUS
  <2>2. CASE i = k + 1
    BY <1>2, <1>4, <2>2
  <2>3. CASE i # k + 1
    <3>1. i \in 1 .. k
      BY <2>3
    <3>2. QED
      BY <1>1, <1>2, <1>3, <3>1
  <2>4. QED
    BY <2>2, <2>3
<1>7. \A i, h \in 1 .. k + 1 : i < h => f2[i] < f2[h]
  <2>1. SUFFICES ASSUME NEW i \in 1 .. k + 1, NEW h \in 1 .. k + 1, i < h
                 PROVE  f2[i] < f2[h]
    OBVIOUS
  <2>2. i \in 1 .. k
    BY <2>1
  <2>3. CASE h = k + 1
    BY <1>3, <1>4, <2>2, <2>3
  <2>4. CASE h # k + 1
    <3>1. h \in 1 .. k
      BY <2>4
    <3>2. QED
      BY <1>1, <1>3, <2>1, <2>2, <3>1
  <2>5. QED
    BY <2>3, <2>4
<1>8. QED
  BY <1>5, <1>6, <1>7 DEF Kept

LEMMA WaitingCovered ==
  ASSUME NEW p, NEW k \in Nat, NEW q, NEW q2, NEW d \in Nat,
         Len(p) \in Nat, Len(q) \in Nat, Len(q2) \in Nat,
         Covers(q2, q, d), Waiting(p, k, q)
  PROVE  Waiting(p, k, q2)
<1>1. PICK g \in [k + 1 .. Len(p) -> 1 .. Len(q)] :
        /\ \A i \in k + 1 .. Len(p) : q[g[i]] = <<p[i]>>
        /\ \A i, h \in k + 1 .. Len(p) : i < h => g[i] < g[h]
  BY DEF Waiting
<1> DEFINE g2 == [i \in k + 1 .. Len(p) |-> g[i] + d]
<1>2. \A n \in 1 .. Len(q) : n + d \in 1 .. Len(q2) /\ q2[n + d] = q[n]
  BY DEF Covers
<1>3. g2 \in [k + 1 .. Len(p) -> 1 .. Len(q2)]
  <2>1. \A i \in k + 1 .. Len(p) : g[i] + d \in 1 .. Len(q2)
    BY <1>2
  <2>2. QED
    BY <2>1
<1>4. \A i \in k + 1 .. Len(p) : q2[g2[i]] = <<p[i]>>
  BY <1>1, <1>2
<1>5. \A i, h \in k + 1 .. Len(p) : i < h => g2[i] < g2[h]
  <2>1. SUFFICES ASSUME NEW i \in k + 1 .. Len(p), NEW h \in k + 1 .. Len(p), i < h
                 PROVE  g2[i] < g2[h]
    OBVIOUS
  <2>2. g[i] < g[h] /\ g[i] \in Nat /\ g[h] \in Nat
    BY <1>1, <2>1
  <2>3. g2[i] = g[i] + d /\ g2[h] = g[h] + d
    OBVIOUS
  <2>4. QED
    BY <2>2, <2>3
<1> HIDE DEF g2
<1>6. QED
  BY <1>3, <1>4, <1>5 DEF Waiting

\* A batch that is printed is queued behind the others.
LEMMA WaitingPrinted ==
  ASSUME NEW p, NEW p2, NEW b, NEW k \in 0 .. Len(p), NEW q, NEW q2,
         Len(p) \in Nat, Len(q) \in Nat, Len(q2) \in Nat,
         Longer(p2, p, b), Longer(q2, q, <<b>>), Len(p2) \in Nat, Waiting(p, k, q)
  PROVE  Waiting(p2, k, q2)
<1>1. PICK g \in [k + 1 .. Len(p) -> 1 .. Len(q)] :
        /\ \A i \in k + 1 .. Len(p) : q[g[i]] = <<p[i]>>
        /\ \A i, h \in k + 1 .. Len(p) : i < h => g[i] < g[h]
  BY DEF Waiting
<1> DEFINE m  == Len(p) + 1
           n  == Len(q) + 1
           g2 == [i \in k + 1 .. m |-> IF i = m THEN n ELSE g[i]]
<1>2. /\ Len(p2) = m /\ p2[m] = b /\ \A i \in 1 .. Len(p) : p2[i] = p[i]
      /\ Len(q2) = n /\ q2[n] = <<b>> /\ \A i \in 1 .. Len(q) : q2[i] = q[i]
  BY DEF Longer, Covers
<1>3. /\ g2[m] = n /\ m \in k + 1 .. m /\ k \in Nat
      /\ \A i \in k + 1 .. m : i = m \/ i \in k + 1 .. Len(p)
  OBVIOUS
<1>4. \A i \in k + 1 .. Len(p) : g2[i] = g[i] /\ g[i] \in 1 .. Len(q)
  OBVIOUS
<1>5. g2 \in [k + 1 .. m -> 1 .. n]
  <2>1. \A i \in k + 1 .. m : (IF i = m THEN n ELSE g[i]) \in 1 .. n
    BY <1>3, <1>4
  <2>2. QED
    BY <2>1
<1> HIDE DEF g2
<1>6. \A i \in k + 1 .. m : q2[g2[i]] = <<p2[i]>>
  <2>1. SUFFICES ASSUME NEW i \in k + 1 .. m PROVE q2[g2[i]] = <<p2[i]>>
    OBVIOUS
  <2>2. CASE i = m
    BY <1>2, <1>3, <2>2
  <2>3. CASE i \in k + 1 .. Len(p)
    <3>1. q2[g2[i]] = q[g[i]] /\ p2[i] = p[i]
      BY <1>2, <1>4, <2>3
    <3>2. QED
      BY <1>1, <2>3, <3>1
  <2>4. QED
    BY <1>3, <2>2, <2>3
<1>7. \A i, h \in k + 1 .. m : i < h => g2[i] < g2[h]
  <2>1. SUFFICES ASSUME NEW i \in k + 1 .. m, NEW h \in k + 1 .. m, i < h
                 PROVE  g2[i] < g2[h]
    OBVIOUS
  <2>2. i \in k + 1 .. Len(p)
    BY <2>1
  <2>3. CASE h = m
    BY <1>3, <1>4, <2>2, <2>3
  <2>4. CASE h \in k + 1 .. Len(p)
    BY <1>1, <1>4, <2>1, <2>2, <2>4
  <2>5. QED
    BY <1>3, <2>3, <2>4
<1>8. QED
  BY <1>2, <1>5, <1>6, <1>7 DEF Waiting

\* The head of the queue is the next batch, or nothing of what is to be stored.
LEMMA WaitingServed ==
  ASSUME NEW p, NEW k \in 0 .. Len(p), NEW q, NEW rest,
         Len(p) \in Nat, Len(q) \in Nat, Len(rest) \in Nat,
         Len(q) = Len(rest) + 1, Covers(q, rest, 1), Waiting(p, k, q)
  PROVE  \/ Waiting(p, k, rest)
         \/ k < Len(p) /\ q[1] = <<p[k + 1]>> /\ Waiting(p, k + 1, rest)
<1>1. PICK g \in [k + 1 .. Len(p) -> 1 .. Len(q)] :
        /\ \A i \in k + 1 .. Len(p) : q[g[i]] = <<p[i]>>
        /\ \A i, h \in k + 1 .. Len(p) : i < h => g[i] < g[h]
  BY DEF Waiting
<1>2. \A n \in 2 .. Len(q) : n - 1 \in 1 .. Len(rest) /\ rest[n - 1] = q[n]
  BY DEF Covers
<1>3. ASSUME NEW from \in {k, k + 1}, \A i \in from + 1 .. Len(p) : g[i] > 1
      PROVE  Waiting(p, from, rest)
  <2> DEFINE g2 == [i \in from + 1 .. Len(p) |-> g[i] - 1]
  <2>1. \A i \in from + 1 .. Len(p) : i \in k + 1 .. Len(p) /\ g[i] \in 2 .. Len(q)
    BY <1>3
  <2>2. g2 \in [from + 1 .. Len(p) -> 1 .. Len(rest)]
    <3>1. \A i \in from + 1 .. Len(p) : g[i] - 1 \in 1 .. Len(rest)
      BY <1>2, <2>1
    <3>2. QED
      BY <3>1
  <2>3. \A i \in from + 1 .. Len(p) : rest[g2[i]] = <<p[i]>>
    BY <1>1, <1>2, <2>1
  <2>4. \A i, h \in from + 1 .. Len(p) : i < h => g2[i] < g2[h]
    <3>1. SUFFICES ASSUME NEW i \in from + 1 .. Len(p), NEW h \in from + 1 .. Len(p), i < h
                   PROVE  g2[i] < g2[h]
      OBVIOUS
    <3>2. g[i] < g[h] /\ g[i] \in Nat /\ g[h] \in Nat
      BY <1>1, <2>1, <3>1
    <3>3. g2[i] = g[i] - 1 /\ g2[h] = g[h] - 1
      OBVIOUS
    <3>4. QED
      BY <3>2, <3>3
  <2> HIDE DEF g2
  <2>5. QED
    BY <2>2, <2>3, <2>4 DEF Waiting
<1>4. CASE k = Len(p)
  BY <1>3, <1>4
<1>5. CASE k < Len(p)
  <2>1. /\ k + 1 \in k + 1 .. Len(p) /\ g[k + 1] \in 1 .. Len(q)
        /\ \A i \in k + 2 .. Len(p) : g[k + 1] < g[i]
    BY <1>1, <1>5
  <2>2. CASE g[k + 1] > 1
    <3>1. \A i \in k + 1 .. Len(p) : g[i] > 1
      <4>1. SUFFICES ASSUME NEW i \in k + 1 .. Len(p) PROVE g[i] > 1
        OBVIOUS
      <4>2. i = k + 1 \/ i \in k + 2 .. Len(p)
        OBVIOUS
      <4>3. g[i] \in 1 .. Len(q)
        OBVIOUS
      <4>4. QED
        BY <2>1, <2>2, <4>2, <4>3
    <3>2. QED
      BY <1>3, <3>1
  <2>3. CASE g[k + 1] = 1
    <3>1. \A i \in (k + 1) + 1 .. Len(p) : g[i] > 1
      BY <2>1, <2>3
    <3>2. Waiting(p, k + 1, rest)
      BY <1>3, <3>1
    <3>3. q[1] = <<p[k + 1]>>
      BY <1>1, <2>1, <2>3
    <3>4. QED
      BY <1>5, <3>2, <3>3
  <2>4. QED
    BY <2>1, <2>2, <2>3
<1>6. QED
  BY <1>4, <1>5

----------------------------------------------------------------------------
\* The output of one job.  Its worker has not given anything up, and the job
\* is running with room left: then what is not stored is still queued, less the
\* head of the queue if its answer is on the way.

Open(j)  == job[j].status = "running" /\ ~job[j].truncated
Sound(j) == job[j].status \in Terminal /\ ~job[j].errorMessage /\ ~job[j].truncated
Told(j)  == Kept(printed[j], Len(printed[j]), output[j])

RestOf(r, c) == IF c.kind = "ok" THEN Tail(r.queue) ELSE r.queue
Rest(w)      == RestOf(run[w], call[w])

Entrusted(w, j) ==
  /\ Holds(w, j) /\ Delivering(w)
  /\ run[w].lost = FALSE /\ run[w].unauthenticated = FALSE
  /\ Open(j)

Underway(w, j) ==
  \E k \in 0 .. Len(printed[j]) :
    Kept(printed[j], k, output[j]) /\ Waiting(printed[j], k, Rest(w))

PrintAt(j) ==
  /\ exitOf[j] = "none" => printed[j] = <<>>
  /\ \A w \in Worker : Entrusted(w, j) => Underway(w, j)
  /\ \A body : Reported(j, body) /\ ~body.errorMessage /\ Open(j) => Told(j)
  /\ Sound(j) => job[j].errorCode # "WORKER_LOST" /\ Told(j)

LossInv == RunInv /\ \A j \in Job : PrintAt(j)

LEMMA RestFits ==
  ASSUME NEW r \in RunState, NEW c, c.kind = "ok" => r.queue # <<>>
  PROVE  RestOf(r, c) \in Seq(Posts) /\ Len(RestOf(r, c)) \in Nat
<1>1. r.queue \in Seq(Posts)
  BY DEF RunState
<1>2. r.queue # <<>> => Tail(r.queue) \in Seq(Posts)
  BY <1>1
<1>3. RestOf(r, c) \in Seq(Posts)
  BY <1>1, <1>2 DEF RestOf
<1>4. QED
  BY <1>3

LEMMA RestIsSeq ==
  ASSUME ShapeInv, NEW w \in Worker, Delivering(w)
  PROVE  Rest(w) \in Seq(Posts) /\ Len(Rest(w)) \in Nat
<1>1. run[w] \in RunState /\ ShapeAt(w)
  BY DEF ShapeInv, RunnerTypeOK
<1>2. call[w].kind = "ok" => run[w].queue # <<>>
  BY <1>1, CallsFit DEF ShapeAt
<1>3. QED
  BY <1>1, <1>2, RestFits DEF Rest

LEMMA NextRestIsSeq ==
  ASSUME ShapeInv', NEW w \in Worker, Delivering(w)'
  PROVE  Len(Rest(w)') \in Nat
<1>1. run'[w] \in RunState /\ ShapeAt(w)'
  BY DEF ShapeInv, RunnerTypeOK
<1>2. call'[w].kind = "ok" => run'[w].queue # <<>>
  BY <1>1, CallsFit DEF ShapeAt
<1>3. Len(RestOf(run'[w], call'[w])) \in Nat
  BY <1>1, <1>2, RestFits
<1>4. QED
  BY <1>3 DEF Rest

LEMMA SameCovers ==
  ASSUME NEW s, Len(s) \in Nat
  PROVE  Covers(s, s, 0)
BY DEF Covers

LEMMA AppendIsLonger ==
  ASSUME NEW E, NEW s \in Seq(E), NEW x \in E
  PROVE  Longer(Append(s, x), s, x) /\ Append(s, x) \in Seq(E)
BY DEF Longer, Covers

LEMMA TailIsCovered ==
  ASSUME NEW E, NEW s \in Seq(E), s # <<>>
  PROVE  Covers(s, Tail(s), 1) /\ Len(s) = Len(Tail(s)) + 1 /\ Tail(s) \in Seq(E)
BY DEF Covers

\* What is put at the end of the queue is at the end of what is to be delivered.
LEMMA RestLonger ==
  ASSUME NEW q \in Seq(Posts), NEW x \in Posts, NEW r, NEW r2, NEW c,
         r.queue = q, r2.queue = Append(q, x), c.kind = "ok" => q # <<>>
  PROVE  Longer(RestOf(r2, c), RestOf(r, c), x)
<1>1. CASE c.kind = "ok"
  <2>1. RestOf(r2, c) = Tail(Append(q, x)) /\ RestOf(r, c) = Tail(q)
    BY <1>1 DEF RestOf
  <2>2. Longer(Tail(Append(q, x)), Tail(q), x)
    BY <1>1 DEF Longer, Covers
  <2>3. QED
    BY <2>1, <2>2
<1>2. CASE c.kind # "ok"
  <2>1. RestOf(r2, c) = Append(q, x) /\ RestOf(r, c) = q
    BY <1>2 DEF RestOf
  <2>2. QED
    BY <2>1, AppendIsLonger
<1>3. QED
  BY <1>1, <1>2

----------------------------------------------------------------------------
\* What a step of the queue does to the output of a job.

LEMMA OutputGrows ==
  ASSUME TypeOK, NEW j \in Job, RowStep(j)
  PROVE  /\ Covers(output'[j], output[j], 0)
         /\ Len(output[j]) \in Nat /\ Len(output'[j]) \in Nat
<1>1. output[j] \in Seq([batch: Batch, size: Nat]) /\ job[j] \in JobRow
  BY DEF TypeOK
<1>2. CASE output'[j] = output[j]
  BY <1>1, <1>2, SameCovers
<1>3. ASSUME NEW post \in Posts, output'[j] = AppendLog(output[j], job[j], post)
      PROVE  /\ Covers(output'[j], output[j], 0)
             /\ Len(output[j]) \in Nat /\ Len(output'[j]) \in Nat
  <2>1. CASE output'[j] = output[j]
    BY <1>1, <2>1, SameCovers
  <2>2. CASE output'[j] # output[j]
    <3> DEFINE x == [batch |-> post[1], size |-> Stored(job[j], post[1])]
    <3>1. output'[j] = Append(output[j], x) /\ post # <<>>
      BY <1>3, <2>2 DEF AppendLog
    <3>2. post[1] \in Batch
      BY <3>1 DEF Posts
    <3>3. x \in [batch: Batch, size: Nat]
      BY <1>1, <3>2, StoredType
    <3> HIDE DEF x
    <3>4. /\ Longer(Append(output[j], x), output[j], x)
          /\ Append(output[j], x) \in Seq([batch: Batch, size: Nat])
      BY <1>1, <3>3, AppendIsLonger
    <3>5. Covers(output'[j], output[j], 0)
      BY <3>1, <3>4 DEF Longer
    <3>6. Len(output[j]) \in Nat /\ Len(output'[j]) \in Nat
      BY <1>1, <3>1, <3>4
    <3>7. QED
      BY <3>5, <3>6
  <2>3. QED
    BY <2>1, <2>2
<1>4. QED
  BY <1>2, <1>3
     DEF RowStep, CalmStep, Untouched, Submitted, CancelRequested, Reaped, Denied,
         Granted, Appended, Completed, Aged

\* A batch that is stored whole is the newest row of the log.
LEMMA BatchStored ==
  ASSUME TypeOK, NEW j \in Job, NEW b \in Batch, ~job'[j].truncated,
         job'[j] = AppendRow(job[j], <<b>>),
         output'[j] = AppendLog(output[j], job[j], <<b>>)
  PROVE  \E x : Longer(output'[j], output[j], x) /\ x.batch = b
<1>1. output[j] \in Seq([batch: Batch, size: Nat]) /\ job[j] \in JobRow
  BY DEF TypeOK
<1>2. <<b>>[1] = b /\ <<b>> # <<>> /\ Size[b] \in Nat \ {0}
  BY SizeAssumption
<1>3. ~job[j].truncated
  BY <1>1, <1>2 DEF AppendRow, JobRow
<1>4. ~(Size[b] > Room(job[j]))
  <2> DEFINE renewed == [job[j] EXCEPT !.lease = LeaseTicks]
  <2>1. renewed \in JobRow
    BY <1>1, FullLease DEF JobRow
  <2>2. job'[j] = [renewed EXCEPT !.bytes = @ + Stored(job[j], b),
                                  !.truncated = Size[b] > Room(job[j])]
    BY <1>2, <1>3 DEF AppendRow
  <2> HIDE DEF renewed
  <2>3. job'[j].truncated = (Size[b] > Room(job[j]))
    BY <2>1, <2>2 DEF JobRow
  <2>4. QED
    BY <2>3
<1>5. Room(job[j]) \in Nat
  BY <1>1, LimitAssumption DEF Room, JobRow
<1>6. Stored(job[j], b) = Size[b]
  BY <1>2, <1>4, <1>5 DEF Stored
<1> DEFINE x == [batch |-> b, size |-> Size[b]]
<1>7. output'[j] = Append(output[j], x)
  BY <1>2, <1>3, <1>6 DEF AppendLog
<1>8. x \in [batch: Batch, size: Nat] /\ x.batch = b
  BY <1>2
<1> HIDE DEF x
<1>9. QED
  BY <1>1, <1>7, <1>8, AppendIsLonger

LEMMA OpenBefore ==
  ASSUME TypeOK, NEW j \in Job, RowStep(j), Taken(j), Open(j)'
  PROVE  Open(j)
<1>1. job[j] \in JobRow
  BY DEF TypeOK
<1>2. CASE Untouched(j) \/ Submitted(j) \/ CancelRequested(j) \/ Aged(j)
  BY <1>1, <1>2
     DEF Untouched, Submitted, CancelRequested, CancelRow, Finish, Aged, Taken, Open, JobRow
<1>3. CASE Reaped(j) \/ Denied(j) \/ Granted(j)
  BY <1>1, <1>3
     DEF Reaped, Expired, Denied, Granted, WorkerLost, Refused, Finish, Taken, Open, JobRow
<1>4. CASE Appended(j)
  BY <1>1, <1>4 DEF Appended, AppendRow, Open, JobRow
<1>5. CASE Completed(j)
  BY <1>1, <1>5 DEF Completed, OutcomeOf, Finish, Open, JobRow
<1>6. QED
  BY <1>2, <1>3, <1>4, <1>5 DEF RowStep, CalmStep

\* No step but a report ends a job without a message.
LEMMA CalmSound ==
  ASSUME TypeOK, NEW j \in Job, CalmStep(j), Sound(j)'
  PROVE  Sound(j) /\ job'[j].errorCode = job[j].errorCode
<1>1. job[j] \in JobRow
  BY DEF TypeOK
<1>2. CASE Untouched(j) \/ Submitted(j) \/ CancelRequested(j) \/ Aged(j)
  BY <1>1, <1>2
     DEF Untouched, Submitted, CancelRequested, CancelRow, Finish, Aged, Sound, Terminal,
         JobRow
<1>3. CASE Reaped(j) \/ Denied(j) \/ Granted(j)
  BY <1>1, <1>3
     DEF Reaped, Expired, Denied, Granted, Claimed, WorkerLost, Refused, Finish, Sound,
         Terminal, JobRow
<1>4. CASE Appended(j)
  BY <1>1, <1>4 DEF Appended, AppendRow, Sound, Terminal, JobRow
<1>5. QED
  BY <1>2, <1>3, <1>4 DEF CalmStep

LEMMA ReportedFits ==
  ASSUME ShapeInv, NEW j, NEW body, Reported(j, body)
  PROVE  body \in FinishBody
<1>1. ASSUME NEW r \in late, r.op = "exit", r.body = body
      PROVE  body \in FinishBody
  BY <1>1, ReportsFit DEF ShapeInv, RunnerTypeOK, Request
<1>2. ASSUME NEW w \in Worker, run[w].pc = "reporting", run[w].body = body
      PROVE  body \in FinishBody
  BY <1>2 DEF ShapeInv, RunnerTypeOK, RunState
<1>3. QED
  BY <1>1, <1>2 DEF Reported

\* Nothing but an answer, a loss and the end of the run takes anything from what
\* is to be delivered.
Feeds(w) ==
  Delivering(w)' /\ run'[w].lost = FALSE /\ run'[w].unauthenticated = FALSE =>
    /\ Delivering(w) /\ run'[w].job = run[w].job
    /\ \/ /\ run[w].lost = FALSE /\ run[w].unauthenticated = FALSE
          /\ \E d \in Nat : Covers(Rest(w)', Rest(w), d)
       \/ call[w].kind = "job-gone"

LEMMA FeedsSame ==
  ASSUME ShapeInv, NEW w \in Worker, run'[w].job = run[w].job,
         Delivering(w)' => Delivering(w),
         run'[w].lost = run[w].lost \/ run'[w].lost = TRUE,
         run'[w].unauthenticated = run[w].unauthenticated \/ run'[w].unauthenticated = TRUE,
         run'[w].queue = run[w].queue, call'[w].kind # "ok"
  PROVE  Feeds(w)
<1>1. SUFFICES ASSUME Delivering(w) PROVE \E d \in Nat : Covers(Rest(w)', Rest(w), d)
  BY DEF Feeds
<1>2. run[w] \in RunState /\ ShapeAt(w) /\ run[w].queue \in Seq(Posts)
  BY DEF ShapeInv, RunnerTypeOK, RunState
<1>3. Rest(w)' = run[w].queue
  BY DEF Rest, RestOf
<1>4. CASE call[w].kind = "ok"
  <2>1. run[w].queue # <<>>
    BY <1>1, <1>2, <1>4, CallsFit DEF ShapeAt
  <2>2. Rest(w) = Tail(run[w].queue)
    BY <1>4 DEF Rest, RestOf
  <2>3. Covers(run[w].queue, Tail(run[w].queue), 1)
    BY <1>2, <2>1, TailIsCovered
  <2>4. QED
    BY <1>3, <2>2, <2>3
<1>5. CASE call[w].kind # "ok"
  <2>1. Rest(w) = run[w].queue
    BY <1>5 DEF Rest, RestOf
  <2>2. Covers(run[w].queue, run[w].queue, 0)
    BY <1>2, SameCovers
  <2>3. QED
    BY <1>3, <2>1, <2>2
<1>6. QED
  BY <1>4, <1>5

LEMMA FeedsOn ==
  ASSUME ShapeInv, NEW w \in Worker, run'[w].job = run[w].job,
         Delivering(w)' => Delivering(w),
         run'[w].lost = run[w].lost \/ run'[w].lost = TRUE,
         run'[w].unauthenticated = run[w].unauthenticated \/ run'[w].unauthenticated = TRUE,
         run'[w].queue = run[w].queue, call'[w] = call[w]
  PROVE  Feeds(w)
<1>1. SUFFICES ASSUME Delivering(w) PROVE \E d \in Nat : Covers(Rest(w)', Rest(w), d)
  BY DEF Feeds
<1>2. Rest(w)' = Rest(w) /\ Len(Rest(w)) \in Nat
  BY <1>1, RestIsSeq DEF Rest, RestOf
<1>3. QED
  BY <1>2, SameCovers

LEMMA FeedsNoMore ==
  ASSUME NEW w \in Worker, ~Delivering(w)' \/ run'[w].lost = TRUE
                           \/ run'[w].unauthenticated = TRUE
  PROVE  Feeds(w)
BY DEF Feeds

LEMMA TerminateKeepsFlags ==
  ASSUME NEW r \in RunState, NEW reason \in Termination
  PROVE  LET s == Terminate(r, reason)
         IN  s.lost = r.lost /\ s.queue = r.queue
BY DEF Terminate, RunState

LEMMA DequeueTakesHead ==
  ASSUME NEW r \in RunState, r.queue # <<>>
  PROVE  LET s == Dequeue(r)
         IN  s.queue = Tail(r.queue) /\ s.lost = r.lost
<1>1. r.queue \in Seq(Posts)
  BY DEF RunState
<1>2. Tail(r.queue) \in Seq(Posts)
  BY <1>1
<1>3. QED
  BY <1>2 DEF Dequeue, RunState

\* Every answer but "ok" and "job-gone" leaves its mark.
LEMMA HeardMarks ==
  ASSUME NEW r \in RunState, NEW a \in CallState, a.kind \notin {"none", "sent"}
  PROVE  LET s == Heard(r, a)
         IN  \/ /\ a.kind \in {"ok", "job-gone"}
                /\ s.lost = r.lost /\ s.unauthenticated = r.unauthenticated
             \/ a.kind = "rejected" /\ s.lost = TRUE
             \/ a.kind = "unauthenticated" /\ s.unauthenticated = TRUE
<1> DEFINE lost == [r EXCEPT !.lost = TRUE]
           out  == [r EXCEPT !.unauthenticated = TRUE]
<1>1. lost.lost = TRUE /\ out \in RunState /\ out.unauthenticated = TRUE
  BY DEF RunState
<1> HIDE DEF lost, out
<1>2. {"cancel", "gone"} \subseteq Termination
  BY DEF Termination
<1>3. CASE a.kind = "ok" /\ a.cancel
  <2>1. Heard(r, a) = Terminate(r, "cancel")
    BY <1>3 DEF Heard
  <2>2. QED
    BY <1>2, <1>3, <2>1, TerminateFits, TerminateKeepsFlags
<1>4. CASE a.kind = "ok" /\ ~a.cancel
  BY <1>4 DEF Heard
<1>5. CASE a.kind = "job-gone"
  <2>1. Heard(r, a) = Terminate(r, "gone")
    BY <1>5 DEF Heard
  <2>2. QED
    BY <1>2, <1>5, <2>1, TerminateFits, TerminateKeepsFlags
<1>6. CASE a.kind = "rejected"
  <2>1. Heard(r, a) = lost
    BY <1>6 DEF Heard, lost
  <2>2. QED
    BY <1>1, <1>6, <2>1
<1>7. CASE a.kind = "unauthenticated"
  <2>1. Heard(r, a) = Terminate(out, "gone")
    BY <1>7 DEF Heard, out
  <2>2. QED
    BY <1>1, <1>2, <1>7, <2>1, TerminateFits
<1>8. QED
  BY <1>3, <1>4, <1>5, <1>6, <1>7 DEF CallState

LEMMA CallFeeds ==
  ASSUME ShapeInv, NEW w \in Worker, CallStep(w), ~Serve(w), ~TakeClaim(w)
  PROVE  Feeds(w) /\ printed' = printed
<1>1. run[w] \in RunState /\ call[w] \in CallState /\ ShapeAt(w)
  BY DEF ShapeInv, RunnerTypeOK
<1>2. run \in [Worker -> RunState] /\ call \in [Worker -> CallState]
  BY DEF ShapeInv, RunnerTypeOK
<1>3. printed' = printed
  BY DEF CallStep, Send, ClaimAgain, ClaimRefused, OutputAnswered, OutputFailed,
         ExitAnswered, ExitFailed
<1>4. CASE Send(w)
  <2>1. run' = run /\ call'[w].kind # "ok"
    BY <1>2, <1>4, CallsFit DEF Send
  <2>2. Delivering(w)' <=> Delivering(w)
    BY <2>1 DEF Delivering
  <2>3. QED
    BY <1>3, <2>1, <2>2, FeedsSame
<1>5. CASE ClaimAgain(w) \/ ClaimRefused(w)
  <2>1. ~Delivering(w)'
    BY <1>2, <1>5, IdleFits DEF ClaimAgain, ClaimRefused, Delivering
  <2>2. QED
    BY <1>3, <2>1, FeedsNoMore
<1>6. CASE ExitAnswered(w) \/ ExitFailed(w)
  <2>1. run'[w] \in {Idle, Stopped} \/ run'[w] = [run[w] EXCEPT !.tries = run[w].tries + 1]
    BY <1>2, <1>6 DEF ExitAnswered, ExitFailed, AfterRun
  <2>2. ~Delivering(w)'
    BY <1>1, <1>6, <2>1, IdleFits DEF ExitAnswered, ExitFailed, Delivering, RunState
  <2>3. QED
    BY <1>3, <2>2, FeedsNoMore
<1>7. CASE OutputAnswered(w)
  <2>1. run[w].queue # <<>> /\ Delivering(w)
    BY <1>1, <1>7, CallsFit DEF OutputAnswered, Answered, ShapeAt
  <2> DEFINE r == Dequeue(run[w])
  <2>2. /\ r \in RunState /\ r.pc = run[w].pc /\ r.job = run[w].job
        /\ r.unauthenticated = run[w].unauthenticated
        /\ r.queue = Tail(run[w].queue) /\ r.lost = run[w].lost
    BY <1>1, <2>1, DequeueFits, DequeueTakesHead
  <2>3. run'[w] = Heard(r, call[w]) /\ call'[w] = NoCall
    BY <1>2, <1>7 DEF OutputAnswered
  <2>4. call[w].kind \in {"ok", "job-gone", "unauthenticated", "rejected"}
    BY <1>7 DEF OutputAnswered, Answered
  <2> HIDE DEF r
  <2>5. /\ run'[w].pc = r.pc /\ run'[w].job = r.job /\ run'[w].queue = r.queue
    BY <1>1, <2>2, <2>3, HeardFits
  <2>6. \/ /\ call[w].kind \in {"ok", "job-gone"}
           /\ run'[w].lost = r.lost /\ run'[w].unauthenticated = r.unauthenticated
        \/ run'[w].lost = TRUE
        \/ run'[w].unauthenticated = TRUE
    BY <1>1, <2>2, <2>3, <2>4, HeardMarks
  <2>7. CASE run'[w].lost = TRUE \/ run'[w].unauthenticated = TRUE
    BY <1>3, <2>7, FeedsNoMore
  <2>8. CASE /\ call[w].kind = "ok"
             /\ run'[w].lost = r.lost /\ run'[w].unauthenticated = r.unauthenticated
    <3>1. Rest(w) = Tail(run[w].queue)
      BY <2>8 DEF Rest, RestOf
    <3>2. Rest(w)' = Tail(run[w].queue)
      BY <2>2, <2>3, <2>5, CallsFit DEF Rest, RestOf
    <3>3. Covers(Rest(w)', Rest(w), 0)
      BY <2>1, <3>1, <3>2, RestIsSeq, SameCovers
    <3>4. QED
      BY <1>3, <2>1, <2>2, <2>5, <2>8, <3>3 DEF Feeds
  <2>9. CASE call[w].kind = "job-gone"
    BY <1>3, <2>1, <2>2, <2>5, <2>9 DEF Feeds
  <2>10. QED
    BY <2>6, <2>7, <2>8, <2>9
<1>8. CASE OutputFailed(w)
  <2>1. run[w].queue # <<>> /\ Delivering(w) /\ call'[w] = NoCall
    BY <1>1, <1>2, <1>8 DEF OutputFailed, ShapeAt
  <2> DEFINE r == Dequeue(run[w])
  <2>2. r \in RunState
    BY <1>1, <2>1, DequeueFits
  <2>3. \/ run'[w] = [run[w] EXCEPT !.tries = run[w].tries + 1]
        \/ run'[w] = [r EXCEPT !.lost = TRUE]
    BY <1>2, <1>8 DEF OutputFailed
  <2> HIDE DEF r
  <2>4. CASE run'[w] = [run[w] EXCEPT !.tries = run[w].tries + 1]
    <3>1. /\ run'[w].job = run[w].job /\ run'[w].lost = run[w].lost
          /\ run'[w].unauthenticated = run[w].unauthenticated
          /\ run'[w].queue = run[w].queue
      BY <1>1, <2>4 DEF RunState
    <3>2. QED
      BY <1>3, <2>1, <3>1, CallsFit, FeedsSame
  <2>5. CASE run'[w] = [r EXCEPT !.lost = TRUE]
    <3>1. run'[w].lost = TRUE
      BY <2>2, <2>5 DEF RunState
    <3>2. QED
      BY <1>3, <3>1, FeedsNoMore
  <2>6. QED
    BY <2>3, <2>4, <2>5
<1>9. QED
  BY <1>4, <1>5, <1>6, <1>7, <1>8 DEF CallStep

LEMMA RunFeeds ==
  ASSUME ShapeInv, NEW w \in Worker, RunStep(w), printed' = printed
  PROVE  Feeds(w)
<1>1. run[w] \in RunState /\ call[w] \in CallState /\ ShapeAt(w)
  BY DEF ShapeInv, RunnerTypeOK
<1>2. run \in [Worker -> RunState] /\ call \in [Worker -> CallState]
        /\ printed \in [Job -> Seq(Batch)]
  BY DEF ShapeInv, RunnerTypeOK
<1>3. ASSUME NEW b \in Batch, Push(w, b)
      PROVE  Feeds(w)
  <2>1. run[w].job \in Job
    BY <1>1, <1>3 DEF Push, ShapeAt, Busy
  <2>2. printed' # [printed EXCEPT ![run[w].job] = Append(@, b)]
    BY <1>2, <2>1
  <2>3. run' = [run EXCEPT ![w] = Terminate([@ EXCEPT !.lost = TRUE], "output-limit")]
    BY <1>3, <2>2 DEF Push
  <2> DEFINE r == [run[w] EXCEPT !.lost = TRUE]
  <2>4. r \in RunState /\ r.lost = TRUE
    BY <1>1 DEF RunState
  <2>5. run'[w] = Terminate(r, "output-limit")
    BY <1>2, <2>3
  <2> HIDE DEF r
  <2>6. "output-limit" \in Termination
    BY DEF Termination
  <2>7. run'[w].lost = TRUE
    BY <2>4, <2>5, <2>6, TerminateKeepsFlags
  <2>8. QED
    BY <2>7, FeedsNoMore
<1>4. CASE Heartbeat(w)
  <2>1. run[w].queue \in Seq(Posts) /\ <<>> \in Posts
    BY <1>1 DEF RunState, Posts
  <2> PICK x \in Posts : x = <<>>
    BY <2>1
  <2>2. Append(run[w].queue, x) \in Seq(Posts)
    BY <2>1
  <2>3. run'[w] = [run[w] EXCEPT !.queue = Append(run[w].queue, x)]
    BY <1>2, <1>4 DEF Heartbeat
  <2>4. /\ run'[w].pc = run[w].pc /\ run'[w].job = run[w].job
        /\ run'[w].lost = run[w].lost
        /\ run'[w].unauthenticated = run[w].unauthenticated
        /\ run'[w].queue = Append(run[w].queue, x)
    BY <1>1, <2>2, <2>3 DEF RunState
  <2>5. call'[w] = call[w] /\ Delivering(w)
    BY <1>4 DEF Heartbeat, Delivering
  <2>6. call[w].kind = "ok" => run[w].queue # <<>>
    BY <1>1, <2>5, CallsFit DEF ShapeAt
  <2>7. Longer(RestOf(run'[w], call[w]), RestOf(run[w], call[w]), x)
    BY <2>1, <2>4, <2>6, RestLonger
  <2>8. Covers(Rest(w)', Rest(w), 0)
    BY <2>5, <2>7 DEF Rest, Longer
  <2>9. QED
    BY <2>4, <2>5, <2>8 DEF Feeds
<1>5. CASE JobTimeout(w)
  <2>1. "timeout" \in Termination /\ run'[w] = Terminate(run[w], "timeout")
        /\ call'[w] = call[w]
    BY <1>2, <1>5 DEF Termination, JobTimeout
  <2>2. /\ run'[w].pc = run[w].pc /\ run'[w].job = run[w].job
        /\ run'[w].lost = run[w].lost /\ run'[w].queue = run[w].queue
        /\ run'[w].unauthenticated = run[w].unauthenticated
    BY <1>1, <2>1, TerminateFits, TerminateKeepsFlags
  <2>3. Delivering(w)' <=> Delivering(w)
    BY <2>2 DEF Delivering
  <2>4. QED
    BY <2>1, <2>2, <2>3, FeedsOn
<1>6. CASE DrainTimeout(w)
  <2>1. run'[w] = [[[run[w] EXCEPT !.queue = <<>>] EXCEPT !.tries = 0] EXCEPT !.lost = TRUE]
    BY <1>2, <1>6 DEF DrainTimeout
  <2>2. run'[w].lost = TRUE
    BY <1>1, <2>1 DEF RunState
  <2>3. QED
    BY <2>2, FeedsNoMore
<1>7. CASE Drained(w)
  <2>1. \/ run'[w] \in {Idle, Stopped}
        \/ run'[w] = [run[w] EXCEPT !.pc = "reporting", !.body = BodyOf(run[w])]
    BY <1>2, <1>7 DEF Drained, AfterRun
  <2>2. run'[w].pc \in {"idle", "stopped", "reporting"}
    BY <1>1, <2>1, IdleFits DEF RunState
  <2>3. ~Delivering(w)'
    BY <2>2 DEF Delivering
  <2>4. QED
    BY <2>3, FeedsNoMore
<1>8. ASSUME NEW exit \in Exits, ChildExit(w, exit)
      PROVE  Feeds(w)
  <2>1. run'[w] = [[run[w] EXCEPT !.child = exit] EXCEPT !.pc = "draining"]
        /\ call'[w] = call[w] /\ Delivering(w)
    BY <1>1, <1>2, <1>8 DEF ChildExit, ShapeAt, Delivering
  <2>2. /\ run'[w].job = run[w].job
        /\ run'[w].lost = run[w].lost /\ run'[w].queue = run[w].queue
        /\ run'[w].unauthenticated = run[w].unauthenticated
    BY <1>1, <2>1 DEF RunState
  <2>3. QED
    BY <2>1, <2>2, FeedsOn
<1>9. QED
  BY <1>3, <1>4, <1>5, <1>6, <1>7, <1>8 DEF RunStep, Exits

LEMMA ProcessFeeds ==
  ASSUME ShapeInv, NEW w \in Worker, ProcessStep(w)
  PROVE  Feeds(w) /\ printed' = printed
<1>1. run[w] \in RunState /\ ShapeAt(w)
  BY DEF ShapeInv, RunnerTypeOK
<1>2. run \in [Worker -> RunState] /\ call \in [Worker -> CallState]
  BY DEF ShapeInv, RunnerTypeOK
<1>3. printed' = printed
  BY DEF ProcessStep, Reject, RevokeToken, HearPolicy, Stop, Crash, Restart
<1>4. CASE Reject(w)
  <2>1. run' = run /\ call'[w].kind # "ok" /\ (Delivering(w)' <=> Delivering(w))
    BY <1>2, <1>4 DEF Reject, Answer, Delivering
  <2>2. QED
    BY <1>3, <2>1, FeedsSame
<1>5. CASE RevokeToken(w) \/ HearPolicy(w)
  <2>1. run' = run /\ call' = call /\ (Delivering(w)' <=> Delivering(w))
    BY <1>5 DEF RevokeToken, HearPolicy, Delivering
  <2>2. QED
    BY <1>3, <2>1, FeedsOn
<1>6. CASE Crash(w) \/ Restart(w)
  <2>1. ~Delivering(w)'
    BY <1>2, <1>6, IdleFits DEF Crash, Restart, Delivering
  <2>2. QED
    BY <1>3, <2>1, FeedsNoMore
<1>7. CASE Stop(w)
  <2>1. CASE run[w].pc = "idle"
    <3>1. ~Delivering(w)'
      BY <1>2, <1>7, <2>1, IdleFits DEF Stop, Delivering
    <3>2. QED
      BY <1>3, <3>1, FeedsNoMore
  <2>2. CASE run[w].pc # "idle"
    <3> DEFINE r == IF run[w].pc = "running" THEN Terminate(run[w], "shutdown") ELSE run[w]
    <3>1. /\ r \in RunState /\ r.pc = run[w].pc /\ r.job = run[w].job
          /\ r.queue = run[w].queue /\ r.lost = run[w].lost
          /\ r.unauthenticated = run[w].unauthenticated
      <4>1. "shutdown" \in Termination
        BY DEF Termination
      <4>2. QED
        BY <1>1, <4>1, TerminateFits, TerminateKeepsFlags
    <3>2. run'[w] = [r EXCEPT !.stopping = TRUE] /\ call' = call
      BY <1>2, <1>7, <2>2 DEF Stop
    <3> HIDE DEF r
    <3>3. /\ run'[w].pc = run[w].pc /\ run'[w].job = run[w].job
          /\ run'[w].queue = run[w].queue /\ run'[w].lost = run[w].lost
          /\ run'[w].unauthenticated = run[w].unauthenticated
      BY <3>1, <3>2 DEF RunState
    <3>4. Delivering(w)' <=> Delivering(w)
      BY <3>3 DEF Delivering
    <3>5. QED
      BY <1>3, <3>2, <3>3, <3>4, FeedsOn
  <2>3. QED
    BY <2>1, <2>2
<1>8. QED
  BY <1>4, <1>5, <1>6, <1>7 DEF ProcessStep

----------------------------------------------------------------------------
\* The output of one job is told, underway or given up, after every step.

LEMMA UnderwayKept ==
  ASSUME LossInv, ShapeInv', NEW j \in Job, RowStep(j), NEW w \in Worker, NEW d \in Nat,
         Delivering(w), Delivering(w)', Underway(w, j),
         printed'[j] = printed[j], Covers(Rest(w)', Rest(w), d)
  PROVE  Underway(w, j)'
<1>1. ShapeInv /\ TypeOK /\ printed[j] \in Seq(Batch)
  BY DEF LossInv, RunInv, ShapeInv, RunnerTypeOK
<1>2. PICK k \in 0 .. Len(printed[j]) :
        Kept(printed[j], k, output[j]) /\ Waiting(printed[j], k, Rest(w))
  BY DEF Underway
<1>3. k \in Nat /\ Len(printed[j]) \in Nat
  BY <1>1
<1>4. /\ Covers(output'[j], output[j], 0)
      /\ Len(output[j]) \in Nat /\ Len(output'[j]) \in Nat
  BY <1>1, OutputGrows
<1>5. Kept(printed'[j], k, output'[j])
  BY <1>2, <1>3, <1>4, KeptLonger
<1>6. Len(Rest(w)) \in Nat /\ Len(Rest(w)') \in Nat
  BY <1>1, RestIsSeq, NextRestIsSeq
<1>7. Waiting(printed[j], k, Rest(w)')
  BY <1>2, <1>3, <1>6, WaitingCovered
<1>8. QED
  BY <1>5, <1>7 DEF Underway

LEMMA ToldKept ==
  ASSUME LossInv, NEW j \in Job, RowStep(j), printed'[j] = printed[j], Told(j)
  PROVE  Told(j)'
<1>1. TypeOK /\ Len(printed[j]) \in Nat
  BY DEF LossInv, RunInv, ShapeInv, RunnerTypeOK
<1>2. /\ Covers(output'[j], output[j], 0)
      /\ Len(output[j]) \in Nat /\ Len(output'[j]) \in Nat
  BY <1>1, OutputGrows
<1>3. Kept(printed'[j], Len(printed[j]), output'[j])
  BY <1>1, <1>2, KeptLonger DEF Told
<1>4. QED
  BY <1>3 DEF Told

LEMMA PrintKept ==
  ASSUME LossInv, NEW j \in Job, RowStep(j), RowsBy(j), printed'[j] = printed[j],
         exitOf'[j] = "none" => exitOf[j] = "none",
         \A w \in Worker : Entrusted(w, j)' => Underway(w, j)',
         \A body : Reported(j, body)' =>
           Taken(j) /\ (Reported(j, body) \/ (~body.errorMessage /\ Open(j) => Told(j)))
  PROVE  PrintAt(j)'
<1>1. PrintAt(j) /\ ReportAt(j) /\ TypeOK /\ ShapeInv /\ job[j] \in JobRow
  BY DEF LossInv, RunInv, ShapeInv, TypeOK
<1>2. exitOf'[j] = "none" => printed'[j] = <<>>
  BY <1>1 DEF PrintAt
<1>3. ASSUME NEW body, Reported(j, body)', ~body.errorMessage, Open(j)'
      PROVE  Told(j)'
  <2>1. Open(j)
    BY <1>1, <1>3, OpenBefore
  <2>2. Told(j)
    BY <1>1, <1>3, <2>1 DEF PrintAt
  <2>3. QED
    BY <2>2, ToldKept
<1>4. ASSUME Sound(j)'
      PROVE  job'[j].errorCode # "WORKER_LOST" /\ Told(j)'
  <2>1. CASE CalmStep(j)
    <3>1. Sound(j) /\ job'[j].errorCode = job[j].errorCode
      BY <1>1, <1>4, <2>1, CalmSound
    <3>2. job[j].errorCode # "WORKER_LOST" /\ Told(j)
      BY <1>1, <3>1 DEF PrintAt
    <3>3. QED
      BY <3>1, <3>2, ToldKept
  <2>2. CASE ~CalmStep(j)
    <3>1. PICK body : /\ Reported(j, body)
                      /\ job'[j] = Finish(job[j], OutcomeOf(job[j], body), body.exitCode,
                                          body.errorCode, body.errorMessage)
      BY <2>2 DEF RowsBy
    <3>2. body \in FinishBody
      BY <1>1, <3>1, ReportedFits
    <3>3. job[j].status = "running"
      BY <2>2 DEF RowStep, Completed
    <3>4. /\ job'[j].errorCode = body.errorCode /\ job'[j].errorMessage = body.errorMessage
          /\ job'[j].truncated = job[j].truncated
      BY <1>1, <3>1 DEF Finish, JobRow
    <3>5. body.errorCode # "WORKER_LOST"
      BY <3>2 DEF FinishBody
    <3>6. ~body.errorMessage /\ Open(j)
      BY <1>4, <3>3, <3>4 DEF Sound, Open
    <3>7. Told(j)
      BY <1>1, <3>1, <3>6 DEF PrintAt
    <3>8. QED
      BY <3>4, <3>5, <3>7, ToldKept
  <2>3. QED
    BY <2>1, <2>2
<1>5. QED
  BY <1>2, <1>3, <1>4 DEF PrintAt

LEMMA ReportedTaken ==
  ASSUME RunInv, NEW j \in Job, NEW body, Reported(j, body)
  PROVE  Taken(j) /\ exitOf[j] # "alive"
BY DEF RunInv, ReportAt

\* A step of worker w that takes nothing from what is to be delivered.
LEMMA FeedPrints ==
  ASSUME LossInv, ShapeInv', NEW w \in Worker, OnlyAt(w), Feeds(w),
         printed' = printed, UNCHANGED queueVars,
         \A j \in Job : exitOf'[j] = "none" => exitOf[j] = "none",
         \A j \in Job : \A body : Reported(j, body)' =>
           Taken(j) /\ (Reported(j, body) \/ (~body.errorMessage /\ Open(j) => Told(j)))
  PROVE  \A j \in Job : PrintAt(j)'
<1>1. SUFFICES ASSUME NEW j \in Job PROVE PrintAt(j)'
  OBVIOUS
<1>2. /\ ShapeInv /\ RunInv /\ PrintAt(j) /\ ClaimAt(j)
      /\ \A v \in Worker : GoneAt(v)
  BY DEF LossInv, RunInv
<1>3. RowStep(j) /\ RowsBy(j) /\ (Open(j)' <=> Open(j)) /\ job'[j] = job[j]
  BY DEF RowStep, RowsBy, CalmStep, Untouched, queueVars, Open
<1>4. ASSUME NEW v \in Worker, Entrusted(v, j)', v # w
      PROVE  Underway(v, j)'
  <2>1. run'[v] = run[v] /\ call'[v] = call[v]
        /\ (Holds(v, j)' <=> Holds(v, j)) /\ (Delivering(v)' <=> Delivering(v))
    BY <1>2, <1>4, OthersKept
  <2>2. Entrusted(v, j) /\ Delivering(v) /\ Delivering(v)'
    BY <1>3, <1>4, <2>1 DEF Entrusted
  <2>3. Underway(v, j)
    BY <1>2, <2>2 DEF PrintAt
  <2>4. Covers(Rest(v)', Rest(v), 0)
    BY <1>2, <2>1, <2>2, RestIsSeq, SameCovers DEF Rest
  <2>5. QED
    BY <1>3, <2>2, <2>3, <2>4, UnderwayKept
<1>5. ASSUME Entrusted(w, j)'
      PROVE  Underway(w, j)'
  <2>1. /\ Delivering(w)' /\ run'[w].lost = FALSE /\ run'[w].unauthenticated = FALSE
        /\ Open(j) /\ run'[w].job = j
    BY <1>3, <1>5 DEF Entrusted, Holds
  <2>2. /\ Delivering(w) /\ run[w].job = j
        /\ \/ /\ run[w].lost = FALSE /\ run[w].unauthenticated = FALSE
              /\ \E d \in Nat : Covers(Rest(w)', Rest(w), d)
           \/ call[w].kind = "job-gone"
    BY <2>1 DEF Feeds
  <2>3. Holds(w, j)
    BY <2>2 DEF Delivering, Holds, Busy
  <2>4. Owns(w, j)
    BY <1>2, <2>1, <2>3 DEF ClaimAt, Open, Owns
  <2>5. call[w].kind # "job-gone"
    BY <1>2, <2>2, <2>4 DEF GoneAt
  <2>6. Entrusted(w, j)
    BY <2>1, <2>2, <2>3, <2>5 DEF Entrusted
  <2>7. Underway(w, j)
    BY <1>2, <2>6 DEF PrintAt
  <2>8. PICK d \in Nat : Covers(Rest(w)', Rest(w), d)
    BY <2>2, <2>5
  <2>9. QED
    BY <1>3, <2>1, <2>2, <2>7, <2>8, UnderwayKept
<1>6. \A v \in Worker : Entrusted(v, j)' => Underway(v, j)'
  BY <1>4, <1>5
<1>7. QED
  BY <1>3, <1>6, PrintKept

\* A step of the queue that no worker is told of yet.
LEMMA QueuePrints ==
  ASSUME LossInv, ShapeInv', NEW j \in Job, RowStep(j), RowsBy(j),
         run' = run, UNCHANGED <<exitOf, printed>>,
         \A body : Reported(j, body)' => Reported(j, body),
         \A w \in Worker : Entrusted(w, j) /\ Entrusted(w, j)' =>
           \/ Underway(w, j)'
           \/ Covers(Rest(w)', Rest(w), 0)
  PROVE  PrintAt(j)'
<1>1. /\ ShapeInv /\ RunInv /\ TypeOK /\ PrintAt(j) /\ ClaimAt(j)
  BY DEF LossInv, RunInv, ShapeInv
<1>2. ASSUME NEW w \in Worker, Entrusted(w, j)'
      PROVE  Underway(w, j)'
  <2>1. /\ Holds(w, j) /\ Delivering(w) /\ Delivering(w)'
        /\ run[w].lost = FALSE /\ run[w].unauthenticated = FALSE /\ Open(j)'
    BY <1>2 DEF Entrusted, Holds, Delivering
  <2>2. Taken(j)
    BY <1>1, <2>1 DEF ClaimAt
  <2>3. Entrusted(w, j)
    BY <1>1, <2>1, <2>2, OpenBefore DEF Entrusted
  <2>4. Underway(w, j)
    BY <1>1, <2>3 DEF PrintAt
  <2>5. CASE Covers(Rest(w)', Rest(w), 0)
    BY <2>1, <2>4, <2>5, UnderwayKept
  <2>6. QED
    BY <1>2, <2>3, <2>5
<1>3. QED
  BY <1>1, <1>2, ReportedTaken, PrintKept

\* The server takes the head of a queue.
LEMMA HeadServed ==
  ASSUME LossInv, ShapeInv', NEW w \in Worker, Serve(w), NEW j \in Job, Entrusted(w, j),
         Entrusted(w, j)', call'[w].kind = "ok"
  PROVE  Underway(w, j)'
<1>1. /\ ShapeInv /\ TypeOK /\ PrintAt(j) /\ ShapeAt(w) /\ run[w] \in RunState
      /\ call \in [Worker -> CallState] /\ printed[j] \in Seq(Batch)
  BY DEF LossInv, RunInv, ShapeInv, RunnerTypeOK
<1>2. /\ run[w].pc \in {"running", "draining"} /\ run[w].job = j /\ call[w] = Sent
      /\ run[w].queue \in Seq(Posts) /\ run[w].queue # <<>>
  BY <1>1, CallsFit DEF Serve, Entrusted, Delivering, Holds, ShapeAt, RunState
<1> DEFINE q    == run[w].queue
           rest == Tail(q)
           p    == printed[j]
<1>3. RequestOf(w) = [worker |-> w, op |-> "output", job |-> j, post |-> q[1]]
  BY <1>2 DEF RequestOf
<1>4. /\ call'[w] = AnswerTo(RequestOf(w)) /\ Handle(RequestOf(w))
      /\ UNCHANGED <<run, printed>>
  BY <1>1 DEF Serve
<1>5. w \in valid /\ Owns(w, j)
  BY <1>3, <1>4 DEF AnswerTo, Answer
<1>6. AppendOutput(w, j, q[1])
  BY <1>3, <1>4, <1>5 DEF Handle
<1>7. /\ job'[j] = AppendRow(job[j], q[1])
      /\ output'[j] = AppendLog(output[j], job[j], q[1])
  BY <1>1, <1>6 DEF AppendOutput, TypeOK
<1>8. q[1] \in Posts
  BY <1>2
<1>9. RowStep(j)
  BY <1>5, <1>7, <1>8 DEF RowStep, CalmStep, Appended, Owns
<1>10. Rest(w) = q /\ Rest(w)' = rest
  BY <1>2, <1>4, CallsFit DEF Rest, RestOf
<1>11. Covers(q, rest, 1) /\ Len(q) = Len(rest) + 1 /\ rest \in Seq(Posts)
  BY <1>2, TailIsCovered
<1>12. Underway(w, j)
  BY <1>1 DEF PrintAt
<1>13. PICK k \in 0 .. Len(p) : Kept(p, k, output[j]) /\ Waiting(p, k, q)
  BY <1>10, <1>12 DEF Underway
<1>14. /\ k \in Nat /\ Len(p) \in Nat /\ Len(q) \in Nat /\ Len(rest) \in Nat
       /\ \A i \in 1 .. Len(p) : p[i] \in Batch
  BY <1>1, <1>2, <1>11
<1>15. /\ Covers(output'[j], output[j], 0)
       /\ Len(output[j]) \in Nat /\ Len(output'[j]) \in Nat
  BY <1>1, <1>9, OutputGrows
<1> HIDE DEF rest, q, p
<1>16. \/ Waiting(p, k, rest)
       \/ k < Len(p) /\ q[1] = <<p[k + 1]>> /\ Waiting(p, k + 1, rest)
  BY <1>11, <1>13, <1>14, WaitingServed
<1>17. CASE Waiting(p, k, rest)
  <2>1. Kept(p, k, output'[j])
    BY <1>13, <1>14, <1>15, KeptLonger
  <2>2. QED
    BY <1>4, <1>10, <1>17, <2>1 DEF Underway, p
<1>18. CASE k < Len(p) /\ q[1] = <<p[k + 1]>> /\ Waiting(p, k + 1, rest)
  <2>1. PICK b \in Batch : b = p[k + 1]
    BY <1>14, <1>18
  <2>2. q[1] = <<b>> /\ ~job'[j].truncated
    BY <1>18, <2>1 DEF Entrusted, Open
  <2>3. PICK x : Longer(output'[j], output[j], x) /\ x.batch = b
    BY <1>1, <1>7, <2>2, BatchStored
  <2>4. Kept(p, k + 1, output'[j])
    BY <1>13, <1>14, <1>15, <2>1, <2>3, KeptNext
  <2>5. k + 1 \in 0 .. Len(p)
    BY <1>14, <1>18
  <2>6. QED
    BY <1>4, <1>10, <1>18, <2>4, <2>5 DEF Underway, p
<1>19. QED
  BY <1>16, <1>17, <1>18

\* What is reported afterwards was reported before, or is in the hands of w.
LEMMA ReportsFrom ==
  ASSUME ShapeInv, NEW w \in Worker, OnlyAt(w), LateFrom(w), NEW j \in Job, NEW body,
         Reported(j, body)'
  PROVE  \/ Reported(j, body)
         \/ run'[w].pc = "reporting" /\ run'[w].job = j /\ run'[w].body = body
<1>1. ASSUME NEW r \in late', r.op = "exit", r.job = j, r.body = body
      PROVE  Reported(j, body)
  BY <1>1, LateReports
<1>2. ASSUME NEW v \in Worker, v # w, run'[v].pc = "reporting", run'[v].job = j,
             run'[v].body = body
      PROVE  Reported(j, body)
  BY <1>2, OthersKept DEF Reported
<1>3. QED
  BY <1>1, <1>2 DEF Reported

LEMMA QuietPrints ==
  ASSUME LossInv, ShapeInv', NEW w \in Worker, OnlyAt(w), LateFrom(w), Quiet(w), Feeds(w),
         printed' = printed
  PROVE  \A j \in Job : PrintAt(j)'
<1>1. ShapeInv /\ RunInv
  BY DEF LossInv, RunInv
<1>2. ASSUME NEW j \in Job, NEW body, Reported(j, body)'
      PROVE  Taken(j) /\ Reported(j, body)
  <2>1. CASE run'[w].pc = "reporting" /\ run'[w].job = j /\ run'[w].body = body
    <3>1. run[w].pc = "reporting" /\ run[w].job = j /\ run[w].body = body
      BY <2>1, IdleFits DEF Quiet, KeepsRun
    <3>2. Reported(j, body)
      BY <3>1 DEF Reported
    <3>3. QED
      BY <1>1, <3>2, ReportedTaken
  <2>2. QED
    BY <1>1, <1>2, <2>1, ReportsFrom, ReportedTaken
<1>3. UNCHANGED queueVars /\ \A j \in Job : exitOf'[j] = "none" => exitOf[j] = "none"
  BY DEF Quiet
<1>4. QED
  BY <1>2, <1>3, FeedPrints

LEMMA ChildExitPrints ==
  ASSUME LossInv, ShapeInv', NEW w \in Worker, NEW exit \in Exits, ChildExit(w, exit)
  PROVE  \A j \in Job : PrintAt(j)'
<1>1. ShapeInv /\ RunInv /\ exitOf \in [Job -> ExitState]
      /\ run \in [Worker -> RunState] /\ run[w] \in RunState
  BY DEF LossInv, RunInv, ShapeInv, RunnerTypeOK
<1>2. RunStep(w)
  BY DEF RunStep, Exits
<1>3. OnlyAt(w) /\ LateFrom(w) /\ Feeds(w) /\ printed' = printed /\ UNCHANGED queueVars
  BY <1>1, <1>2, RunShape, RunFeeds DEF ChildExit
<1>4. \A j \in Job : exitOf'[j] = "none" => exitOf[j] = "none"
  BY <1>1 DEF ChildExit, Exits
<1>5. run'[w].pc = "draining"
  BY <1>1 DEF ChildExit, RunState
<1>6. \A j \in Job : \A body : Reported(j, body)' => Taken(j) /\ Reported(j, body)
  BY <1>1, <1>3, <1>5, ReportsFrom, ReportedTaken
<1>7. QED
  BY <1>3, <1>4, <1>6, FeedPrints

\* A report without a message is built with nothing given up.
LEMMA BodyTellsLoss ==
  ASSUME NEW r \in RunState, ~BodyOf(r).errorMessage
  PROVE  r.lost = FALSE
<1>1. r.lost \in BOOLEAN /\ FailureBody.errorMessage = TRUE
  BY DEF RunState, FailureBody, Body
<1>2. QED
  BY <1>1 DEF BodyOf, Body

LEMMA DrainedPrints ==
  ASSUME LossInv, ShapeInv', NEW w \in Worker, Drained(w)
  PROVE  \A j \in Job : PrintAt(j)'
<1>1. /\ ShapeInv /\ RunInv /\ run[w] \in RunState /\ ShapeAt(w)
      /\ run \in [Worker -> RunState]
  BY DEF LossInv, RunInv, ShapeInv, RunnerTypeOK
<1>2. RunStep(w) /\ printed' = printed /\ UNCHANGED queueVars /\ exitOf' = exitOf
  BY DEF RunStep, Drained
<1>3. OnlyAt(w) /\ LateFrom(w) /\ Feeds(w)
  BY <1>1, <1>2, RunShape, RunFeeds
<1>4. /\ run[w].pc = "draining" /\ Delivering(w) /\ run[w].job \in Job
      /\ run[w].queue = <<>> /\ call[w].kind # "ok"
  BY <1>1, CallsFit DEF Drained, ShapeAt, Delivering, Busy
<1>5. ASSUME NEW j \in Job, NEW body, Reported(j, body)', ~Reported(j, body)
      PROVE  Taken(j) /\ (~body.errorMessage /\ Open(j) => Told(j))
  <2>1. run'[w].pc = "reporting" /\ run'[w].job = j /\ run'[w].body = body
    BY <1>1, <1>3, <1>5, ReportsFrom
  <2>2. /\ run'[w] = [run[w] EXCEPT !.pc = "reporting", !.body = BodyOf(run[w])]
        /\ run[w].unauthenticated = FALSE
    <3>1. run'[w] \notin {Idle, Stopped}
      BY <2>1, IdleFits
    <3>2. run[w].unauthenticated \in BOOLEAN
      BY <1>1 DEF RunState
    <3>3. QED
      BY <1>1, <3>1, <3>2 DEF Drained, AfterRun
  <2>3. run[w].job = j /\ body = BodyOf(run[w])
    BY <1>1, <2>1, <2>2 DEF RunState
  <2>4. Holds(w, j)
    BY <1>4, <2>3 DEF Holds, Busy
  <2>5. Taken(j)
    BY <1>1, <2>4 DEF RunInv, ClaimAt
  <2>6. ASSUME ~body.errorMessage, Open(j)
        PROVE  Told(j)
    <3>1. run[w].lost = FALSE
      BY <1>1, <2>3, <2>6, BodyTellsLoss
    <3>2. Entrusted(w, j)
      BY <1>4, <2>2, <2>4, <2>6, <3>1 DEF Entrusted
    <3>3. Underway(w, j)
      BY <3>2 DEF LossInv, PrintAt
    <3>4. PICK k \in 0 .. Len(printed[j]) :
            Kept(printed[j], k, output[j]) /\ Waiting(printed[j], k, Rest(w))
      BY <3>3 DEF Underway
    <3>5. Len(Rest(w)) = 0
      BY <1>4 DEF Rest, RestOf
    <3>6. Len(printed[j]) \in Nat
      BY <1>1 DEF ShapeInv, RunnerTypeOK
    <3>7. k = Len(printed[j])
      BY <3>4, <3>5, <3>6, NothingLeft
    <3>8. QED
      BY <3>4, <3>7 DEF Told
  <2>7. QED
    BY <2>5, <2>6
<1>6. \A j \in Job : \A body : Reported(j, body)' =>
        Taken(j) /\ (Reported(j, body) \/ (~body.errorMessage /\ Open(j) => Told(j)))
  BY <1>1, <1>5, ReportedTaken
<1>7. QED
  BY <1>2, <1>3, <1>6, FeedPrints

\* The output of a process goes into its job's record and into the queue.
LEMMA PushPrints ==
  ASSUME LossInv, ShapeInv', NEW w \in Worker, NEW b \in Batch, Push(w, b),
         printed' # printed
  PROVE  \A j \in Job : PrintAt(j)'
<1>1. /\ ShapeInv /\ RunInv /\ run[w] \in RunState /\ ShapeAt(w)
      /\ run \in [Worker -> RunState] /\ printed \in [Job -> Seq(Batch)]
  BY DEF LossInv, RunInv, ShapeInv, RunnerTypeOK
<1>2. RunStep(w) /\ call' = call /\ UNCHANGED <<queueVars, exitOf>>
  BY DEF RunStep, Push
<1>3. OnlyAt(w) /\ LateFrom(w)
  BY <1>1, <1>2, RunShape
<1>4. run[w].pc = "running" /\ run[w].job \in Job /\ run[w].child = "alive"
  BY <1>1 DEF Push, ShapeAt, Busy
<1> PICK k \in Job : k = run[w].job
  BY <1>4
<1> PICK x \in Posts : x = <<b>>
  BY DEF Posts
<1>5. /\ printed' = [printed EXCEPT ![k] = Append(@, b)]
      /\ run' = [run EXCEPT ![w].queue = Append(@, x)]
  BY DEF Push
<1>6. run[w].queue \in Seq(Posts) /\ Append(run[w].queue, x) \in Seq(Posts)
  BY <1>1 DEF RunState
<1>7. run'[w] = [run[w] EXCEPT !.queue = Append(run[w].queue, x)]
  BY <1>1, <1>5
<1>8. /\ run'[w].pc = run[w].pc /\ run'[w].job = k
      /\ run'[w].lost = run[w].lost /\ run'[w].unauthenticated = run[w].unauthenticated
      /\ run'[w].queue = Append(run[w].queue, x)
  BY <1>1, <1>6, <1>7 DEF RunState
<1>9. Holds(w, k) /\ Delivering(w) /\ Delivering(w)' /\ (\A j \in Job : Holds(w, j)' => j = k)
  BY <1>4, <1>8 DEF Holds, Delivering, Busy
<1>10. /\ exitOf[k] = "alive" /\ job[k].worker = w
       /\ \A body : ~Reported(k, body)
       /\ \A v \in Worker : v # w => ~Holds(v, k)
       /\ RunningOrLost(k) /\ ~Sound(k)
  <2>1. ReportAt(k) /\ ClaimAt(k) /\ PrintAt(k)
    BY DEF LossInv, RunInv
  <2>2. exitOf[k] = "alive" /\ job[k].worker = w
    BY <1>4, <1>9, <2>1 DEF ReportAt, ClaimAt
  <2>3. RunningOrLost(k)
    BY <2>1, <2>2 DEF ReportAt
  <2>4. ~Sound(k)
    BY <2>1, <2>3 DEF RunningOrLost, PrintAt, Sound, Terminal
  <2>5. QED
    BY <2>1, <2>2, <2>3, <2>4 DEF ReportAt, ClaimAt
<1>11. \A j \in Job : \A body : Reported(j, body)' => Reported(j, body)
  BY <1>1, <1>3, <1>4, <1>8, ReportsFrom
<1>12. \A j \in Job : /\ (Open(j)' <=> Open(j)) /\ (Sound(j)' <=> Sound(j))
                      /\ RowStep(j) /\ RowsBy(j) /\ output'[j] = output[j]
                      /\ exitOf'[j] = exitOf[j]
  BY <1>2 DEF Open, Sound, RowStep, RowsBy, CalmStep, Untouched, queueVars
<1>13. ASSUME NEW j \in Job, NEW v \in Worker, Entrusted(v, j)', v # w
       PROVE  j # k /\ Underway(v, j) /\ run'[v] = run[v] /\ call'[v] = call[v]
              /\ Delivering(v) /\ Delivering(v)'
  <2>1. run'[v] = run[v] /\ call'[v] = call[v]
        /\ (Holds(v, j)' <=> Holds(v, j)) /\ (Delivering(v)' <=> Delivering(v))
    BY <1>1, <1>3, <1>13, OthersKept
  <2>2. Entrusted(v, j)
    BY <1>12, <1>13, <2>1 DEF Entrusted
  <2>3. QED
    BY <1>10, <1>13, <2>1, <2>2 DEF LossInv, PrintAt, Entrusted
<1>14. ASSUME NEW j \in Job, j # k
       PROVE  PrintAt(j)'
  <2>1. printed'[j] = printed[j]
    BY <1>1, <1>5, <1>14
  <2>2. ASSUME NEW v \in Worker, Entrusted(v, j)'
        PROVE  Underway(v, j)'
    <3>1. v # w
      BY <1>9, <1>14, <2>2 DEF Entrusted
    <3>2. /\ Underway(v, j) /\ run'[v] = run[v] /\ call'[v] = call[v]
          /\ Delivering(v) /\ Delivering(v)'
      BY <1>13, <2>2, <3>1
    <3>3. Covers(Rest(v)', Rest(v), 0)
      BY <1>1, <3>2, RestIsSeq, SameCovers DEF Rest
    <3>4. QED
      BY <1>12, <2>1, <3>2, <3>3, UnderwayKept
  <2>3. \A body : Reported(j, body)' => Taken(j) /\ Reported(j, body)
    BY <1>1, <1>11, ReportedTaken
  <2>4. QED
    BY <1>12, <2>1, <2>2, <2>3, PrintKept
<1>15. PrintAt(k)'
  <2>1. ASSUME Entrusted(w, k)'
        PROVE  Underway(w, k)'
    <3>1. Entrusted(w, k)
      BY <1>8, <1>9, <1>12, <2>1 DEF Entrusted
    <3>2. Underway(w, k)
      BY <3>1 DEF LossInv, PrintAt
    <3> PICK n \in 0 .. Len(printed[k]) :
          Kept(printed[k], n, output[k]) /\ Waiting(printed[k], n, Rest(w))
      BY <3>2 DEF Underway
    <3>3. /\ n \in Nat /\ Len(printed[k]) \in Nat /\ printed[k] \in Seq(Batch)
      BY <1>1
    <3>4. /\ printed'[k] = Append(printed[k], b) /\ Longer(printed'[k], printed[k], b)
          /\ printed'[k] \in Seq(Batch)
      BY <1>1, <1>5, <3>3, AppendIsLonger
    <3>5. /\ Len(printed'[k]) = Len(printed[k]) + 1 /\ Len(printed'[k]) \in Nat
          /\ \A i \in 1 .. n : printed'[k][i] = printed[k][i]
      BY <3>3, <3>4
    <3>6. Len(output[k]) \in Nat /\ output'[k] = output[k]
      BY <1>1, <1>12 DEF ShapeInv, TypeOK
    <3>7. Kept(printed'[k], n, output'[k])
      BY <3>3, <3>5, <3>6, KeptLonger, SameCovers
    <3>8. call[w].kind = "ok" => run[w].queue # <<>>
      BY <1>1, <1>9, CallsFit DEF ShapeAt
    <3>9. Longer(RestOf(run'[w], call[w]), RestOf(run[w], call[w]), x)
      BY <1>6, <1>8, <3>8, RestLonger
    <3>10. Longer(Rest(w)', Rest(w), <<b>>)
      BY <1>2, <3>9 DEF Rest
    <3>11. Len(Rest(w)) \in Nat /\ Len(Rest(w)') \in Nat
      BY <1>1, <1>9, RestIsSeq, NextRestIsSeq
    <3>12. Waiting(printed'[k], n, Rest(w)')
      BY <3>3, <3>4, <3>5, <3>10, <3>11, WaitingPrinted
    <3>13. n \in 0 .. Len(printed'[k])
      BY <3>3, <3>5
    <3>14. QED
      BY <3>7, <3>12, <3>13 DEF Underway
  <2>2. \A v \in Worker : Entrusted(v, k)' => Underway(v, k)'
    BY <1>13, <2>1
  <2>3. exitOf'[k] # "none" /\ ~Sound(k)' /\ \A body : ~Reported(k, body)'
    BY <1>10, <1>11, <1>12
  <2>4. QED
    BY <2>2, <2>3 DEF PrintAt
<1>16. QED
  BY <1>14, <1>15

\* A job whose process was never started has nothing to tell.
LEMMA TakeClaimPrints ==
  ASSUME LossInv, ShapeInv', NEW w \in Worker, TakeClaim(w)
  PROVE  \A j \in Job : PrintAt(j)'
<1>1. /\ ShapeInv /\ RunInv /\ run \in [Worker -> RunState]
      /\ call \in [Worker -> CallState] /\ exitOf \in [Job -> ExitState]
  BY DEF LossInv, RunInv, ShapeInv, RunnerTypeOK
<1>2. /\ CallStep(w) /\ ~Serve(w) /\ UNCHANGED <<queueVars, printed>>
  BY <1>1, CallsFit DEF CallStep, TakeClaim, Serve, Answered
<1>3. OnlyAt(w) /\ LateFrom(w)
  BY <1>1, <1>2, CallShape
<1> PICK k \in Job : k = call[w].job
  BY <1>1 DEF TakeClaim, CallState
<1>4. Pending(w, k)
  BY <1>1 DEF TakeClaim, Answered, Pending
<1>5. exitOf[k] = "none" /\ Taken(k) /\ job[k].worker = w /\ printed[k] = <<>>
  BY <1>1, <1>4 DEF LossInv, RunInv, ClaimAt, PrintAt
<1>6. run'[w].job = k
  <2> DEFINE claimed == [Idle EXCEPT !.job = k, !.version = call[w].version]
  <2>1. claimed \in RunState /\ claimed.job = k
    BY <1>1, IdleFits DEF RunState, CallState
  <2>2. \/ run'[w] = [claimed EXCEPT !.pc = "reporting", !.body = FailureBody]
        \/ run'[w] = [claimed EXCEPT !.pc = "running", !.child = "alive"]
    BY <1>1 DEF TakeClaim
  <2> HIDE DEF claimed
  <2>3. QED
    BY <2>1, <2>2 DEF RunState
<1>7. \A j \in Job : /\ (Open(j)' <=> Open(j)) /\ RowStep(j) /\ RowsBy(j)
                     /\ output'[j] = output[j] /\ printed'[j] = printed[j]
                     /\ exitOf'[j] = "none" => exitOf[j] = "none"
  <2>1. \A j \in Job : exitOf'[j] = "none" => exitOf[j] = "none"
    BY <1>1, <1>5 DEF TakeClaim
  <2>2. QED
    BY <1>2, <2>1 DEF Open, RowStep, RowsBy, CalmStep, Untouched, queueVars
<1>8. /\ Told(k)
      /\ Delivering(w)' => Underway(w, k)'
  <2>1. Len(printed[k]) = 0 /\ Len(output[k]) \in Nat /\ printed'[k] = printed[k]
        /\ output'[k] = output[k]
    BY <1>1, <1>5, <1>7 DEF ShapeInv, TypeOK
  <2>2. Kept(printed[k], 0, output[k])
    BY <2>1, NothingKept
  <2>3. ASSUME Delivering(w)'
        PROVE  Waiting(printed[k], 0, Rest(w)')
    <3>1. Len(Rest(w)') \in Nat
      BY <2>3, NextRestIsSeq
    <3>2. Len(printed[k]) \in Nat
      BY <2>1
    <3>3. Waiting(printed[k], Len(printed[k]), Rest(w)')
      BY <3>1, <3>2, NothingWaits
    <3>4. QED
      BY <2>1, <3>3
  <2>4. QED
    BY <2>1, <2>2, <2>3 DEF Told, Underway
<1>9. ASSUME NEW j \in Job, NEW v \in Worker, Entrusted(v, j)'
      PROVE  Underway(v, j)'
  <2>1. CASE v = w
    BY <1>6, <1>8, <1>9, <2>1 DEF Entrusted, Holds
  <2>2. CASE v # w
    <3>1. run'[v] = run[v] /\ call'[v] = call[v]
          /\ (Holds(v, j)' <=> Holds(v, j)) /\ (Delivering(v)' <=> Delivering(v))
      BY <1>1, <1>3, <2>2, OthersKept
    <3>2. Entrusted(v, j) /\ Delivering(v) /\ Delivering(v)'
      BY <1>7, <1>9, <3>1 DEF Entrusted
    <3>3. Underway(v, j)
      BY <3>2 DEF LossInv, PrintAt
    <3>4. Covers(Rest(v)', Rest(v), 0)
      BY <1>1, <3>1, <3>2, RestIsSeq, SameCovers DEF Rest
    <3>5. QED
      BY <1>7, <3>2, <3>3, <3>4, UnderwayKept
  <2>3. QED
    BY <2>1, <2>2
<1>10. ASSUME NEW j \in Job, NEW body, Reported(j, body)'
       PROVE  Taken(j) /\ (Reported(j, body) \/ (~body.errorMessage /\ Open(j) => Told(j)))
  <2>1. CASE Reported(j, body)
    BY <1>1, <2>1, ReportedTaken
  <2>2. CASE ~Reported(j, body)
    <3>1. j = k
      BY <1>1, <1>3, <1>6, <1>10, <2>2, ReportsFrom
    <3>2. QED
      BY <1>5, <1>8, <3>1
  <2>3. QED
    BY <2>1, <2>2
<1>11. QED
  BY <1>7, <1>9, <1>10, PrintKept

LEMMA ServePrints ==
  ASSUME LossInv, [RunnerNext]_allVars, ShapeInv', NEW w \in Worker, Serve(w)
  PROVE  \A j \in Job : PrintAt(j)'
<1>1. ShapeInv /\ RunInv /\ TypeOK
  BY DEF LossInv, RunInv, ShapeInv
<1> DEFINE r == RequestOf(w)
<1>2. r \in Request /\ Handle(r) /\ run' = run /\ late' = late /\ OnlyAt(w)
      /\ UNCHANGED <<exitOf, printed>> /\ call[w] = Sent
  BY <1>1, RequestFits, ServeShape DEF Serve
<1>3. r.op = "exit" => Reported(r.job, r.body)
  <2>1. ASSUME r.op = "exit"
        PROVE  run[w].pc = "reporting" /\ r.job = run[w].job /\ r.body = run[w].body
    BY <2>1 DEF RequestOf
  <2>2. QED
    BY <2>1 DEF Reported
<1>4. \A j \in Job : RowsBy(j) /\ RowStep(j)
  BY <1>1, <1>2, <1>3, HandleRowsBy, RunnerRefines, NextRowSteps
<1>5. \A j \in Job : \A body : Reported(j, body)' => Reported(j, body)
  BY <1>2 DEF Reported
<1>6. ASSUME NEW j \in Job, NEW v \in Worker, Entrusted(v, j), Entrusted(v, j)'
      PROVE  Underway(v, j)' \/ Covers(Rest(v)', Rest(v), 0)
  <2>1. CASE v = w /\ call'[w].kind = "ok"
    BY <1>6, <2>1, HeadServed
  <2>2. CASE v # w \/ call'[w].kind # "ok"
    <3>1. Rest(v)' = Rest(v)
      <4>1. CASE v # w
        BY <1>1, <1>2, <4>1, OthersKept DEF Rest
      <4>2. CASE v = w
        BY <1>2, <2>2, <4>2, CallsFit DEF Rest, RestOf
      <4>3. QED
        BY <4>1, <4>2
    <3>2. QED
      BY <1>1, <1>6, <3>1, RestIsSeq, SameCovers DEF Entrusted
  <2>3. QED
    BY <2>1, <2>2
<1>7. QED
  BY <1>2, <1>4, <1>5, <1>6, QueuePrints

LEMMA ElsewherePrints ==
  ASSUME LossInv, ShapeInv', run' = run, call' = call, late' \subseteq late,
         UNCHANGED <<exitOf, printed>>, \A j \in Job : RowStep(j) /\ RowsBy(j)
  PROVE  \A j \in Job : PrintAt(j)'
<1>1. ShapeInv
  BY DEF LossInv, RunInv
<1>2. \A j \in Job : \A body : Reported(j, body)' => Reported(j, body)
  BY DEF Reported
<1>3. \A j \in Job, w \in Worker : Entrusted(w, j) => Covers(Rest(w)', Rest(w), 0)
  <2>1. SUFFICES ASSUME NEW w \in Worker, Delivering(w)
                 PROVE  Covers(Rest(w)', Rest(w), 0)
    BY DEF Entrusted
  <2>2. Rest(w)' = Rest(w)
    BY DEF Rest
  <2>3. QED
    BY <1>1, <2>1, <2>2, RestIsSeq, SameCovers
<1>4. QED
  BY <1>2, <1>3, QueuePrints

LEMMA NextLossInv ==
  ASSUME LossInv, [RunnerNext]_allVars
  PROVE  LossInv'
<1>1. ShapeInv /\ TypeOK /\ RunInv /\ RunInv' /\ ShapeInv'
  BY NextRunInv DEF LossInv, RunInv, ShapeInv
<1>2. \A j \in Job : RowStep(j)
  BY <1>1, RunnerRefines, NextRowSteps
<1>3. ASSUME ClientNext \/ TimeNext \/ UNCHANGED queueVars, UNCHANGED runnerVars
      PROVE  \A j \in Job : PrintAt(j)'
  <2>1. \A j \in Job : RowsBy(j)
    BY <1>1, <1>3, CalmRowSteps DEF CalmNext, RowsBy
  <2>2. QED
    BY <1>1, <1>2, <1>3, <2>1, ElsewherePrints DEF runnerVars
<1>4. ASSUME NEW r \in late, ServeLate(r)
      PROVE  \A j \in Job : PrintAt(j)'
  <2>1. r \in Request /\ Handle(r)
    BY <1>1, <1>4 DEF ShapeInv, RunnerTypeOK, ServeLate
  <2>2. r.op = "exit" => Reported(r.job, r.body)
    BY DEF Reported
  <2>3. \A j \in Job : RowsBy(j)
    BY <1>1, <2>1, <2>2, HandleRowsBy
  <2>4. QED
    BY <1>1, <1>2, <1>4, <2>3, ElsewherePrints DEF ServeLate
<1>5. ASSUME NEW w \in Worker, CallStep(w)
      PROVE  \A j \in Job : PrintAt(j)'
  <2>1. CASE ~Serve(w) /\ ~TakeClaim(w)
    BY <1>1, <1>5, <2>1, QuietCalls, CallShape, CallFeeds, QuietPrints
  <2>2. QED
    BY <1>1, <2>1, ServePrints, TakeClaimPrints
<1>6. ASSUME NEW w \in Worker, RunStep(w)
      PROVE  \A j \in Job : PrintAt(j)'
  <2>1. CASE /\ printed' = printed /\ ~Drained(w)
             /\ \A exit \in Exits : ~ChildExit(w, exit)
    BY <1>1, <1>6, <2>1, QuietRuns, RunShape, RunFeeds, QuietPrints
  <2>2. CASE printed' # printed
    <3>1. \E b \in Batch : Push(w, b)
      BY <1>6, <2>2
         DEF RunStep, Heartbeat, JobTimeout, DrainTimeout, Drained, ChildExit
    <3>2. QED
      BY <1>1, <2>2, <3>1, PushPrints
  <2>3. QED
    BY <1>1, <2>1, <2>2, DrainedPrints, ChildExitPrints
<1>7. ASSUME NEW w \in Worker, ProcessStep(w)
      PROVE  \A j \in Job : PrintAt(j)'
  BY <1>1, <1>7, QuietProcess, ProcessShape, ProcessFeeds, QuietPrints
<1>8. \A j \in Job : PrintAt(j)'
  BY <1>3, <1>4, <1>5, <1>6, <1>7 DEF RunnerNext, allVars
<1>9. QED
  BY <1>1, <1>8 DEF LossInv

LEMMA InitLossInv == RunnerInit => LossInv
<1>1. SUFFICES ASSUME RunnerInit PROVE LossInv
  OBVIOUS
<1>2. RunInv
  BY <1>1, InitRunInv
<1>3. /\ \A w \in Worker : run[w] = Stopped
      /\ \A j \in Job : job[j].status = "absent" /\ printed[j] = <<>>
      /\ late = {}
  BY <1>1 DEF RunnerInit, QueueInit, EmptyRow
<1>4. \A j \in Job : PrintAt(j)
  BY <1>3, IdleFits DEF PrintAt, Entrusted, Delivering, Reported, Sound, Terminal
<1>5. QED
  BY <1>2, <1>4 DEF LossInv

LEMMA RunnerLossInv == RunnerSpec => []LossInv
BY InitLossInv, NextLossInv, PTL DEF RunnerSpec

\* A result without a message, on a job that is not flagged as truncated, comes
\* with everything its process printed, in order, whatever was lost, retried or
\* answered late: until it is stored, each batch is in the queue of the one
\* worker that has not given anything up (runner.ts, sendOutput and finish).
THEOREM NothingIsLostSilently == RunnerSpec => []CompleteMeansNothingLost
<1>1. ASSUME LossInv, NEW j \in Job, Sound(j)
      PROVE  Within(printed[j], [i \in DOMAIN output[j] |-> output[j][i].batch])
  <2> DEFINE log == [i \in DOMAIN output[j] |-> output[j][i].batch]
             p   == printed[j]
  <2>1. Told(j) /\ p \in Seq(Batch) /\ output[j] \in Seq([batch: Batch, size: Nat])
    BY <1>1 DEF LossInv, PrintAt, RunInv, ShapeInv, TypeOK, RunnerTypeOK
  <2>2. DOMAIN p = 1 .. Len(p) /\ DOMAIN output[j] = 1 .. Len(output[j])
    BY <2>1
  <2>3. PICK f \in [1 .. Len(p) -> 1 .. Len(output[j])] :
          /\ \A i \in 1 .. Len(p) : output[j][f[i]].batch = p[i]
          /\ \A i, h \in 1 .. Len(p) : i < h => f[i] < f[h]
    BY <2>1 DEF Told, Kept
  <2>4. \A i \in 1 .. Len(p) : p[i] = log[f[i]]
    BY <2>2, <2>3
  <2>5. f \in [DOMAIN p -> DOMAIN log]
    BY <2>2
  <2> HIDE DEF log, p
  <2>6. Within(p, log)
    BY <2>2, <2>3, <2>4, <2>5 DEF Within
  <2>7. QED
    BY <2>6 DEF p, log
<1>2. LossInv => CompleteMeansNothingLost
  BY <1>1 DEF CompleteMeansNothingLost, Sound
<1>3. QED
  BY <1>2, RunnerLossInv, PTL

----------------------------------------------------------------------------
\* Policy.

\* Nothing but the answer to a claim starts a process.
LEMMA OnlyClaimsSpawn ==
  ASSUME ShapeInv, [RunnerNext]_allVars, NEW w \in Worker,
         run[w].child = "none", run'[w].child = "alive"
  PROVE  TakeClaim(w)
<1>1. ASSUME NEW v \in Worker, v # w, OnlyAt(v)
      PROVE  FALSE
  BY <1>1, OthersKept
<1>2. ASSUME Quiet(w)
      PROVE  FALSE
  BY <1>2, IdleFits DEF Quiet, KeepsRun
<1>3. ASSUME run' = run
      PROVE  FALSE
  BY <1>3
<1>4. /\ run \in [Worker -> RunState] /\ ShapeAt(w) /\ run[w] \in RunState
  BY DEF ShapeInv, RunnerTypeOK
<1>5. ~Drained(w) /\ \A exit \in Exits : ~ChildExit(w, exit)
  BY <1>4 DEF Drained, ChildExit, ShapeAt, Exits
<1>6. CASE UNCHANGED allVars \/ UNCHANGED runnerVars \/ \E r \in late : ServeLate(r)
  BY <1>3, <1>6 DEF allVars, runnerVars, ServeLate
<1>7. ASSUME NEW v \in Worker, v # w, CallStep(v) \/ RunStep(v) \/ ProcessStep(v)
      PROVE  FALSE
  BY <1>1, <1>7, CallShape, ServeShape, RunShape, ProcessShape
<1>8. CASE RunStep(w) \/ ProcessStep(w)
  BY <1>2, <1>5, <1>8, QuietRuns, QuietProcess
<1>9. CASE CallStep(w)
  BY <1>2, <1>3, <1>9, QuietCalls DEF Serve
<1>10. QED
  BY <1>6, <1>7, <1>8, <1>9 DEF RunnerNext, allVars

\* A process is only started under the newest policy its worker heard of, be it
\* the claim's or the event stream's (worker.ts, effectiveFor, checked between
\* the claim and the spawn).
THEOREM RevocationsAreObeyed == RunnerSpec => HeardRevocationIsObeyed
<1>1. ASSUME ShapeInv, [RunnerNext]_allVars, NEW w \in Worker,
             run[w].child = "none", run'[w].child = "alive"
      PROVE  LET j == run'[w].job
             IN  /\ spawns'[j] = spawns[j] + 1
                 /\ latest[w] >= run'[w].version
                      => job[j].command \in EffectiveOf(policy[latest[w]])
  <2>1. /\ run \in [Worker -> RunState] /\ call[w] \in CallState
        /\ latest[w] \in Nat /\ spawns \in [Job -> Nat]
    BY <1>1 DEF ShapeInv, RunnerTypeOK
  <2>2. TakeClaim(w)
    BY <1>1, OnlyClaimsSpawn
  <2> PICK k \in Job : k = call[w].job
    BY <2>1, <2>2 DEF TakeClaim, CallState
  <2> PICK n \in Nat : n = call[w].version
    BY <2>1 DEF CallState
  <2> DEFINE claimed == [Idle EXCEPT !.job = k, !.version = n]
  <2>3. /\ claimed \in RunState /\ claimed.job = k /\ claimed.version = n
        /\ claimed.child = "none"
    BY IdleFits DEF RunState
  <2>4. \/ run'[w] = [claimed EXCEPT !.pc = "reporting", !.body = FailureBody]
        \/ /\ run'[w] = [claimed EXCEPT !.pc = "running", !.child = "alive"]
           /\ job[k].command \in EffectiveFor(w, call[w])
           /\ spawns' = [spawns EXCEPT ![k] = @ + 1]
    BY <2>1, <2>2 DEF TakeClaim
  <2> HIDE DEF claimed
  <2>5. run'[w] # [claimed EXCEPT !.pc = "reporting", !.body = FailureBody]
    BY <1>1, <2>3 DEF RunState
  <2>6. run'[w].job = k /\ run'[w].version = n
    BY <2>3, <2>4, <2>5 DEF RunState
  <2>7. spawns'[k] = spawns[k] + 1
    BY <2>1, <2>4, <2>5
  <2>8. latest[w] >= n => job[k].command \in EffectiveOf(policy[latest[w]])
    <3>1. CASE latest[w] > n
      BY <2>4, <2>5, <3>1 DEF EffectiveFor
    <3>2. CASE latest[w] = n
      BY <2>4, <2>5, <3>2 DEF EffectiveFor
    <3>3. QED
      BY <2>1, <3>1, <3>2
  <2>9. QED
    BY <2>6, <2>7, <2>8
<1>2. ShapeInv /\ [RunnerNext]_allVars =>
        \A w \in Worker :
          run[w].child = "none" /\ run'[w].child = "alive" =>
            LET j == run'[w].job
            IN  /\ spawns'[j] = spawns[j] + 1
                /\ latest[w] >= run'[w].version
                     => job[j].command \in EffectiveOf(policy[latest[w]])
  BY <1>1
<1>3. QED
  BY <1>2, RunnerShapeInv, PTL DEF RunnerSpec, HeardRevocationIsObeyed
=============================================================================
