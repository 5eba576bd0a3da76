------------------------------ MODULE JobQueue ------------------------------
(***************************************************************************)
(* The durable job queue of one tenant: SqliteJobStore and the handlers of *)
(* jobs.ts that drive it.  The server is one process and its handlers are  *)
(* synchronous, so a handler is one action.  Clients submit and cancel,    *)
(* workers claim, append output and report an exit, an administrator       *)
(* changes the policy and the operators, and a timer reaps the running     *)
(* jobs whose lease ran out.                                               *)
(*                                                                         *)
(* lease_expires_at is kept as the time left, which every Tick decreases:  *)
(* time itself needs no bound.  A batch of output chunks, stored in one    *)
(* transaction, is one entry of the output log.                            *)
(***************************************************************************)
EXTENDS Integers, Sequences, FiniteSets

CONSTANTS
  Job,              \* job ids (uuids: each is used for one submission)
  Worker,           \* worker identities bound to this tenant
  NoWorker,         \* worker_id is null
  Command,          \* ids of the shared command registry
  User,             \* members of the tenant
  Report,           \* the final reports a worker may send
  Batch,            \* the batches of output a worker may post
  Size,             \* bytes of each batch, in UTF-8
  Width,            \* bytes of each character of a batch
  MaxQueued,        \* maxQueuedPerTenant
  PeekLimit,        \* how many candidates one claim examines
  LeaseTicks,       \* leaseMs, in ticks
  MaxOutput,        \* MAX_JOB_OUTPUT_BYTES
  MaxPolicyVersion  \* bound on policy changes

Terminal  == {"succeeded", "failed", "canceled"}
Status    == {"absent", "queued", "running"} \cup Terminal
ExitCode  == {"null", "zero", "nonzero"}
DenyCode  == {"COMMAND_NOT_ALLOWED", "REQUESTER_NOT_AUTHORIZED"}
ErrorCode == {"none", "CANCELED", "WORKER_LOST", "REPORTED"} \cup DenyCode
NoLease   == -2

\* What a worker reports at the end: FinishBody, with its codes abstracted to
\* the distinctions complete() makes.
FinishBody == [exitCode: ExitCode, errorCode: {"none", "CANCELED", "REPORTED"},
               errorMessage: BOOLEAN, canceled: BOOLEAN]

ASSUME JobAssumption    == IsFiniteSet(Job)
ASSUME NonEmptyAssumption == Command # {} /\ User # {}
ASSUME WorkerAssumption == NoWorker \notin Worker
ASSUME SizeAssumption   == /\ Size \in [Batch -> Nat \ {0}]
                           /\ Width \in [Batch -> 1 .. 4]
ASSUME ReportAssumption == Report \subseteq FinishBody
ASSUME LimitAssumption  == /\ MaxQueued \in Nat \ {0}
                           /\ PeekLimit \in Nat \ {0}
                           /\ LeaseTicks \in Nat
                           /\ MaxOutput \in Nat
                           /\ MaxPolicyVersion \in Nat

VARIABLES
  job,        \* the jobs table
  nextRow,    \* the next rowid
  output,     \* job_output: what was stored for each job, in seq order
  audit,      \* job.claim records of the audit trail
  policy,     \* every version of (tenant ceiling, workspace grant) so far
  operators,  \* users that hold at least the operator role
  cancelAsked \* history: jobs for which a cancel call was accepted

queueVars == <<job, nextRow, output, audit, policy, operators, cancelAsked>>

Lease     == {NoLease} \cup (-1 .. LeaseTicks)

JobRow == [status: Status, command: Command, requestedBy: User, rowid: Nat,
           worker: Worker \cup {NoWorker}, cancelRequested: BOOLEAN,
           lease: Lease, exitCode: ExitCode,
           errorCode: ErrorCode, errorMessage: BOOLEAN,
           bytes: Nat, truncated: BOOLEAN]

Policy == [ceiling: SUBSET Command, grant: SUBSET Command]

AuditRecord == [job: Job, worker: Worker, decision: {"allow", "deny"}]

----------------------------------------------------------------------------
\* Reads.

InStatus(st) == {j \in Job : job[j].status = st}

\* Mutant: a worker may go on with a job that has ended.
OwnsForever(w, j) == job[j].worker = w

Owns(w, j) == job[j].status = "running" /\ job[j].worker = w

\* effectiveAllowedCommands: the tenant ceiling intersected with the grant.
EffectiveOf(p) == p.ceiling \cap p.grant
PolicyVersion  == Len(policy)
Effective      == EffectiveOf(policy[PolicyVersion])

\* reauthorize, for a queued job and the policy and roles in force now.
CommandAllowed(j)   == job[j].command \in Effective
RequesterAllowed(j) == job[j].requestedBy \in operators
Authorized(j)       == CommandAllowed(j) /\ RequesterAllowed(j)
DenialCode(j) == IF CommandAllowed(j) THEN "REQUESTER_NOT_AUTHORIZED"
                                      ELSE "COMMAND_NOT_ALLOWED"

OlderQueued(j) == {k \in InStatus("queued") : job[k].rowid < job[j].rowid}

\* peekQueued: the oldest queued jobs.
Candidates == {j \in InStatus("queued") :
                 Cardinality(OlderQueued(j)) < PeekLimit}

\* Mutant: the claim checks the command again and forgets the requester.
FirstAllowedCommand(j) == /\ j \in Candidates
                          /\ CommandAllowed(j)
                          /\ \A k \in OlderQueued(j) : ~CommandAllowed(k)

\* The candidate tryClaimOne reaches after refusing all those before it.
FirstAuthorized(j) == /\ j \in Candidates
                      /\ Authorized(j)
                      /\ \A k \in OlderQueued(j) : ~Authorized(k)

Expired(j) == job[j].status = "running" /\ job[j].lease < 0

----------------------------------------------------------------------------
\* Row updates.

\* The "finish" statement: a status with its outcome, and the lease cleared.
Finish(row, st, exit, code, message) ==
  [row EXCEPT !.status = st, !.exitCode = exit, !.errorCode = code,
              !.errorMessage = message, !.lease = NoLease]

\* Mutant: a lost job is queued again.
WorkerLostRequeues(row) ==
  [row EXCEPT !.status = "queued", !.worker = NoWorker, !.lease = NoLease]

WorkerLost(row) == Finish(row, "failed", "null", "WORKER_LOST", TRUE)

Refused(j) == Finish(job[j], "failed", "null", DenialCode(j), TRUE)

Claimed(row, w) ==
  [row EXCEPT !.status = "running", !.worker = w, !.lease = LeaseTicks]

\* Mutant: the worker's word is taken for a cancelation.
OutcomeTrustsWorker(row, body) ==
  IF body.canceled THEN "canceled"
  ELSE IF body.errorCode # "none" \/ body.exitCode # "zero" THEN "failed"
  ELSE "succeeded"

OutcomeOf(row, body) ==
  IF body.canceled /\ row.cancelRequested THEN "canceled"
  ELSE IF body.errorCode # "none" \/ body.exitCode # "zero" THEN "failed"
  ELSE "succeeded"

\* The rows after the transactions of one claim: the expired jobs are reaped,
\* the jobs in "refused" fail, and those in "granted" (at most one) start.
AfterClaim(w, refused, granted) ==
  [j \in Job |-> IF Expired(j) THEN WorkerLost(job[j])
                 ELSE IF j \in refused THEN Refused(j)
                 ELSE IF j \in granted THEN Claimed(job[j], w)
                 ELSE job[j]]

ClaimRecords(w, jobs, verdict) ==
  {[job |-> j, worker |-> w, decision |-> verdict] : j \in jobs}

----------------------------------------------------------------------------
\* Client and administrator actions.

\* submitCommand: authorize and audit (no job without both), then enqueue,
\* which refuses when the tenant already has MaxQueued queued jobs.
Submit(u, c, j) ==
  /\ u \in operators
  /\ c \in Effective
  /\ Cardinality(InStatus("queued")) < MaxQueued
  /\ job[j].status = "absent"
  /\ job' = [job EXCEPT ![j] = [@ EXCEPT !.status = "queued", !.command = c,
                                         !.requestedBy = u, !.rowid = nextRow]]
  /\ nextRow' = nextRow + 1
  /\ UNCHANGED <<output, audit, policy, operators, cancelAsked>>

\* requestCancel: a queued job ends now, a running one is flagged.
CancelRow(row) ==
  IF row.status = "queued" THEN Finish(row, "canceled", "null", "CANCELED", TRUE)
                           ELSE [row EXCEPT !.cancelRequested = TRUE]

\* cancelJob, called by an operator on a job that has not finished.
CancelJob(j) ==
  /\ operators # {}
  /\ job[j].status \in {"queued", "running"}
  /\ job' = [job EXCEPT ![j] = CancelRow(@)]
  /\ cancelAsked' = cancelAsked \cup {j}
  /\ UNCHANGED <<nextRow, output, audit, policy, operators>>

SetPolicy(p) ==
  /\ PolicyVersion < MaxPolicyVersion
  /\ policy' = Append(policy, p)
  /\ UNCHANGED <<job, nextRow, output, audit, operators, cancelAsked>>

\* updatePolicy changes the ceiling, setWorkspaceGrant the grant; both bump
\* the version even when nothing changes.
UpdatePolicy(cs)      == SetPolicy([policy[PolicyVersion] EXCEPT !.ceiling = cs])
SetWorkspaceGrant(cs) == SetPolicy([policy[PolicyVersion] EXCEPT !.grant = cs])

\* setMember and removeMember, as far as the operator role is concerned.
SetMember(u, isOperator) ==
  /\ (u \in operators) # isOperator
  /\ operators' = IF isOperator THEN operators \cup {u} ELSE operators \ {u}
  /\ UNCHANGED <<job, nextRow, output, audit, policy, cancelAsked>>

----------------------------------------------------------------------------
\* Worker actions.  tryClaimOne reaps, then goes through the candidates in
\* order: refuse (audit, fail) while denied, start the first that is not.

ClaimGrant(w, j) ==
  /\ FirstAuthorized(j)
  /\ job' = AfterClaim(w, OlderQueued(j), {j})
  /\ audit' = audit \cup ClaimRecords(w, OlderQueued(j), "deny")
                    \cup ClaimRecords(w, {j}, "allow")
  /\ UNCHANGED <<nextRow, output, policy, operators, cancelAsked>>

\* Mutant: denied candidates are passed over and stay in the queue.
ClaimSkipsDenied(w) ==
  /\ \A j \in Candidates : ~Authorized(j)
  /\ job' = AfterClaim(w, {}, {})
  /\ audit' = audit \cup ClaimRecords(w, Candidates, "deny")
  /\ UNCHANGED <<nextRow, output, policy, operators, cancelAsked>>

ClaimNothing(w) ==
  /\ \A j \in Candidates : ~Authorized(j)
  /\ job' = AfterClaim(w, Candidates, {})
  /\ audit' = audit \cup ClaimRecords(w, Candidates, "deny")
  /\ UNCHANGED <<nextRow, output, policy, operators, cancelAsked>>

\* Mutant: the job starts before its claim is recorded.
ClaimStartsUnaudited(w) ==
  \E j \in Candidates :
    /\ \A k \in OlderQueued(j) : ~Authorized(k)
    /\ job' = AfterClaim(w, OlderQueued(j), {j})
    /\ audit' = audit \cup ClaimRecords(w, OlderQueued(j), "deny")
    /\ UNCHANGED <<nextRow, output, policy, operators, cancelAsked>>

\* The claim stops at candidate j: the audit trail refuses its record (the
\* worker is told INTERNAL_ERROR), or the process dies after that record and
\* before the job's own transaction.  What was done before j stays done.
ClaimCutShort(w) ==
  \E j \in Candidates, recorded \in BOOLEAN :
    /\ \A k \in OlderQueued(j) : ~Authorized(k)
    /\ job' = AfterClaim(w, OlderQueued(j), {})
    /\ audit' = audit \cup ClaimRecords(w, OlderQueued(j), "deny")
                      \cup IF ~recorded THEN {}
                           ELSE ClaimRecords(w, {j}, IF Authorized(j) THEN "allow"
                                                                     ELSE "deny")
    /\ UNCHANGED <<nextRow, output, policy, operators, cancelAsked>>

Posts == {<<>>} \cup {<<b>> : b \in Batch}

\* Output beyond the cap is cut.  A cut through a character leaves its first
\* bytes, which decode to U+FFFD: three bytes in the database.
Room(row) == IF row.bytes < MaxOutput THEN MaxOutput - row.bytes ELSE 0

Cut(room, width) ==
  IF room % width = 0 THEN room ELSE room - (room % width) + 3

Stored(row, b) ==
  IF Size[b] <= Room(row) THEN Size[b] ELSE Cut(Room(row), Width[b])

\* appendOutput: an accepted post always renews the lease, and an empty one (a
\* heartbeat) does nothing else.
AppendRow(row, post) ==
  LET renewed == [row EXCEPT !.lease = LeaseTicks]
  IN  IF post = <<>> \/ row.truncated THEN renewed
      ELSE [renewed EXCEPT !.bytes = @ + Stored(row, post[1]),
                           !.truncated = Size[post[1]] > Room(row)]

AppendLog(log, row, post) ==
  IF post = <<>> \/ row.truncated \/ Stored(row, post[1]) = 0 THEN log
  ELSE Append(log, [batch |-> post[1], size |-> Stored(row, post[1])])

\* workerAppendOutput; any other caller gets JOB_NOT_FOUND and changes nothing.
AppendOutput(w, j, post) ==
  /\ Owns(w, j)
  /\ job' = [job EXCEPT ![j] = AppendRow(@, post)]
  /\ output' = [output EXCEPT ![j] = AppendLog(@, job[j], post)]
  /\ UNCHANGED <<nextRow, audit, policy, operators, cancelAsked>>

\* workerFinishJob.
Complete(w, j, body) ==
  /\ Owns(w, j)
  /\ job' = [job EXCEPT ![j] = Finish(@, OutcomeOf(@, body), body.exitCode,
                                      body.errorCode, body.errorMessage)]
  /\ UNCHANGED <<nextRow, output, audit, policy, operators, cancelAsked>>

----------------------------------------------------------------------------
\* Time.

\* Mutant: a job that is being canceled is left to its worker.
ReapExpiredNotCanceled ==
  /\ \E j \in Job : Expired(j) /\ ~job[j].cancelRequested
  /\ job' = [j \in Job |-> IF Expired(j) /\ ~job[j].cancelRequested
                           THEN WorkerLost(job[j]) ELSE job[j]]
  /\ UNCHANGED <<nextRow, output, audit, policy, operators, cancelAsked>>

\* reapExpiredJobs, run by the reaper interval.
ReapExpired ==
  /\ \E j \in Job : Expired(j)
  /\ job' = [j \in Job |-> IF Expired(j) THEN WorkerLost(job[j]) ELSE job[j]]
  /\ UNCHANGED <<nextRow, output, audit, policy, operators, cancelAsked>>

Tick ==
  /\ \E j \in Job : job[j].status = "running" /\ job[j].lease >= 0
  /\ job' = [j \in Job |->
               IF job[j].status = "running" /\ job[j].lease >= 0
               THEN [job[j] EXCEPT !.lease = @ - 1] ELSE job[j]]
  /\ UNCHANGED <<nextRow, output, audit, policy, operators, cancelAsked>>

----------------------------------------------------------------------------

EmptyRow ==
  [status |-> "absent", command |-> CHOOSE c \in Command : TRUE,
   requestedBy |-> CHOOSE u \in User : TRUE, rowid |-> 0, worker |-> NoWorker,
   cancelRequested |-> FALSE, lease |-> NoLease, exitCode |-> "null",
   errorCode |-> "none", errorMessage |-> FALSE, bytes |-> 0,
   truncated |-> FALSE]

QueueInit ==
  /\ job = [j \in Job |-> EmptyRow]
  /\ nextRow = 1
  /\ output = [j \in Job |-> <<>>]
  /\ audit = {}
  /\ policy = <<[ceiling |-> Command, grant |-> Command]>>
  /\ operators = User
  /\ cancelAsked = {}

\* Everything that does not come from a worker.
ClientNext ==
  \/ \E u \in User, c \in Command, j \in Job : Submit(u, c, j)
  \/ \E j \in Job : CancelJob(j)
  \/ \E cs \in SUBSET Command : UpdatePolicy(cs)
  \/ \E cs \in SUBSET Command : SetWorkspaceGrant(cs)
  \/ \E u \in User, isOperator \in BOOLEAN : SetMember(u, isOperator)

\* Any worker of the tenant, calling with any job id and any report: late and
\* mistaken calls included.
WorkerNext ==
  \/ \E w \in Worker, j \in Job : ClaimGrant(w, j)
  \/ \E w \in Worker : ClaimNothing(w)
  \/ \E w \in Worker : ClaimCutShort(w)
  \/ \E w \in Worker, j \in Job, post \in Posts : AppendOutput(w, j, post)
  \/ \E w \in Worker, j \in Job, body \in Report : Complete(w, j, body)

TimeNext == ReapExpired \/ Tick

QueueNext == ClientNext \/ WorkerNext \/ TimeNext

QueueSpec == QueueInit /\ [][QueueNext]_queueVars

----------------------------------------------------------------------------
\* Invariants.

\* Type invariant of the tables.
TypeOK ==
  /\ job \in [Job -> JobRow]
  /\ nextRow \in Nat \ {0}
  /\ output \in [Job -> Seq([batch: Batch, size: Nat])]
  /\ audit \subseteq AuditRecord
  /\ policy \in Seq(Policy)
  /\ policy # <<>>
  /\ operators \subseteq User
  /\ cancelAsked \subseteq Job

\* Exactly the running jobs hold a lease and only they can be reaped: a running
\* row without one would never end if its worker died, and a finished row with
\* one would be finished again.  A job has an owner once it has run, and never
\* before.
LeaseIffRunning ==
  \A j \in Job :
    /\ (job[j].lease # NoLease) <=> (job[j].status = "running")
    /\ job[j].status = "running" => job[j].worker \in Worker
    /\ job[j].status \in {"absent", "queued"} => job[j].worker = NoWorker

\* Unaudited work never starts, and nothing is refused without a record, even
\* when a claim is cut short between its audit record and its update: the owner
\* of a job has an allow record for it, and a job refused at claim time a deny
\* record (jobs.ts, "Record the allow BEFORE flipping the job to running").
StartedOnlyIfAudited ==
  \A j \in Job :
    /\ job[j].worker # NoWorker =>
         [job |-> j, worker |-> job[j].worker, decision |-> "allow"] \in audit
    /\ job[j].errorCode \in DenyCode =>
         \E w \in Worker : [job |-> j, worker |-> w, decision |-> "deny"] \in audit

\* A job ends as canceled, or is flagged for its worker to stop it, only if a
\* cancel call was accepted for it: whatever a worker claims in its report.
CanceledOnlyIfAsked ==
  \A j \in Job : job[j].cancelRequested \/ job[j].status = "canceled"
                  => j \in cancelAsked

\* The status and the stored outcome agree, and success leaves no doubt: a
\* succeeded job was started by a worker and exited with zero and no error
\* code; a job that never started has no output.
OutcomeConsistent ==
  \A j \in Job :
    /\ job[j].status = "succeeded" =>
         /\ job[j].worker \in Worker
         /\ job[j].exitCode = "zero"
         /\ job[j].errorCode = "none"
    /\ job[j].status = "failed" =>
         job[j].exitCode # "zero" \/ job[j].errorCode # "none"
    /\ job[j].worker = NoWorker => output[j] = <<>>

\* The output cap holds to within the two bytes that a cut character grows by,
\* and output is marked as truncated exactly when that may have been needed:
\* what is not marked is all there.
OutputCapped ==
  \A j \in Job : /\ job[j].bytes <= MaxOutput + 2
                 /\ ~job[j].truncated => job[j].bytes <= MaxOutput

\* The tables make sense together, in spite of workers that report anything, late
\* and twice: leases, owners, outcomes and cancelations agree, and the output
\* stays within its cap (sqlite-jobs.ts).
JobsConsistent == /\ TypeOK /\ LeaseIffRunning /\ CanceledOnlyIfAsked
                  /\ OutcomeConsistent /\ OutputCapped

\* The number of queued jobs of the tenant never exceeds its limit.
QueueBounded == Cardinality(InStatus("queued")) <= MaxQueued

\* Row ids order the queue: every job that was submitted has its own, below the
\* next one.
RowIdsOrderTheQueue ==
  \A j \in Job :
    job[j].status # "absent" =>
      /\ job[j].rowid < nextRow
      /\ \A k \in Job : k # j /\ job[k].status # "absent"
                         => job[k].rowid # job[j].rowid

----------------------------------------------------------------------------
\* Action and liveness properties.

\* A started job is the oldest that may run: in the step that starts it, it is
\* authorized under the policy and the roles of that moment, and every job that
\* was ahead of it in the queue leaves the queue refused.
StartsOldestAuthorized ==
  [][\A j \in Job : job[j].status = "queued" /\ job'[j].status = "running" =>
       /\ Authorized(j)
       /\ \A k \in OlderQueued(j) : job'[k].status = "failed"
                                     /\ job'[k].errorCode \in DenyCode]_queueVars

\* A worker is given up only when its lease ran out: a running job that turns
\* WORKER_LOST was not heard of for the whole lease.
LostOnlyAfterLease ==
  [][\A j \in Job : job[j].errorCode = "none" /\ job'[j].errorCode = "WORKER_LOST"
       => job[j].status = "running" /\ job[j].lease < 0]_queueVars

\* The queue implements what the API promises a client.
JC == INSTANCE JobContract WITH phase <- [j \in Job |-> job[j].status],
                                owner <- [j \in Job |-> job[j].worker],
                                log   <- output,
                                asked <- cancelAsked

ContractSpec == JC!Spec
=============================================================================
