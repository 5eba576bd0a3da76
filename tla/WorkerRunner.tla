---------------------------- MODULE WorkerRunner ----------------------------
(***************************************************************************)
(* A worker (worker.ts), the job it runs (runner.ts) and its calls to the  *)
(* job queue (client.ts) over a network that loses and delays them.        *)
(*                                                                         *)
(* Each worker has one claim loop.  A call it gives up on may still reach  *)
(* the server, much later: it moves to "late".  Sleeps between attempts    *)
(* are collapsed, timers fire at any time, and the buffer of the output    *)
(* pipeline is flushed as it is filled.                                    *)
(***************************************************************************)
EXTENDS JobQueue

CONSTANTS
  NoJob,       \* no job in the slot
  MaxPrints,   \* maxOutputChars, in batches
  MaxAttempts, \* attempts of one call: 6 for output, 8 for an exit
  MaxLate,     \* bound on the calls given up that may still arrive
  MaxStarts    \* bound on the processes started, of all workers

\* FinishBody: the body of a final report.
Body(exit, code, message, canceled) ==
  [exitCode |-> exit, errorCode |-> code, errorMessage |-> message, canceled |-> canceled]

\* Every report a runner can build: a failure of its own, the exit of the
\* process, or a cancelation, with or without the message that output was lost.
FailureBody == Body("null", "REPORTED", TRUE, FALSE)

RunnerReport ==
  {FailureBody}
  \cup [exitCode: {"zero", "nonzero"}, errorCode: {"none"}, errorMessage: BOOLEAN,
        canceled: {FALSE}]
  \cup [exitCode: {"null"}, errorCode: {"CANCELED"}, errorMessage: BOOLEAN,
        canceled: {TRUE}]

ASSUME RunnerReportAssumption == RunnerReport \subseteq Report
ASSUME RunnerAssumption == /\ NoJob \notin Job
                           /\ MaxPrints \in Nat
                           /\ MaxAttempts \in Nat \ {0}
                           /\ MaxLate \in Nat
                           /\ MaxStarts \in Nat

VARIABLES
  run,      \* the claim loop of each worker and the job in its hands
  call,     \* its current request: none, sent, or the answer on its way back
  late,     \* requests nobody waits for that the server may still receive
  latest,   \* newest policy version heard of on the event stream; 1, the oldest
            \* there is, when none was: a claim's own is never older
  valid,    \* workers whose token the server accepts
  starts,   \* how many worker processes were started
  spawns,   \* history: how many processes were started for each job
  exitOf,   \* history: the process of each job
  printed   \* history: the output each process produced, up to the limit

runnerVars == <<run, call, late, latest, valid, starts, spawns, exitOf, printed>>
allVars    == <<queueVars, runnerVars>>

Pc          == {"idle", "running", "draining", "reporting", "stopped"}
Termination == {"none", "cancel", "timeout", "shutdown", "gone", "output-limit"}
ExitState   == {"none", "alive", "zero", "nonzero", "null", "error"}

\* A call: its state or the kind of its answer, with what the answer carries.
Answer(kind, j, version, cancel) ==
  [kind |-> kind, job |-> j, version |-> version, cancel |-> cancel]
NoCall == Answer("none", NoJob, 0, FALSE)
Sent   == Answer("sent", NoJob, 0, FALSE)

NoBody == Body("null", "none", FALSE, FALSE)

Idle == [pc |-> "idle", job |-> NoJob, version |-> 0, child |-> "none",
         term |-> "none", queue |-> <<>>, tries |-> 0, lost |-> FALSE,
         unauthenticated |-> FALSE, stopping |-> FALSE, body |-> NoBody]
Stopped == [Idle EXCEPT !.pc = "stopped"]

RunState == [pc: Pc, job: Job \cup {NoJob}, version: Nat, child: ExitState,
             term: Termination, queue: Seq(Posts), tries: Nat, lost: BOOLEAN,
             unauthenticated: BOOLEAN, stopping: BOOLEAN, body: FinishBody]

CallState == [kind: {"none", "sent", "ok", "job-gone", "unauthenticated", "rejected"},
              job: Job \cup {NoJob}, version: Nat, cancel: BOOLEAN]

Request == [worker: Worker, op: {"claim"}]
           \cup [worker: Worker, op: {"output"}, job: Job, post: Posts]
           \cup [worker: Worker, op: {"exit"}, job: Job, body: Report]

----------------------------------------------------------------------------
\* Requests and the answers of the server.

RequestOf(w) ==
  CASE run[w].pc = "idle"      -> [worker |-> w, op |-> "claim"]
    [] run[w].pc = "reporting" -> [worker |-> w, op |-> "exit", job |-> run[w].job,
                                   body |-> run[w].body]
    [] OTHER                   -> [worker |-> w, op |-> "output", job |-> run[w].job,
                                   post |-> run[w].queue[1]]

Started == {j \in Job : job[j].status = "queued" /\ job'[j].status = "running"}

\* Mutant: an exit is accepted from anybody.
HandleAnyExit(r) ==
  \/ /\ r.op = "claim"
     /\ \/ \E j \in Job : ClaimGrant(r.worker, j)
        \/ ClaimNothing(r.worker)
  \/ r.op = "output" /\ AppendOutput(r.worker, r.job, r.post)
  \/ /\ r.op = "exit"
     /\ job' = [job EXCEPT ![r.job] = Finish(@, OutcomeOf(@, r.body), r.body.exitCode,
                                             r.body.errorCode, r.body.errorMessage)]
     /\ UNCHANGED <<nextRow, output, audit, policy, operators, cancelAsked>>
  \/ r.op = "output" /\ ~Owns(r.worker, r.job) /\ UNCHANGED queueVars

\* What the handler of a request does to the queue.
Handle(r) ==
  IF r.worker \notin valid THEN UNCHANGED queueVars
  ELSE \/ /\ r.op = "claim"
          /\ \/ \E j \in Job : ClaimGrant(r.worker, j)
             \/ ClaimNothing(r.worker)
             \/ ClaimCutShort(r.worker)
       \/ r.op = "output" /\ AppendOutput(r.worker, r.job, r.post)
       \/ r.op = "exit" /\ Complete(r.worker, r.job, r.body)
       \/ r.op # "claim" /\ ~Owns(r.worker, r.job) /\ UNCHANGED queueVars

\* What it answers: a claim with the policy in force, the cancel flag of the
\* job, or JOB_NOT_FOUND.
AnswerTo(r) ==
  IF r.worker \notin valid THEN Answer("unauthenticated", NoJob, 0, FALSE)
  ELSE IF r.op = "claim"
       THEN IF Started = {} THEN Answer("ok", NoJob, 0, FALSE)
            ELSE Answer("ok", CHOOSE j \in Started : TRUE, PolicyVersion, FALSE)
  ELSE IF Owns(r.worker, r.job) THEN Answer("ok", NoJob, 0, job[r.job].cancelRequested)
  ELSE Answer("job-gone", NoJob, 0, FALSE)

----------------------------------------------------------------------------
\* Steps of a run, as functions from its state to its state.

\* terminate: the first reason wins; the process group is signaled.
Terminate(r, reason) == IF r.term = "none" THEN [r EXCEPT !.term = reason] ELSE r

Dequeue(r) == [r EXCEPT !.queue = Tail(@), !.tries = 0]

\* The claim loop after a run: it goes on unless the worker is stopping.
AfterRun(r) == IF r.stopping THEN Stopped ELSE Idle

\* Mutant: a process without an exit code (killed by a signal) is reported like
\* one that exited with zero.
BodyOfNullIsZero(r) ==
  Body(IF r.child = "nonzero" THEN "nonzero" ELSE "zero", "none", r.lost, FALSE)

\* The body of the final report.
BodyOf(r) ==
  IF r.child = "error" \/ r.term = "output-limit" THEN FailureBody
  ELSE IF r.term = "cancel" THEN Body("null", "CANCELED", r.lost, TRUE)
  ELSE IF r.term # "none" \/ r.child = "null" THEN FailureBody
  ELSE Body(r.child, "none", r.lost, FALSE)

\* Mutant: only the claim's own policy counts.
EffectiveForClaim(w, a) == EffectiveOf(policy[a.version])

\* effectiveFor: the newer of the claim's policy and the event stream's.
EffectiveFor(w, a) ==
  EffectiveOf(policy[IF latest[w] > a.version THEN latest[w] ELSE a.version])

\* A call that is given up: it may be on its way to the server, or lost.
GivenUp(w) ==
  \/ late' = late
  \/ /\ call[w] = Sent /\ w \in valid
     /\ Cardinality(late) < MaxLate
     /\ late' = late \cup {RequestOf(w)}

----------------------------------------------------------------------------
\* The network and the server.

Send(w) ==
  /\ call[w] = NoCall
  /\ \/ run[w].pc \in {"idle", "reporting"}
     \/ run[w].pc \in {"running", "draining"} /\ run[w].queue # <<>>
  /\ call' = [call EXCEPT ![w] = Sent]
  /\ UNCHANGED <<queueVars, run, late, latest, valid, starts, spawns, exitOf, printed>>

Serve(w) ==
  /\ call[w] = Sent
  /\ Handle(RequestOf(w))
  /\ call' = [call EXCEPT ![w] = AnswerTo(RequestOf(w))]
  /\ UNCHANGED <<run, late, latest, valid, starts, spawns, exitOf, printed>>

ServeLate(r) ==
  /\ Handle(r)
  /\ late' = late \ {r}
  /\ UNCHANGED <<run, call, latest, valid, starts, spawns, exitOf, printed>>

\* A refusal that is not retried (4xx), of output or of the exit.
Reject(w) ==
  /\ call[w] = Sent
  /\ run[w].pc # "idle"
  /\ call' = [call EXCEPT ![w] = Answer("rejected", NoJob, 0, FALSE)]
  /\ UNCHANGED <<queueVars, run, late, latest, valid, starts, spawns, exitOf, printed>>

\* The token expires or is revoked; what was sent with it will be refused.
RevokeToken(w) ==
  /\ w \in valid
  /\ valid' = valid \ {w}
  /\ late' = {r \in late : r.worker # w}
  /\ UNCHANGED <<queueVars, run, call, latest, starts, spawns, exitOf, printed>>

----------------------------------------------------------------------------
\* The claim loop.

Answered(w, kinds) == call[w].kind \in kinds

\* claimLoop, the answer to a claim: refuse the job before it is spawned (the
\* policy, the registry or the working directory), or spawn its process.
TakeClaim(w) ==
  /\ run[w].pc = "idle"
  /\ Answered(w, {"ok"})
  /\ call[w].job # NoJob
  /\ LET j       == call[w].job
         claimed == [Idle EXCEPT !.job = j, !.version = call[w].version]
     IN  \/ /\ run' = [run EXCEPT ![w] = [claimed EXCEPT !.pc = "reporting",
                                                         !.body = FailureBody]]
            /\ UNCHANGED <<spawns, exitOf>>
         \/ /\ job[j].command \in EffectiveFor(w, call[w])
            /\ run' = [run EXCEPT ![w] = [claimed EXCEPT !.pc = "running",
                                                         !.child = "alive"]]
            /\ spawns' = [spawns EXCEPT ![j] = @ + 1]
            /\ exitOf' = [exitOf EXCEPT ![j] = "alive"]
  /\ call' = [call EXCEPT ![w] = NoCall]
  /\ UNCHANGED <<queueVars, late, latest, valid, starts, printed>>

\* No job, or a failed claim: claim again.
ClaimAgain(w) ==
  /\ run[w].pc = "idle"
  /\ \/ Answered(w, {"ok"}) /\ call[w].job = NoJob /\ late' = late
     \/ call[w] # NoCall /\ GivenUp(w)
  /\ call' = [call EXCEPT ![w] = NoCall]
  /\ UNCHANGED <<queueVars, run, latest, valid, starts, spawns, exitOf, printed>>

\* The token was refused: the worker stops for good (until it is restarted).
ClaimRefused(w) ==
  /\ run[w].pc = "idle"
  /\ Answered(w, {"unauthenticated"})
  /\ run' = [run EXCEPT ![w] = Stopped]
  /\ call' = [call EXCEPT ![w] = NoCall]
  /\ UNCHANGED <<queueVars, late, latest, valid, starts, spawns, exitOf, printed>>

----------------------------------------------------------------------------
\* Output and heartbeats: sendOutput.

Delivering(w) == run[w].pc \in {"running", "draining"}

\* Mutants: a refused batch is forgotten; it is taken for a lost job.
HeardForgets(r, a) == IF a.kind = "job-gone" THEN Terminate(r, "gone") ELSE r
HeardTooMuch(r, a) ==
  IF a.kind \in {"job-gone", "rejected"} THEN Terminate(r, "gone") ELSE r

\* What an answer means for the run.
Heard(r, a) ==
  CASE a.kind = "ok"       -> IF a.cancel THEN Terminate(r, "cancel") ELSE r
    [] a.kind = "job-gone" -> Terminate(r, "gone")
    [] a.kind = "rejected" -> [r EXCEPT !.lost = TRUE]
    [] OTHER -> Terminate([r EXCEPT !.unauthenticated = TRUE], "gone")

OutputAnswered(w) ==
  /\ Delivering(w)
  /\ Answered(w, {"ok", "job-gone", "unauthenticated", "rejected"})
  /\ run' = [run EXCEPT ![w] = Heard(Dequeue(@), call[w])]
  /\ call' = [call EXCEPT ![w] = NoCall]
  /\ UNCHANGED <<queueVars, late, latest, valid, starts, spawns, exitOf, printed>>

\* A timeout, a lost answer or a 5xx: try again, and drop the batch in the end.
OutputFailed(w) ==
  LET r == run[w]
  IN  /\ Delivering(w)
      /\ call[w] # NoCall
      /\ run' = [run EXCEPT ![w] = IF r.tries + 1 < MaxAttempts
                                   THEN [r EXCEPT !.tries = @ + 1]
                                   ELSE [Dequeue(r) EXCEPT !.lost = TRUE]]
      /\ GivenUp(w)
      /\ call' = [call EXCEPT ![w] = NoCall]
      /\ UNCHANGED <<queueVars, latest, valid, starts, spawns, exitOf, printed>>

\* push and flush: output over the limit is lost and stops the job.  Every batch
\* is printed once, so that a lost one cannot be mistaken for another.
Push(w, b) ==
  LET j == run[w].job
  IN  /\ run[w].child = "alive"
      /\ IF Len(printed[j]) < MaxPrints
         THEN /\ \A i \in DOMAIN printed[j] : printed[j][i] # b
              /\ printed' = [printed EXCEPT ![j] = Append(@, b)]
              /\ run' = [run EXCEPT ![w].queue = Append(@, <<b>>)]
         ELSE /\ run' = [run EXCEPT ![w] =
                           Terminate([@ EXCEPT !.lost = TRUE], "output-limit")]
              /\ UNCHANGED printed
      /\ UNCHANGED <<queueVars, call, late, latest, valid, starts, spawns, exitOf>>

\* heartbeatTimer: an empty post, at most one of them queued.
Heartbeat(w) ==
  /\ run[w].pc = "running"
  /\ \A i \in DOMAIN run[w].queue : run[w].queue[i] # <<>>
  /\ run' = [run EXCEPT ![w].queue = Append(@, <<>>)]
  /\ UNCHANGED <<queueVars, call, late, latest, valid, starts, spawns, exitOf, printed>>

----------------------------------------------------------------------------
\* The process and the end of the run.

JobTimeout(w) ==
  /\ run[w].pc = "running" /\ run[w].term = "none"
  /\ run' = [run EXCEPT ![w] = Terminate(@, "timeout")]
  /\ UNCHANGED <<queueVars, call, late, latest, valid, starts, spawns, exitOf, printed>>

\* The process closes, by itself or because it was signaled; a signaled one may
\* still exit with a code of its own.  The timers stop and the drain begins.
ChildExit(w, exit) ==
  /\ run[w].child = "alive"
  /\ exit = "error" => printed[run[w].job] = <<>>   \* it could not be spawned
  /\ run' = [run EXCEPT ![w].child = exit, ![w].pc = "draining"]
  /\ exitOf' = [exitOf EXCEPT ![run[w].job] = exit]
  /\ UNCHANGED <<queueVars, call, late, latest, valid, starts, spawns, printed>>

\* drainTimer: what was not delivered by now is lost.
DrainTimeout(w) ==
  /\ run[w].pc = "draining"
  /\ run[w].queue # <<>>
  /\ run' = [run EXCEPT ![w].queue = <<>>, ![w].tries = 0, ![w].lost = TRUE]
  /\ GivenUp(w)
  /\ call' = [call EXCEPT ![w] = NoCall]
  /\ UNCHANGED <<queueVars, latest, valid, starts, spawns, exitOf, printed>>

\* Everything was sent: report the exit, unless the job or the token is gone.
Drained(w) ==
  LET r == run[w]
  IN  /\ r.pc = "draining"
      /\ r.queue = <<>>
      /\ run' = [run EXCEPT ![w] =
           IF r.unauthenticated THEN Stopped
           ELSE IF r.term = "gone" THEN AfterRun(r)
           ELSE [r EXCEPT !.pc = "reporting", !.body = BodyOf(r)]]
      /\ UNCHANGED <<queueVars, call, late, latest, valid, starts, spawns, exitOf, printed>>

\* postExitWithRetry.
ExitAnswered(w) ==
  LET r == run[w]
  IN  /\ r.pc = "reporting"
      /\ Answered(w, {"ok", "job-gone", "unauthenticated", "rejected"})
      /\ run' = [run EXCEPT ![w] = IF call[w].kind = "unauthenticated" THEN Stopped
                                                                      ELSE AfterRun(r)]
      /\ call' = [call EXCEPT ![w] = NoCall]
      /\ UNCHANGED <<queueVars, late, latest, valid, starts, spawns, exitOf, printed>>

ExitFailed(w) ==
  LET r == run[w]
  IN  /\ r.pc = "reporting"
      /\ call[w] # NoCall
      /\ run' = [run EXCEPT ![w] = IF r.tries + 1 < MaxAttempts THEN [r EXCEPT !.tries = @ + 1]
                                                               ELSE AfterRun(r)]
      /\ GivenUp(w)
      /\ call' = [call EXCEPT ![w] = NoCall]
      /\ UNCHANGED <<queueVars, latest, valid, starts, spawns, exitOf, printed>>

----------------------------------------------------------------------------
\* The worker process.

\* policyLoop and setPolicy: versions may be skipped, never taken back.
HearPolicy(w) ==
  /\ run[w].pc # "stopped" /\ w \in valid
  /\ \E v \in latest[w] + 1 .. PolicyVersion : latest' = [latest EXCEPT ![w] = v]
  /\ UNCHANGED <<queueVars, run, call, late, valid, starts, spawns, exitOf, printed>>

\* stop (or fail): a claim is dropped, even when its answer is on its way; a
\* running job is terminated, and reported before the worker ends.
Stop(w) ==
  /\ run[w].pc # "stopped" /\ ~run[w].stopping
  /\ IF run[w].pc = "idle"
     THEN /\ run' = [run EXCEPT ![w] = Stopped]
          /\ call' = [call EXCEPT ![w] = NoCall]
          /\ GivenUp(w)
     ELSE /\ run' = [run EXCEPT ![w] = [IF @.pc = "running" THEN Terminate(@, "shutdown")
                                        ELSE @ EXCEPT !.stopping = TRUE]]
          /\ UNCHANGED <<call, late>>
  /\ UNCHANGED <<queueVars, latest, valid, starts, spawns, exitOf, printed>>

\* The process dies.  The child, in a process group of its own, does not.
Crash(w) ==
  /\ run[w].pc # "stopped"
  /\ run' = [run EXCEPT ![w] = Stopped]
  /\ call' = [call EXCEPT ![w] = NoCall]
  /\ GivenUp(w)
  /\ UNCHANGED <<queueVars, latest, valid, starts, spawns, exitOf, printed>>

\* A new process with a new token and no memory.
Restart(w) ==
  /\ run[w].pc = "stopped"
  /\ starts < MaxStarts
  /\ starts' = starts + 1
  /\ run' = [run EXCEPT ![w] = Idle]
  /\ latest' = [latest EXCEPT ![w] = 1]
  /\ valid' = valid \cup {w}
  /\ UNCHANGED <<queueVars, call, late, spawns, exitOf, printed>>

----------------------------------------------------------------------------

RunnerInit ==
  /\ QueueInit
  /\ run = [w \in Worker |-> Stopped]
  /\ call = [w \in Worker |-> NoCall]
  /\ late = {}
  /\ latest = [w \in Worker |-> 1]
  /\ valid = Worker
  /\ starts = 0
  /\ spawns = [j \in Job |-> 0]
  /\ exitOf = [j \in Job |-> "none"]
  /\ printed = [j \in Job |-> <<>>]

\* What happens at worker w, its calls included.
CallStep(w) == \/ Send(w) \/ Serve(w) \/ TakeClaim(w) \/ ClaimAgain(w)
               \/ ClaimRefused(w) \/ OutputAnswered(w) \/ OutputFailed(w)
               \/ ExitAnswered(w) \/ ExitFailed(w)

RunStep(w) == \/ \E b \in Batch : Push(w, b)
              \/ Heartbeat(w) \/ JobTimeout(w) \/ DrainTimeout(w) \/ Drained(w)
              \/ \E exit \in {"zero", "nonzero", "null", "error"} : ChildExit(w, exit)

ProcessStep(w) == Reject(w) \/ RevokeToken(w) \/ HearPolicy(w) \/ Stop(w) \/ Crash(w)
                  \/ Restart(w)

RunnerNext ==
  \/ (ClientNext \/ TimeNext) /\ UNCHANGED runnerVars
  \/ \E r \in late : ServeLate(r)
  \/ \E w \in Worker : CallStep(w) \/ RunStep(w) \/ ProcessStep(w)

RunnerSpec == RunnerInit /\ [][RunnerNext]_allVars

\* Timers fire (the job timeout, the drain, the kill grace of a terminated
\* child, the retries), answers arrive or are given up, and the server's clock
\* and reaper go on.  Nothing is assumed of the network, of clients, or of a
\* worker ever being restarted.
RunnerFairness ==
  /\ WF_allVars(ReapExpired /\ UNCHANGED runnerVars)
  /\ WF_allVars(Tick /\ UNCHANGED runnerVars)
  /\ \A w \in Worker :
       /\ WF_allVars(JobTimeout(w))
       /\ WF_allVars(run[w].term # "none" /\ \E exit \in {"zero", "nonzero", "null", "error"} :
                       ChildExit(w, exit))
       /\ WF_allVars(DrainTimeout(w) \/ Drained(w))
       /\ WF_allVars(Send(w))
       /\ WF_allVars(ExitAnswered(w) \/ ExitFailed(w))
       /\ WF_allVars(TakeClaim(w) \/ ClaimAgain(w) \/ ClaimRefused(w))

FairRunnerSpec == RunnerSpec /\ RunnerFairness

----------------------------------------------------------------------------
\* Invariants.

\* Type invariant of the workers and of the network.
RunnerTypeOK ==
  /\ run \in [Worker -> RunState]
  /\ call \in [Worker -> CallState]
  /\ late \subseteq Request
  /\ latest \in [Worker -> 1 .. PolicyVersion]
  /\ valid \subseteq Worker
  /\ starts \in Nat
  /\ spawns \in [Job -> Nat]
  /\ exitOf \in [Job -> ExitState]
  /\ printed \in [Job -> Seq(Batch)]

\* A command runs at most once, whatever is lost, delayed, retried or restarted,
\* by any of the workers: claims are not idempotent and jobs are never requeued.
SpawnedAtMostOnce == \A j \in Job : spawns[j] <= 1

\* What the client reads is what happened: a succeeded job has a process that
\* exited with zero, and no outcome that a worker reported is that of a process
\* still running.
ReportedOutcomeIsTrue ==
  \A j \in Job :
    /\ job[j].status = "succeeded" => exitOf[j] = "zero"
    /\ job[j].status \in Terminal /\ job[j].worker # NoWorker
         /\ job[j].errorCode # "WORKER_LOST" => exitOf[j] # "alive"

\* p is a subsequence of s.
Within(p, s) ==
  \E f \in [DOMAIN p -> DOMAIN s] :
    \A i, k \in DOMAIN p : p[i] = s[f[i]] /\ (i < k => f[i] < f[k])

\* A result is never presented as complete when some of its output was lost:
\* an outcome without a message, on a job that is not flagged as truncated,
\* comes with everything the process printed, in order (a batch that was
\* retried may be there twice).
CompleteMeansNothingLost ==
  \A j \in Job :
    job[j].status \in Terminal /\ ~job[j].errorMessage /\ ~job[j].truncated
      => Within(printed[j], [i \in DOMAIN output[j] |-> output[j][i].batch])

\* A process is killed as "gone" only if its job is no longer running for this
\* worker, or the worker has no right to go on.
GoneIsFinal ==
  \A w \in Worker :
    run[w].term = "gone" => run[w].unauthenticated \/ ~Owns(w, run[w].job)

----------------------------------------------------------------------------
\* Action and liveness properties.

\* A revocation is obeyed as soon as it is heard of: between the claim and the
\* spawn too, and never undone by the older policy that came with the claim.
HeardRevocationIsObeyed ==
  [][\A w \in Worker :
       run[w].child = "none" /\ run'[w].child = "alive" =>
         LET j == run'[w].job
         IN  /\ spawns'[j] = spawns[j] + 1
             /\ latest[w] >= run'[w].version
                  => job[j].command \in EffectiveOf(policy[latest[w]])]_allVars

\* The workers are among the callers JobQueue allows for, so that all it
\* guarantees holds for them.
WorkersUseTheQueue == QueueSpec

\* A job that was started ends, whatever is lost and whoever dies.
StartedJobEnds ==
  \A j \in Job : job[j].status = "running" ~> job[j].status \in Terminal

\* No job starves in the queue: if claims go on being served with a working audit
\* trail, every queued job is eventually started, refused or canceled, however
\* membership changes and whatever else the workers do.
ClaimServed ==
  \E w \in Worker : /\ run[w].pc = "idle" /\ Serve(w)
                    /\ ClaimNothing(w) \/ \E j \in Job : ClaimGrant(w, j)

EveryJobLeavesTheQueue ==
  []<><<ClaimServed>>_allVars =>
    \A j \in Job : job[j].status = "queued" ~> job[j].status # "queued"
=============================================================================
