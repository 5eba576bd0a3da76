----------------------------- MODULE TaskRunner -----------------------------
(***************************************************************************)
(* `re-shell run`: the executor of packages/cli/src/utils/task-runner.ts   *)
(* (runTask) over the ReadySetScheduler of task-scheduler.ts, with the     *)
(* ready queue (resources/priority-queue.ts) and the governor that may     *)
(* hold back starts (resources/governor.ts).                               *)
(*                                                                         *)
(* runTask is one process on one event loop.  `pump` is a loop that runs   *)
(* without interruption: each of its passes is an action, and while        *)
(* `pumping` holds nothing else happens.  Between two pumps tasks run, in  *)
(* processes of their own, and finish in any order.                        *)
(***************************************************************************)
EXTENDS Integers, Sequences, FiniteSets

CONSTANTS
  Plans,        \* the plans that may be run: what buildExecutionPlan returns
  Concurrency,  \* --concurrency
  Governed,     \* whether there is a governor
  Burst,        \* capacity of its token bucket
  Caching,      \* whether results are cached
  Aging,        \* priority points per tick of waiting
  MaxNow        \* the clock of the ready queue stops here

ASSUME TaskAssumption ==
  /\ \A p \in Plans : p.deps \in [DOMAIN p.deps -> SUBSET DOMAIN p.deps]
  /\ \A p \in Plans : p.order \in Seq(DOMAIN p.deps)
  /\ Concurrency \in Nat \ {0} /\ Burst \in Nat \ {0}
  /\ Aging \in Nat /\ MaxNow \in Nat
  /\ Governed \in BOOLEAN /\ Caching \in BOOLEAN

VARIABLES
  plan,      \* the plan, with the order in which its nodes were inserted
  keepGoing, \* continueOnError
  status,    \* ReadySetScheduler: the set a node is in, if any
  stage,     \* where processNode is for a running node
  results,   \* what is recorded for the user
  queue,     \* readyQueue
  queued,    \* enqueued: the nodes that were ever put there, in that order
  timer,     \* retryTimer is set
  tokens,    \* of the governor's bucket
  squeezed,  \* the memory monitor reports pressure
  now,       \* the clock of the ready queue
  pumping,   \* pump is running
  resolved   \* runTask has returned

vars == <<plan, keepGoing, status, stage, results, queue, queued, timer, tokens,
          squeezed, now, pumping, resolved>>
outside == <<plan, keepGoing, tokens, squeezed, now>>

Nodes == DOMAIN plan.deps
Deps(n) == plan.deps[n]
Scripted == plan.workspace.scripted   \* the nodes whose package defines the script

\* All a node depends on: what is in every set that holds its dependencies and,
\* with a node, the dependencies of that node.
Below(n) ==
  {m \in Nodes : \A S \in SUBSET Nodes :
                   Deps(n) \subseteq S /\ (\A d \in S : Deps(d) \subseteq S) => m \in S}

With(s) == {n \in Nodes : status[n] = s}
InFlight == Cardinality(With("running"))
isDone == \A n \in Nodes : status[n] \in {"succeeded", "failed", "skipped"}

TaskInit ==
  /\ plan \in Plans
  /\ keepGoing \in BOOLEAN
  /\ status = [n \in Nodes |-> "waiting"]
  /\ stage = [n \in Nodes |-> "none"]
  /\ results = [n \in Nodes |-> "none"]
  /\ queue = {} /\ queued = <<>>
  /\ timer = FALSE /\ tokens = Burst /\ squeezed = FALSE /\ now = 0
  /\ pumping = (plan.cycle = <<>>)   \* a plan with a cycle is not run at all
  /\ resolved = (plan.cycle # <<>>)

----------------------------------------------------------------------------
\* ReadySetScheduler.ready().  After a failure without continueOnError every
\* node that has not started is skipped.  Otherwise one pass over the nodes in
\* their order skips those that depend on one that failed or was skipped,
\* earlier or in this pass.

\* Mutant: the run is stopped once nothing runs any more.
StoppedOnceIdle == ~keepGoing /\ With("failed") # {} /\ InFlight = 0

Stopped == ~keepGoing /\ With("failed") # {}

CutOffInPass[i \in 0 .. Len(plan.order)] ==
  IF i = 0 THEN {}
  ELSE LET n == plan.order[i]
           before == CutOffInPass[i - 1]
       IN  before \cup {m \in {n} : /\ status[m] = "waiting"
                                   /\ \E d \in Deps(m) :
                                        status[d] \in {"failed", "skipped"} \/ d \in before}

CutOff == IF Stopped THEN With("waiting") ELSE CutOffInPass[Len(plan.order)]

\* Mutant: a dependency that has been started is taken for one that is done.
ReadyOnceStarted ==
  IF Stopped THEN {}
  ELSE {n \in With("waiting") \ CutOff : \A d \in Deps(n) : status[d] # "waiting"}

Ready ==
  IF Stopped THEN {}
  ELSE {n \in With("waiting") \ CutOff : \A d \in Deps(n) : status[d] = "succeeded"}

AfterReady == [n \in Nodes |-> IF n \in CutOff THEN "skipped" ELSE status[n]]

----------------------------------------------------------------------------
\* The ready queue.  What is pushed gets a key that does not change with time
\* (priority less the aging at its arrival); the highest key goes first, and
\* the first come of equal ones.

InOrder(nodes) == SelectSeq(plan.order, LAMBDA n : n \in nodes)

NewlyReady == InOrder(Ready \ {queued[i] : i \in DOMAIN queued})

Key(n) == plan.unblocks[n] - Aging * now

Pushed ==
  queue \cup {[node |-> NewlyReady[i], key |-> Key(NewlyReady[i]), seq |-> Len(queued) + i]
               : i \in DOMAIN NewlyReady}

\* Mutant: last in, first out.
SoonerIfLater(x, y) == x.seq > y.seq

Sooner(x, y) == x.key > y.key \/ (x.key = y.key /\ x.seq < y.seq)

\* The first that is still ready; the loop drops those before it.
Waiting == {x \in Pushed : x.node \in Ready}
Heads == {x \in Waiting : \A y \in Waiting \ {x} : Sooner(x, y)}
Behind(x) == {y \in Pushed : Sooner(x, y)}

----------------------------------------------------------------------------
\* The governor: memory pressure never holds back the only task, the rate may.

\* Mutant: memory pressure holds back the only task too.
RefusesAlone == Governed /\ (squeezed \/ tokens = 0)

Refuses ==
  Governed /\ (\/ squeezed /\ InFlight > 0
               \/ tokens = 0)

----------------------------------------------------------------------------
\* The end of a pump: with nothing in flight and no timer, what has no result
\* is recorded as skipped, and the run resolves if the scheduler is done.

Finalise(st, tm) ==
  LET idle == ~tm /\ \A n \in Nodes : st[n] # "running"
  IN  /\ pumping' = FALSE
      /\ results' = [n \in Nodes |->
                       IF idle /\ results[n] = "none" THEN "skipped" ELSE results[n]]
      /\ resolved' = (idle /\ \A n \in Nodes : st[n] \in {"succeeded", "failed", "skipped"})

\* The loop goes no further: it is at the limit, or nothing is ready.
PumpEnds ==
  /\ pumping
  /\ InFlight >= Concurrency \/ Waiting = {}
  /\ status' = AfterReady
  /\ queue' = IF InFlight >= Concurrency THEN Pushed ELSE {}
  /\ queued' = queued \o NewlyReady
  /\ Finalise(AfterReady, timer)
  /\ UNCHANGED <<stage, timer>> /\ UNCHANGED outside

HasRoom == pumping /\ InFlight < Concurrency

\* The next node has no script: it is skipped without being run.
PumpSkips ==
  HasRoom /\ \E x \in Heads :
    /\ x.node \notin Scripted
    /\ status' = [AfterReady EXCEPT ![x.node] = "skipped"]
    /\ results' = [results EXCEPT ![x.node] = "skipped"]
    /\ queued' = queued \o NewlyReady
    /\ queue' = Behind(x)
    /\ UNCHANGED <<stage, timer, pumping, resolved>> /\ UNCHANGED outside

\* The governor refuses: try again later.
PumpRefused ==
  HasRoom /\ \E x \in Heads :
    /\ x.node \in Scripted /\ Refuses
    /\ status' = AfterReady
    /\ queued' = queued \o NewlyReady
    /\ queue' = {x} \cup Behind(x)
    /\ timer' = TRUE
    /\ Finalise(AfterReady, TRUE)
    /\ UNCHANGED stage /\ UNCHANGED outside

\* Mutant: the limit is not kept.
PumpStartsAnyway ==
  pumping /\ \E x \in Heads :
    /\ x.node \in Scripted /\ ~Refuses
    /\ status' = [AfterReady EXCEPT ![x.node] = "running"]
    /\ stage' = [stage EXCEPT ![x.node] = IF Caching THEN "lookup" ELSE "process"]
    /\ queued' = queued \o NewlyReady
    /\ queue' = Behind(x)
    /\ tokens' = IF Governed THEN tokens - 1 ELSE tokens
    /\ UNCHANGED <<plan, keepGoing, results, timer, squeezed, now, pumping, resolved>>

PumpStarts ==
  HasRoom /\ \E x \in Heads :
    /\ x.node \in Scripted /\ ~Refuses
    /\ status' = [AfterReady EXCEPT ![x.node] = "running"]
    /\ stage' = [stage EXCEPT ![x.node] = IF Caching THEN "lookup" ELSE "process"]
    /\ queued' = queued \o NewlyReady
    /\ queue' = Behind(x)
    /\ tokens' = IF Governed THEN tokens - 1 ELSE tokens
    /\ UNCHANGED <<plan, keepGoing, results, timer, squeezed, now, pumping, resolved>>

----------------------------------------------------------------------------
\* processNode, one node at a time.

\* The node is done: the scheduler is told, and pump runs again.
Completed(n, s) ==
  /\ status' = [status EXCEPT ![n] = s]
  /\ stage' = [stage EXCEPT ![n] = "none"]
  /\ pumping' = TRUE
  /\ UNCHANGED <<queue, queued, timer, resolved>> /\ UNCHANGED outside

Goes(n, from, to) ==
  /\ ~pumping /\ stage[n] = from
  /\ stage' = [stage EXCEPT ![n] = to]
  /\ UNCHANGED <<status, queue, queued, timer, pumping, resolved>>
  /\ UNCHANGED outside

\* A hit counts as a success.
CacheHits(n) ==
  /\ ~pumping /\ stage[n] = "lookup"
  /\ results' = [results EXCEPT ![n] = "cached"]
  /\ Completed(n, "succeeded")

CacheMisses(n) == Goes(n, "lookup", "process") /\ UNCHANGED results

\* The process exits with zero; what it made is stored before the node is done.
ProcessSucceeds(n) ==
  /\ results' = [results EXCEPT ![n] = "success"]
  /\ IF Caching THEN Goes(n, "process", "store")
     ELSE ~pumping /\ stage[n] = "process" /\ Completed(n, "succeeded")

\* Storing succeeds or fails; a failure is swallowed.
StoreEnds(n) ==
  /\ ~pumping /\ stage[n] = "store"
  /\ Completed(n, "succeeded") /\ UNCHANGED results

\* Mutant: a failure is told to the user, but not to the scheduler.
ProcessFailsUntold(n) ==
  /\ ~pumping /\ stage[n] \in {"lookup", "process"}
  /\ results' = [results EXCEPT ![n] = "failed"]
  /\ Completed(n, "succeeded")

\* The process fails or cannot be started, or something throws on the way.
ProcessFails(n) ==
  /\ ~pumping /\ stage[n] \in {"lookup", "process"}
  /\ results' = [results EXCEPT ![n] = "failed"]
  /\ Completed(n, "failed")

NodeStep(n) ==
  \/ CacheHits(n) \/ CacheMisses(n) \/ ProcessSucceeds(n) \/ StoreEnds(n)
  \/ ProcessFails(n)

----------------------------------------------------------------------------
\* The world around: the retry timer, the token bucket, memory, time.

RetryTimer ==
  /\ ~pumping /\ timer
  /\ timer' = FALSE /\ pumping' = TRUE
  /\ UNCHANGED <<status, stage, results, queue, queued, resolved>>
  /\ UNCHANGED outside

Refill ==
  /\ Governed /\ tokens < Burst
  /\ tokens' = tokens + 1
  /\ UNCHANGED <<plan, keepGoing, status, stage, results, queue, queued, timer, squeezed,
                 now, pumping, resolved>>

MemoryChanges ==
  /\ ~pumping /\ Governed /\ ~resolved
  /\ squeezed' = ~squeezed
  /\ UNCHANGED <<plan, keepGoing, status, stage, results, queue, queued, timer, tokens, now,
                 pumping, resolved>>

Tick ==
  /\ ~pumping /\ now < MaxNow /\ ~resolved
  /\ now' = now + 1
  /\ UNCHANGED <<plan, keepGoing, status, stage, results, queue, queued, timer, tokens,
                 squeezed, pumping, resolved>>

Pump == PumpEnds \/ PumpSkips \/ PumpRefused \/ PumpStarts

TaskNext ==
  \/ Pump
  \/ \E n \in Nodes : NodeStep(n)
  \/ RetryTimer \/ Refill \/ MemoryChanges \/ Tick

TaskSpec == TaskInit /\ [][TaskNext]_vars

\* pump runs to its end, processes exit and cache operations return, timers
\* fire and buckets fill; the event loop takes up what happened while pump ran.
\* Memory may stay scarce, the clock may stand still.
FairTaskSpec ==
  /\ TaskSpec
  /\ WF_vars(Pump) /\ WF_vars(Refill)
  /\ SF_vars(\E n \in Nodes : NodeStep(n))
  /\ SF_vars(RetryTimer)

----------------------------------------------------------------------------
\* Type invariant, with what keeps the processes in bounds: no more tasks run
\* than --concurrency, and no more starts than the bucket has tokens (pump).
TaskTypeOK ==
  /\ keepGoing \in BOOLEAN
  /\ status \in [Nodes -> {"waiting", "running", "succeeded", "failed", "skipped"}]
  /\ stage \in [Nodes -> {"none", "lookup", "process", "store"}]
  /\ results \in [Nodes -> {"none", "success", "failed", "skipped", "cached"}]
  /\ \A n \in Nodes : (stage[n] # "none") <=> (status[n] = "running")
  /\ {timer, squeezed, pumping, resolved} \subseteq BOOLEAN
  /\ tokens \in 0 .. Burst /\ now \in 0 .. MaxNow
  /\ InFlight <= Concurrency

\* Whatever runs or ran: everything it depends on has succeeded before, in this
\* run or from the cache, and with it all that is below; whatever failed or was
\* skipped meanwhile and however long the node waited in the queue (ready, pump).
DependenciesFirst ==
  \A n \in Nodes : status[n] \in {"running", "succeeded", "failed"} =>
    \A d \in Deps(n) : status[d] = "succeeded"

\* What is recorded of each node is what happened to it.
ToldAsItWas ==
  \A n \in Nodes :
    /\ status[n] = "succeeded" <=> results[n] \in {"success", "cached"}
    /\ status[n] = "failed" <=> results[n] = "failed"
    /\ status[n] = "skipped" <=> results[n] = "skipped"

\* What the user is told when the run returns is what happened, and with
\* --continue a node is skipped exactly when its package has no script, or one
\* below it failed or has none (runTask, ready).
ResultsAreTrue ==
  resolved /\ plan.cycle = <<>> =>
    /\ ToldAsItWas
    /\ keepGoing =>
         \A n \in Nodes : status[n] = "skipped" <=>
           \/ n \notin Scripted
           \/ \E d \in Below(n) : status[d] = "failed" \/ d \notin Scripted

\* A result that is recorded stays as it is (processNode, recordSkip).
ResultsAreFinal ==
  [][\A n \in Nodes : results[n] # "none" => results'[n] = results[n]]_vars

\* Without --continue nothing starts once a failure is known, although it may
\* have been ready and queued before (ready, the loop of pump).
NothingStartsAfterFailure ==
  [][\A n \in Nodes : ~keepGoing /\ With("failed") # {} /\ status[n] # "running"
        => status'[n] # "running"]_vars
=============================================================================
