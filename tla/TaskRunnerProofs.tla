-------------------------- MODULE TaskRunnerProofs ---------------------------
(***************************************************************************)
(* Proofs about TaskRunner, for every set of plans, every limit and every  *)
(* governor.                                                               *)
(***************************************************************************)
EXTENDS TaskRunner, InductionLemmas, FiniteSetTheorems, TLAPS

State == {"waiting", "running", "succeeded", "failed", "skipped"}
Stage == {"none", "lookup", "process", "store"}
Told  == {"none", "success", "failed", "skipped", "cached"}

\* The inductive type invariant: InFlight is a bound on a finite set.
TaskTypeInv ==
  /\ plan \in Plans /\ keepGoing \in BOOLEAN
  /\ status \in [Nodes -> State] /\ stage \in [Nodes -> Stage] /\ results \in [Nodes -> Told]
  /\ \A n \in Nodes : (stage[n] # "none") <=> (status[n] = "running")
  /\ {timer, squeezed, pumping, resolved} \subseteq BOOLEAN
  /\ tokens \in 0 .. Burst /\ now \in 0 .. MaxNow
  /\ IsFiniteSet(With("running")) /\ InFlight <= Concurrency

LEMMA DepsType ==
  ASSUME plan \in Plans, NEW n \in Nodes
  PROVE  Deps(n) \in SUBSET Nodes
BY TaskAssumption DEF Nodes, Deps

\* Those of a set of one node that are cut off, with what was cut off before.
Cut(n, before) ==
  {m \in {n} : /\ status[m] = "waiting"
               /\ \E d \in Deps(m) : status[d] \in {"failed", "skipped"} \/ d \in before}

\* The pass of ready() has the values its recursive definition gives it.
LEMMA PassByRounds ==
  ASSUME plan \in Plans
  PROVE  /\ Len(plan.order) \in Nat /\ CutOffInPass[0] = {}
         /\ \A i \in 1 .. Len(plan.order) :
              CutOffInPass[i] = CutOffInPass[i - 1] \cup Cut(plan.order[i], CutOffInPass[i - 1])
<1> DEFINE N == Len(plan.order)
           S == SUBSET Nodes
           step == [p \in (1 .. N) \X S |-> p[2] \cup Cut(plan.order[p[1]], p[2])]
<1>1. N \in Nat /\ \A i \in 1 .. N : plan.order[i] \in Nodes
  BY TaskAssumption DEF Nodes
<1>2. \A i \in 1 .. N, before \in S : before \cup Cut(plan.order[i], before) \in S
  BY <1>1 DEF Cut
<1>3. step \in [(1 .. N) \X S -> S]
  BY <1>2
<1>4. PICK f \in [0 .. N -> S] :
             f[0] = {} /\ \A i \in 1 .. N : f[i] = step[<<i, f[i - 1]>>]
  <2> DEFINE start == {}
  <2>1. N \in Nat /\ start \in S
    BY <1>1
  <2> HIDE DEF N, S, step, start
  <2>2. Loops(N, S, start, step)
    BY <1>3, <2>1, LoopExists
  <2>3. QED
    BY <2>2 DEF start, Loops
<1>5. ASSUME NEW i \in 1 .. N
      PROVE  f[i] = f[i - 1] \cup Cut(plan.order[i], f[i - 1])
  <2>1. f[i - 1] \in S /\ f[i] = step[<<i, f[i - 1]>>]
    <3> HIDE DEF N, S, step
    <3>1. i - 1 \in 0 .. N
      BY <1>1
    <3>2. QED
      BY <1>4, <3>1
  <2>2. QED
    BY <2>1
<1> DEFINE Pass(g) == [i \in 0 .. N |->
                        IF i = 0 THEN {} ELSE g[i - 1] \cup Cut(plan.order[i], g[i - 1])]
<1>6. f = Pass(f)
  <2>1. f = [i \in 0 .. N |-> f[i]]
    OBVIOUS
  <2>2. \A i \in 0 .. N : f[i] = IF i = 0 THEN {} ELSE f[i - 1] \cup Cut(plan.order[i], f[i - 1])
    <3> HIDE DEF N
    <3>1. \A i \in 0 .. N : i # 0 => i \in 1 .. N
      BY <1>1
    <3>2. QED
      BY <1>4, <1>5, <3>1
  <2>3. QED
    BY <2>1, <2>2, Zenon
<1>7. CutOffInPass = CHOOSE g : g = Pass(g)
  BY DEF CutOffInPass, Cut
<1>8. CutOffInPass = Pass(CutOffInPass)
  <2> HIDE DEF Pass
  <2>1. QED
    BY <1>6, <1>7
<1>9. CutOffInPass[0] = {}
  BY <1>1, <1>8
<1>10. ASSUME NEW i \in 1 .. N
       PROVE  CutOffInPass[i] = CutOffInPass[i - 1] \cup Cut(plan.order[i], CutOffInPass[i - 1])
  <2>1. i \in 0 .. N /\ i # 0
    BY <1>1
  <2>2. QED
    BY <1>8, <2>1, Zenon
<1>11. QED
  BY <1>1, <1>9, <1>10

\* What the pass skips waits, and depends on a node that failed or was skipped,
\* before or in this pass.
LEMMA CutOffWaits ==
  ASSUME plan \in Plans
  PROVE  CutOff \subseteq With("waiting")
<1> DEFINE T == {i \in Nat : i <= Len(plan.order) => CutOffInPass[i] \subseteq With("waiting")}
<1>1. 0 \in T
  BY PassByRounds
<1>2. ASSUME NEW i \in Nat, i \in T
      PROVE  i + 1 \in T
  <2>1. SUFFICES ASSUME i + 1 <= Len(plan.order)
                 PROVE  CutOffInPass[i + 1] \subseteq With("waiting")
    OBVIOUS
  <2>2. /\ CutOffInPass[i] \subseteq With("waiting") /\ plan.order[i + 1] \in Nodes
        /\ CutOffInPass[i + 1] = CutOffInPass[i] \cup Cut(plan.order[i + 1], CutOffInPass[i])
    BY <1>2, <2>1, PassByRounds, TaskAssumption DEF Nodes
  <2>3. QED
    BY <2>2 DEF Cut, With
<1>3. \A i \in Nat : i \in T
  <2> HIDE DEF T
  <2>1. QED
    BY <1>1, <1>2, NatSetInduction
<1>4. QED
  BY <1>3, PassByRounds DEF CutOff

\* What ready() does: waiting nodes may become skipped.
LEMMA AfterReadyType ==
  ASSUME TaskTypeInv
  PROVE  /\ AfterReady \in [Nodes -> State]
         /\ \A n \in Nodes : \/ AfterReady[n] = status[n]
                             \/ status[n] = "waiting" /\ AfterReady[n] = "skipped"
<1>1. \A n \in CutOff : status[n] = "waiting"
  BY CutOffWaits DEF With, TaskTypeInv
<1>2. QED
  BY <1>1 DEF AfterReady, TaskTypeInv, State

\* What may be started is waiting, is not skipped and has all it depends on.
LEMMA HeadIsReady ==
  ASSUME NEW x \in Heads
  PROVE  /\ ~Stopped /\ x.node \in Nodes /\ status[x.node] = "waiting" /\ x.node \notin CutOff
         /\ \A d \in Deps(x.node) : status[d] = "succeeded"
BY DEF Heads, Waiting, Ready, With

----------------------------------------------------------------------------
\* Types.

LEMMA InitTaskTypes == TaskInit => TaskTypeInv
<1>1. SUFFICES ASSUME TaskInit PROVE TaskTypeInv
  OBVIOUS
<1>2. With("running") = {}
  BY <1>1 DEF TaskInit, With
<1>3. IsFiniteSet(With("running")) /\ InFlight = 0
  BY <1>2, FS_EmptySet DEF InFlight
<1>4. QED
  <2>1. {timer, squeezed, pumping, resolved} \subseteq BOOLEAN
    BY <1>1 DEF TaskInit
  <2>2. tokens \in 0 .. Burst /\ now \in 0 .. MaxNow /\ InFlight <= Concurrency
    BY <1>1, <1>3, TaskAssumption DEF TaskInit
  <2>3. QED
    BY <1>1, <1>3, <2>1, <2>2 DEF TaskInit, TaskTypeInv, State, Stage, Told

\* The running nodes stay as they are, or some of them end.
LEMMA NoMoreRunning ==
  ASSUME TaskTypeInv, UNCHANGED plan, With("running")' \subseteq With("running")
  PROVE  IsFiniteSet(With("running"))' /\ InFlight' <= Concurrency
<1>1. /\ IsFiniteSet(With("running")')
      /\ Cardinality(With("running")') <= Cardinality(With("running"))
  BY FS_Subset DEF TaskTypeInv
<1>2. Cardinality(With("running")') \in Nat /\ Cardinality(With("running")) \in Nat
  BY <1>1, FS_CardinalityType DEF TaskTypeInv
<1>3. QED
  BY <1>1, <1>2, TaskAssumption DEF TaskTypeInv, InFlight

\* A pump that ends.
LEMMA FinaliseTypes ==
  ASSUME TaskTypeInv, NEW tm \in BOOLEAN, Finalise(AfterReady, tm), status' = AfterReady,
         timer' = tm, UNCHANGED <<plan, stage, keepGoing, tokens, squeezed, now>>
  PROVE  TaskTypeInv'
<1>1. status' \in [Nodes -> State] /\ results' \in [Nodes -> Told]
  BY AfterReadyType DEF Finalise, TaskTypeInv, Told
<1>2. \A n \in Nodes : status'[n] = "running" <=> status[n] = "running"
  BY AfterReadyType
<1>3. With("running")' \subseteq With("running")
  BY <1>2 DEF With, Nodes
<1>4. pumping' \in BOOLEAN /\ resolved' \in BOOLEAN
  BY DEF Finalise
<1>5. QED
  BY <1>1, <1>2, <1>3, <1>4, NoMoreRunning DEF TaskTypeInv, Nodes

LEMMA PumpTypes ==
  ASSUME TaskTypeInv, Pump
  PROVE  TaskTypeInv'
<1> USE DEF outside
<1>1. CASE PumpEnds
  BY <1>1, FinaliseTypes DEF PumpEnds, TaskTypeInv
<1>2. CASE PumpRefused
  BY <1>2, FinaliseTypes DEF PumpRefused, HasRoom, TaskTypeInv
<1>3. CASE PumpSkips
  <2>1. PICK x \in Heads : /\ status' = [AfterReady EXCEPT ![x.node] = "skipped"]
                           /\ results' = [results EXCEPT ![x.node] = "skipped"]
                           /\ UNCHANGED <<stage, timer, pumping, resolved, plan, keepGoing, tokens,
                                          squeezed, now>>
    BY <1>3 DEF PumpSkips
  <2>2. /\ status' \in [Nodes -> State] /\ results' \in [Nodes -> Told]
        /\ \A n \in Nodes : status'[n] = "running" <=> status[n] = "running"
    BY <2>1, AfterReadyType, HeadIsReady DEF TaskTypeInv, State, Told
  <2>3. With("running")' \subseteq With("running")
    BY <2>1, <2>2 DEF With, Nodes
  <2>4. QED
    BY <2>1, <2>2, <2>3, NoMoreRunning DEF TaskTypeInv, Nodes
<1>4. CASE PumpStarts
  <2>1. PICK x \in Heads : /\ InFlight < Concurrency /\ ~Refuses
                           /\ status' = [AfterReady EXCEPT ![x.node] = "running"]
                           /\ stage' = [stage EXCEPT ![x.node] = IF Caching THEN "lookup"
                                                                 ELSE "process"]
                           /\ tokens' = IF Governed THEN tokens - 1 ELSE tokens
                           /\ UNCHANGED <<plan, keepGoing, results, timer, squeezed, now, pumping,
                                          resolved>>
    BY <1>4 DEF PumpStarts, HasRoom
  <2>2. /\ status' \in [Nodes -> State] /\ stage' \in [Nodes -> Stage]
        /\ \A n \in Nodes : status'[n] = "running" <=> status[n] = "running" \/ n = x.node
    BY <2>1, AfterReadyType, HeadIsReady DEF TaskTypeInv, State, Stage
  <2>3. \A n \in Nodes : (stage'[n] # "none") <=> (status'[n] = "running")
    BY <2>1, <2>2, HeadIsReady DEF TaskTypeInv
  <2>4. tokens' \in 0 .. Burst
    BY <2>1, TaskAssumption DEF TaskTypeInv, Refuses
  <2>5. With("running")' = With("running") \cup {x.node} /\ x.node \notin With("running")
    BY <2>1, <2>2, HeadIsReady DEF With, Nodes
  <2>6. IsFiniteSet(With("running")') /\ InFlight' = InFlight + 1
    BY <2>5, FS_AddElement DEF TaskTypeInv, InFlight
  <2>7. InFlight' <= Concurrency
    BY <2>1, <2>6, FS_CardinalityType, TaskAssumption DEF TaskTypeInv, InFlight
  <2>8. QED
    BY <2>1, <2>2, <2>3, <2>4, <2>6, <2>7 DEF TaskTypeInv, Nodes
<1>5. QED
  BY <1>1, <1>2, <1>3, <1>4 DEF Pump

LEMMA CompletedTypes ==
  ASSUME TaskTypeInv, NEW n \in Nodes, NEW s \in {"succeeded", "failed"}, Completed(n, s),
         results' \in [Nodes -> Told]
  PROVE  TaskTypeInv'
<1>1. /\ UNCHANGED <<plan, keepGoing, timer, resolved, tokens, squeezed, now>> /\ pumping' = TRUE
      /\ status' = [status EXCEPT ![n] = s] /\ stage' = [stage EXCEPT ![n] = "none"]
  BY DEF Completed, outside
<1>2. /\ status' \in [Nodes -> State] /\ stage' \in [Nodes -> Stage]
      /\ \A m \in Nodes : (stage'[m] # "none") <=> (status'[m] = "running")
  BY <1>1 DEF TaskTypeInv, State, Stage
<1>3. With("running")' \subseteq With("running")
  BY <1>1 DEF With, Nodes, TaskTypeInv
<1>4. QED
  BY <1>1, <1>2, <1>3, NoMoreRunning DEF TaskTypeInv, Nodes

LEMMA GoesTypes ==
  ASSUME TaskTypeInv, NEW n \in Nodes, NEW from \in Stage \ {"none"}, NEW to \in Stage \ {"none"},
         Goes(n, from, to), results' \in [Nodes -> Told]
  PROVE  TaskTypeInv'
<1>1. /\ UNCHANGED <<plan, keepGoing, status, timer, pumping, resolved, tokens, squeezed, now>>
      /\ stage[n] = from /\ stage' = [stage EXCEPT ![n] = to]
  BY DEF Goes, outside
<1>2. /\ stage' \in [Nodes -> Stage]
      /\ \A m \in Nodes : (stage'[m] # "none") <=> (status[m] = "running")
  BY <1>1 DEF TaskTypeInv
<1>3. With("running")' = With("running")
  BY <1>1 DEF With, Nodes
<1>4. QED
  BY <1>1, <1>2, <1>3, NoMoreRunning DEF TaskTypeInv, Nodes

LEMMA NodeTypes ==
  ASSUME TaskTypeInv, NEW n \in Nodes, NodeStep(n)
  PROVE  TaskTypeInv'
<1>1. CASE CacheHits(n)
  BY <1>1, CompletedTypes DEF CacheHits, TaskTypeInv, Told
<1>2. CASE CacheMisses(n)
  BY <1>2, GoesTypes DEF CacheMisses, TaskTypeInv, Stage
<1>3. CASE ProcessSucceeds(n)
  <2>1. results' \in [Nodes -> Told]
    BY <1>3 DEF ProcessSucceeds, TaskTypeInv, Told
  <2>2. QED
    BY <1>3, <2>1, CompletedTypes, GoesTypes DEF ProcessSucceeds, Stage
<1>4. CASE StoreEnds(n)
  BY <1>4, CompletedTypes DEF StoreEnds, TaskTypeInv
<1>5. CASE ProcessFails(n)
  BY <1>5, CompletedTypes DEF ProcessFails, TaskTypeInv, Told
<1>6. QED
  BY <1>1, <1>2, <1>3, <1>4, <1>5 DEF NodeStep

LEMMA NextTaskTypes == TaskTypeInv /\ [TaskNext]_vars => TaskTypeInv'
<1>1. SUFFICES ASSUME TaskTypeInv, [TaskNext]_vars PROVE TaskTypeInv'
  OBVIOUS
<1>2. CASE RetryTimer \/ Refill \/ MemoryChanges \/ Tick \/ UNCHANGED vars
  <2> USE DEF RetryTimer, Refill, MemoryChanges, Tick, outside, vars
  <2>1. /\ UNCHANGED <<plan, keepGoing, status, stage, results>>
        /\ {timer', squeezed', pumping', resolved'} \subseteq BOOLEAN
        /\ tokens' \in 0 .. Burst /\ now' \in 0 .. MaxNow
    <3>1. CASE RetryTimer
      BY <1>1, <3>1 DEF TaskTypeInv
    <3>2. CASE Refill
      BY <1>1, <3>2, TaskAssumption DEF TaskTypeInv
    <3>3. CASE MemoryChanges
      BY <1>1, <3>3 DEF TaskTypeInv
    <3>4. CASE Tick
      BY <1>1, <3>4, TaskAssumption DEF TaskTypeInv
    <3>5. CASE UNCHANGED vars
      BY <1>1, <3>5 DEF TaskTypeInv
    <3>6. QED
      BY <1>2, <3>1, <3>2, <3>3, <3>4, <3>5
  <2>2. With("running")' = With("running")
    BY <2>1 DEF With, Nodes
  <2>3. QED
    BY <1>1, <2>1, <2>2, NoMoreRunning DEF TaskTypeInv, Nodes
<1>3. QED
  BY <1>1, <1>2, PumpTypes, NodeTypes DEF TaskNext

\* The runner keeps its types, the limit on running tasks and that of the bucket.
THEOREM TaskTypes == TaskSpec => []TaskTypeOK
<1>1. TaskTypeInv => TaskTypeOK
  BY DEF TaskTypeInv, TaskTypeOK, State, Stage, Told
<1>2. QED
  BY <1>1, InitTaskTypes, NextTaskTypes, PTL DEF TaskSpec

----------------------------------------------------------------------------
\* Dependencies.

DepsInv == TaskTypeInv /\ DependenciesFirst

\* What has succeeded stays so.
LEMMA SucceededStays ==
  ASSUME TaskTypeInv, TaskNext
  PROVE  \A n \in Nodes : status[n] = "succeeded" => status'[n] = "succeeded"
<1>1. ASSUME NEW x \in Heads, NEW s, status' = [AfterReady EXCEPT ![x.node] = s]
      PROVE  \A n \in Nodes : status[n] = "succeeded" => status'[n] = "succeeded"
  BY <1>1, AfterReadyType, HeadIsReady
<1>2. CASE Pump
  BY <1>1, <1>2, AfterReadyType DEF Pump, PumpEnds, PumpSkips, PumpRefused, PumpStarts
<1>3. ASSUME NEW n \in Nodes, NodeStep(n)
      PROVE  \A m \in Nodes : status[m] = "succeeded" => status'[m] = "succeeded"
  BY <1>3 DEF NodeStep, CacheHits, CacheMisses, ProcessSucceeds, StoreEnds, ProcessFails, Completed,
              Goes, TaskTypeInv
<1>4. CASE RetryTimer \/ Refill \/ MemoryChanges \/ Tick
  BY <1>4 DEF RetryTimer, Refill, MemoryChanges, Tick
<1>5. QED
  BY <1>2, <1>3, <1>4 DEF TaskNext

\* A node that is now running or has run was so before, or was started with all
\* it depends on.
LEMMA StartsWithDeps ==
  ASSUME TaskTypeInv, TaskNext, NEW n \in Nodes,
         status'[n] \in {"running", "succeeded", "failed"}
  PROVE  \/ status[n] \in {"running", "succeeded", "failed"}
         \/ \A d \in Deps(n) : status[d] = "succeeded"
<1>1. CASE Pump
  <2>1. ASSUME NEW x \in Heads, status' = [AfterReady EXCEPT ![x.node] = "running"]
        PROVE  \/ status[n] \in {"running", "succeeded", "failed"}
               \/ \A d \in Deps(n) : status[d] = "succeeded"
    BY <2>1, AfterReadyType, HeadIsReady
  <2>2. ASSUME NEW x \in Heads, status' = [AfterReady EXCEPT ![x.node] = "skipped"]
        PROVE  status[n] \in {"running", "succeeded", "failed"}
    BY <2>2, AfterReadyType, HeadIsReady
  <2>3. ASSUME status' = AfterReady PROVE status[n] \in {"running", "succeeded", "failed"}
    BY <2>3, AfterReadyType
  <2>4. QED
    BY <1>1, <2>1, <2>2, <2>3 DEF Pump, PumpEnds, PumpSkips, PumpRefused, PumpStarts
<1>2. ASSUME NEW m \in Nodes, NodeStep(m) PROVE status[n] \in {"running", "succeeded", "failed"}
  BY <1>2 DEF NodeStep, CacheHits, CacheMisses, ProcessSucceeds, StoreEnds, ProcessFails, Completed,
              Goes, TaskTypeInv, Stage
<1>3. CASE RetryTimer \/ Refill \/ MemoryChanges \/ Tick
  BY <1>3 DEF RetryTimer, Refill, MemoryChanges, Tick
<1>4. QED
  BY <1>1, <1>2, <1>3 DEF TaskNext

LEMMA PlanStays == TaskNext => UNCHANGED plan
BY DEF TaskNext, Pump, PumpEnds, PumpSkips, PumpRefused, PumpStarts, NodeStep, CacheHits,
   CacheMisses, ProcessSucceeds, StoreEnds, ProcessFails, Completed, Goes, RetryTimer, Refill,
   MemoryChanges, Tick, outside

LEMMA NextDeps == DepsInv /\ [TaskNext]_vars => DepsInv'
<1>1. SUFFICES ASSUME DepsInv, [TaskNext]_vars PROVE DepsInv'
  OBVIOUS
<1>2. TaskTypeInv /\ TaskTypeInv'
  BY <1>1, NextTaskTypes DEF DepsInv
<1>3. CASE TaskNext
  <2>1. UNCHANGED plan
    BY <1>3, PlanStays
  <2>2. ASSUME NEW n \in Nodes, status'[n] \in {"running", "succeeded", "failed"}, NEW d \in Deps(n)
        PROVE  status'[d] = "succeeded"
    <3>1. d \in Nodes
      BY <1>2, <2>2, DepsType DEF TaskTypeInv
    <3>2. status[d] = "succeeded"
      BY <1>1, <1>2, <1>3, <2>2, StartsWithDeps DEF DepsInv, DependenciesFirst
    <3>3. QED
      BY <1>2, <1>3, <3>1, <3>2, SucceededStays
  <2>3. QED
    BY <1>2, <2>1, <2>2 DEF DepsInv, DependenciesFirst, Nodes, Deps
<1>4. CASE UNCHANGED vars
  BY <1>1, <1>2, <1>4 DEF vars, DepsInv, DependenciesFirst, Nodes, Deps
<1>5. QED
  BY <1>1, <1>3, <1>4

\* Whatever runs or ran had all its dependencies, and has them still.
THEOREM DependenciesComeFirst == TaskSpec => []DependenciesFirst
<1>1. TaskInit => DepsInv
  <2>1. TaskInit => DependenciesFirst
    BY DEF TaskInit, DependenciesFirst
  <2>2. QED
    BY <2>1, InitTaskTypes DEF DepsInv
<1>2. DepsInv => DependenciesFirst
  BY DEF DepsInv
<1>3. QED
  BY <1>1, <1>2, NextDeps, PTL DEF TaskSpec

----------------------------------------------------------------------------
\* A failure stops the run.

LEMMA StopStep ==
  ASSUME TaskTypeInv, [TaskNext]_vars
  PROVE  \A n \in Nodes : ~keepGoing /\ With("failed") # {} /\ status[n] # "running"
                            => status'[n] # "running"
<1>1. SUFFICES ASSUME NEW n \in Nodes, Stopped, status[n] # "running" PROVE status'[n] # "running"
  BY DEF Stopped
<1>2. Heads = {}
  BY <1>1, HeadIsReady
<1>3. CASE Pump
  BY <1>1, <1>2, <1>3, AfterReadyType DEF Pump, PumpEnds, PumpSkips, PumpRefused, PumpStarts
<1>4. ASSUME NEW m \in Nodes, NodeStep(m) PROVE status'[n] # "running"
  BY <1>1, <1>4 DEF NodeStep, CacheHits, CacheMisses, ProcessSucceeds, StoreEnds, ProcessFails,
                    Completed, Goes, TaskTypeInv
<1>5. CASE RetryTimer \/ Refill \/ MemoryChanges \/ Tick \/ UNCHANGED vars
  BY <1>1, <1>5 DEF RetryTimer, Refill, MemoryChanges, Tick, vars
<1>6. QED
  BY <1>3, <1>4, <1>5 DEF TaskNext

\* Without --continue nothing starts after a failure.
THEOREM FailureStopsTheRun == TaskSpec => NothingStartsAfterFailure
BY InitTaskTypes, NextTaskTypes, StopStep, PTL DEF TaskSpec, NothingStartsAfterFailure

----------------------------------------------------------------------------
\* Results.

Terminal == {"succeeded", "failed", "skipped"}

\* Nothing will run pump again.
AtRest == ~pumping /\ ~timer /\ \A n \in Nodes : status[n] # "running"

\* What is recorded of a node goes with what became of it.  A node that still
\* waits has a result only where the run is at rest.
Recorded(n) ==
  /\ status[n] = "succeeded" => results[n] \in {"success", "cached"}
  /\ status[n] = "failed" => results[n] = "failed"
  /\ status[n] = "skipped" => results[n] \in {"none", "skipped"}
  /\ status[n] = "running" => results[n] = IF stage[n] = "store" THEN "success" ELSE "none"
  /\ status[n] = "waiting" => results[n] = "none" \/ (results[n] = "skipped" /\ AtRest)
ReturnedInv ==
  resolved /\ plan.cycle = <<>> =>
    AtRest /\ \A n \in Nodes : status[n] \in Terminal /\ results[n] # "none"
RecordInv == TaskTypeInv /\ (\A n \in Nodes : Recorded(n)) /\ ReturnedInv

Final(n) == results[n] # "none" => results'[n] = results[n]

LEMMA InitRecord == TaskInit => RecordInv
BY InitTaskTypes DEF TaskInit, RecordInv, Recorded, ReturnedInv

\* While pump runs a node that waits has no result, and the run has not returned.
LEMMA PumpingRecord ==
  ASSUME RecordInv, pumping
  PROVE  /\ \A n \in Nodes : status[n] = "waiting" => results[n] = "none"
         /\ ~(resolved /\ plan.cycle = <<>>)
BY DEF RecordInv, Recorded, ReturnedInv, AtRest

LEMMA FinaliseRecord ==
  ASSUME RecordInv, TaskTypeInv', pumping, NEW tm \in BOOLEAN, Finalise(AfterReady, tm),
         status' = AfterReady, timer' = tm, UNCHANGED <<plan, stage>>
  PROVE  RecordInv' /\ \A n \in Nodes : Final(n)
<1>1. /\ pumping' = FALSE
      /\ \A n \in Nodes : results'[n] = results[n]
                           \/ (results[n] = "none" /\ results'[n] = "skipped" /\ AtRest')
      /\ resolved' => AtRest' /\ \A n \in Nodes : status'[n] \in Terminal /\ results'[n] # "none"
  BY DEF Finalise, AtRest, Terminal, RecordInv, TaskTypeInv, Told, Nodes
<1>2. ASSUME NEW n \in Nodes PROVE Recorded(n)'
  <2>1. Recorded(n) /\ status[n] \in State /\ (status[n] = "waiting" => results[n] = "none")
    BY PumpingRecord DEF RecordInv, TaskTypeInv
  <2>2. CASE status'[n] = status[n]
    <3>1. CASE results'[n] = results[n]
      BY <2>1, <2>2, <3>1 DEF Recorded
    <3>2. CASE results[n] = "none" /\ results'[n] = "skipped" /\ AtRest'
      BY <2>1, <2>2, <3>2 DEF Recorded, AtRest, Nodes
    <3>3. QED
      BY <1>1, <3>1, <3>2
  <2>3. CASE status[n] = "waiting" /\ status'[n] = "skipped"
    BY <1>1, <2>1, <2>3 DEF Recorded
  <2>4. QED
    BY <2>2, <2>3, AfterReadyType DEF RecordInv
<1>3. ReturnedInv'
  BY <1>1 DEF ReturnedInv, Nodes
<1>4. QED
  BY <1>1, <1>2, <1>3 DEF RecordInv, Final, Nodes

LEMMA PumpRecord ==
  ASSUME RecordInv, TaskTypeInv', Pump
  PROVE  RecordInv' /\ \A n \in Nodes : Final(n)
<1> USE DEF outside
<1>1. CASE PumpEnds
  BY <1>1, FinaliseRecord DEF PumpEnds, RecordInv, TaskTypeInv
<1>2. CASE PumpRefused
  BY <1>2, FinaliseRecord DEF PumpRefused, HasRoom
<1>3. CASE PumpSkips
  <2>1. PICK x \in Heads : /\ status' = [AfterReady EXCEPT ![x.node] = "skipped"]
                           /\ results' = [results EXCEPT ![x.node] = "skipped"]
    BY <1>3 DEF PumpSkips
  <2>2. pumping /\ UNCHANGED <<stage, timer, pumping, resolved, plan>>
    BY <1>3 DEF PumpSkips, HasRoom
  <2>3. \A n \in Nodes : Recorded(n)' /\ Final(n)
    BY <2>1, <2>2, PumpingRecord, AfterReadyType, HeadIsReady
       DEF RecordInv, Recorded, TaskTypeInv, State, Stage, Told, Final
  <2>4. ReturnedInv'
    BY <2>2, PumpingRecord DEF ReturnedInv
  <2>5. QED
    BY <2>2, <2>3, <2>4 DEF RecordInv, Nodes
<1>4. CASE PumpStarts
  <2>1. PICK x \in Heads : /\ status' = [AfterReady EXCEPT ![x.node] = "running"]
                           /\ stage' = [stage EXCEPT ![x.node] = IF Caching THEN "lookup"
                                                                 ELSE "process"]
    BY <1>4 DEF PumpStarts
  <2>2. pumping /\ UNCHANGED <<results, timer, pumping, resolved, plan>>
    BY <1>4 DEF PumpStarts, HasRoom
  <2>3. \A n \in Nodes : Recorded(n)' /\ Final(n)
    BY <2>1, <2>2, PumpingRecord, AfterReadyType, HeadIsReady
       DEF RecordInv, Recorded, TaskTypeInv, State, Stage, Told, Final
  <2>4. ReturnedInv'
    BY <2>2, PumpingRecord DEF ReturnedInv
  <2>5. QED
    BY <2>2, <2>3, <2>4 DEF RecordInv, Nodes
<1>5. QED
  BY <1>1, <1>2, <1>3, <1>4 DEF Pump

\* A step of a running node: the run is not at rest.
LEMMA NodeRecord ==
  ASSUME RecordInv, TaskTypeInv', NEW n \in Nodes, NodeStep(n)
  PROVE  RecordInv' /\ \A m \in Nodes : Final(m)
<1>1. /\ stage[n] # "none" /\ status[n] = "running" /\ UNCHANGED <<plan, resolved>>
      /\ \A m \in Nodes \ {n} : /\ status'[m] = status[m] /\ stage'[m] = stage[m]
                                /\ results'[m] = results[m]
  BY DEF NodeStep, CacheHits, CacheMisses, ProcessSucceeds, StoreEnds, ProcessFails, Completed,
         Goes, outside, RecordInv, TaskTypeInv, Stage
<1>2. ~AtRest /\ \A m \in Nodes \ {n} : status[m] = "waiting" => results[m] = "none"
  BY <1>1 DEF AtRest, RecordInv, Recorded
<1>3. \A m \in Nodes \ {n} : Recorded(m)' /\ Final(m)
  BY <1>1, <1>2 DEF RecordInv, Recorded, Final
<1>4. Recorded(n)' /\ Final(n)
  <2> USE DEF RecordInv, Recorded, Final, TaskTypeInv, Stage, Told, State
  <2>1. CASE CacheHits(n)
    BY <1>1, <2>1 DEF CacheHits, Completed
  <2>2. CASE CacheMisses(n)
    BY <1>1, <2>2 DEF CacheMisses, Goes
  <2>3. CASE ProcessSucceeds(n) /\ Caching
    BY <1>1, <2>3 DEF ProcessSucceeds, Goes
  <2>4. CASE ProcessSucceeds(n) /\ ~Caching
    BY <1>1, <2>4 DEF ProcessSucceeds, Completed
  <2>5. CASE StoreEnds(n)
    BY <1>1, <2>5 DEF StoreEnds, Completed
  <2>6. CASE ProcessFails(n)
    BY <1>1, <2>6 DEF ProcessFails, Completed
  <2>7. QED
    BY <2>1, <2>2, <2>3, <2>4, <2>5, <2>6 DEF NodeStep
<1>5. ReturnedInv'
  BY <1>1, <1>2 DEF RecordInv, ReturnedInv
<1>6. QED
  BY <1>1, <1>3, <1>4, <1>5 DEF RecordInv, Nodes

LEMMA NextRecord ==
  ASSUME RecordInv, [TaskNext]_vars
  PROVE  RecordInv' /\ \A n \in Nodes : Final(n)
<1>1. TaskTypeInv'
  BY NextTaskTypes DEF RecordInv
<1>2. CASE RetryTimer
  <2>1. /\ timer /\ UNCHANGED <<plan, status, stage, results, resolved>>
    BY <1>2 DEF RetryTimer, outside
  <2>2. ~AtRest /\ ~(resolved /\ plan.cycle = <<>>)
    BY <2>1 DEF AtRest, RecordInv, ReturnedInv
  <2>3. QED
    BY <1>1, <2>1, <2>2 DEF RecordInv, Recorded, ReturnedInv, Final, Nodes
<1>3. CASE Refill \/ MemoryChanges \/ Tick \/ UNCHANGED vars
  <2>1. UNCHANGED <<plan, status, stage, results, resolved, pumping, timer>>
    BY <1>3 DEF Refill, MemoryChanges, Tick, vars
  <2>2. QED
    BY <1>1, <2>1 DEF RecordInv, Recorded, ReturnedInv, Final, AtRest, Nodes
<1>4. QED
  BY <1>1, <1>2, <1>3, PumpRecord, NodeRecord DEF TaskNext

\* A result that was recorded stays.
THEOREM ResultsStay == TaskSpec => ResultsAreFinal
<1>1. RecordInv /\ [TaskNext]_vars
        => RecordInv' /\ \A n \in Nodes : results[n] # "none" => results'[n] = results[n]
  BY NextRecord DEF Final
<1>2. QED
  BY <1>1, InitRecord, PTL DEF TaskSpec, ResultsAreFinal

\* When a run returns, every node has its result, and that is what happened.
THEOREM ResultsAreTold == TaskSpec => [](resolved /\ plan.cycle = <<>> => ToldAsItWas)
<1>1. RecordInv => (resolved /\ plan.cycle = <<>> => ToldAsItWas)
  BY DEF RecordInv, Recorded, ReturnedInv, ToldAsItWas, Terminal, TaskTypeInv, Told
<1>2. RecordInv /\ [TaskNext]_vars => RecordInv'
  BY NextRecord
<1>3. QED
  BY <1>1, <1>2, InitRecord, PTL DEF TaskSpec

----------------------------------------------------------------------------
\* Why nodes are skipped.

\* What skips a node that --continue would run otherwise.
Hindered(n) ==
  n \notin Scripted \/ \E d \in Below(n) : status[d] = "failed" \/ d \notin Scripted

RanInv == \A n \in Nodes : status[n] \in {"running", "succeeded", "failed"} => n \in Scripted
SkipInv == keepGoing => \A n \in Nodes : status[n] = "skipped" => Hindered(n)

\* What is below a node is what is below its dependencies, and these.
LEMMA BelowDeps ==
  ASSUME plan \in Plans, NEW n \in Nodes, NEW d \in Deps(n)
  PROVE  d \in Below(n) /\ Below(d) \subseteq Below(n)
<1>1. d \in Nodes
  BY DepsType
<1>2. QED
  BY <1>1 DEF Below

\* Nothing is below a node that is not in a set with its dependencies and theirs.
LEMMA BelowLeast ==
  ASSUME NEW n \in Nodes, NEW S \in SUBSET Nodes, Deps(n) \subseteq S,
         \A d \in S : Deps(d) \subseteq S
  PROVE  Below(n) \subseteq S
BY DEF Below

\* A dependency that failed, or was skipped for a reason, is a reason.
LEMMA HinderedAbove ==
  ASSUME plan \in Plans, NEW n \in Nodes, NEW d \in Deps(n), status[d] = "failed" \/ Hindered(d)
  PROVE  Hindered(n)
<1>1. CASE status[d] = "failed" \/ d \notin Scripted
  BY <1>1, BelowDeps DEF Hindered
<1>2. CASE \E e \in Below(d) : status[e] = "failed" \/ e \notin Scripted
  BY <1>2, BelowDeps DEF Hindered
<1>3. QED
  BY <1>1, <1>2 DEF Hindered

\* With --continue a pass skips nodes for a reason only: round by round, what a
\* node depends on failed, or was skipped before or in an earlier round.
LEMMA CutOffHindered ==
  ASSUME plan \in Plans, keepGoing, SkipInv
  PROVE  \A n \in CutOff : Hindered(n)
<1> DEFINE T == {i \in Nat : i <= Len(plan.order) => \A n \in CutOffInPass[i] : Hindered(n)}
<1>1. 0 \in T
  BY PassByRounds
<1>2. ASSUME NEW i \in Nat, i \in T
      PROVE  i + 1 \in T
  <2>1. SUFFICES ASSUME i + 1 <= Len(plan.order), NEW n \in CutOffInPass[i + 1]
                 PROVE  Hindered(n)
    OBVIOUS
  <2>2. /\ \A m \in CutOffInPass[i] : Hindered(m)
        /\ i + 1 \in 1 .. Len(plan.order) /\ i + 1 - 1 = i
    BY <1>2, <2>1, PassByRounds
  <2>3. /\ plan.order[i + 1] \in Nodes
        /\ CutOffInPass[i + 1] = CutOffInPass[i] \cup Cut(plan.order[i + 1], CutOffInPass[i])
    BY <2>2, PassByRounds, TaskAssumption DEF Nodes
  <2>4. CASE n \in CutOffInPass[i]
    BY <2>2, <2>4
  <2>5. CASE n \in Cut(plan.order[i + 1], CutOffInPass[i])
    <3>1. n \in Nodes
      BY <2>3, <2>5 DEF Cut
    <3>2. PICK d \in Deps(n) : status[d] \in {"failed", "skipped"} \/ d \in CutOffInPass[i]
      BY <2>5 DEF Cut
    <3>3. d \in Nodes
      BY <3>1, DepsType
    <3>4. status[d] = "failed" \/ Hindered(d)
      BY <2>2, <3>2, <3>3 DEF SkipInv
    <3>5. QED
      BY <3>1, <3>4, HinderedAbove
  <2>6. QED
    BY <2>1, <2>3, <2>4, <2>5
<1>3. \A i \in Nat : i \in T
  <2> HIDE DEF T
  <2>1. QED
    BY <1>1, <1>2, NatSetInduction
<1>4. QED
  BY <1>3, PassByRounds DEF CutOff, Stopped

\* What has failed stays so.
LEMMA FailedStays ==
  ASSUME TaskTypeInv, TaskNext
  PROVE  \A n \in Nodes : status[n] = "failed" => status'[n] = "failed"
<1>1. ASSUME NEW x \in Heads, NEW s, status' = [AfterReady EXCEPT ![x.node] = s]
      PROVE  \A n \in Nodes : status[n] = "failed" => status'[n] = "failed"
  BY <1>1, AfterReadyType, HeadIsReady
<1>2. CASE Pump
  BY <1>1, <1>2, AfterReadyType DEF Pump, PumpEnds, PumpSkips, PumpRefused, PumpStarts
<1>3. ASSUME NEW n \in Nodes, NodeStep(n)
      PROVE  \A m \in Nodes : status[m] = "failed" => status'[m] = "failed"
  BY <1>3 DEF NodeStep, CacheHits, CacheMisses, ProcessSucceeds, StoreEnds, ProcessFails, Completed,
              Goes, TaskTypeInv
<1>4. CASE RetryTimer \/ Refill \/ MemoryChanges \/ Tick
  BY <1>4 DEF RetryTimer, Refill, MemoryChanges, Tick
<1>5. QED
  BY <1>2, <1>3, <1>4 DEF TaskNext

\* Only a pass of the pump starts or skips a node: what it starts has a script;
\* what it skips has none or is cut off.
LEMMA StartsAndSkips ==
  ASSUME TaskTypeInv, TaskNext, NEW n \in Nodes
  PROVE  /\ status'[n] \in {"running", "succeeded", "failed"} =>
              status[n] \in {"running", "succeeded", "failed"} \/ n \in Scripted
         /\ status'[n] = "skipped" => status[n] = "skipped" \/ n \notin Scripted \/ n \in CutOff
<1>1. AfterReady[n] = status[n] \/ (n \in CutOff /\ AfterReady[n] = "skipped")
  BY DEF AfterReady
<1>2. CASE PumpEnds \/ PumpRefused
  BY <1>1, <1>2 DEF PumpEnds, PumpRefused
<1>3. CASE PumpSkips
  <2>1. PICK x \in Heads : /\ x.node \notin Scripted
                           /\ status' = [AfterReady EXCEPT ![x.node] = "skipped"]
    BY <1>3 DEF PumpSkips
  <2>2. status'[n] = AfterReady[n] \/ (n \notin Scripted /\ status'[n] = "skipped")
    BY <2>1, AfterReadyType
  <2>3. QED
    BY <1>1, <2>2
<1>4. CASE PumpStarts
  <2>1. PICK x \in Heads : /\ x.node \in Scripted
                           /\ status' = [AfterReady EXCEPT ![x.node] = "running"]
    BY <1>4 DEF PumpStarts
  <2>2. status'[n] = AfterReady[n] \/ (n \in Scripted /\ status'[n] = "running")
    BY <2>1, AfterReadyType
  <2>3. QED
    BY <1>1, <2>2
<1>5. ASSUME NEW m \in Nodes, NodeStep(m)
      PROVE  /\ status'[n] \in {"running", "succeeded", "failed"} =>
                  status[n] \in {"running", "succeeded", "failed"}
             /\ status'[n] = "skipped" => status[n] = "skipped"
  BY <1>5 DEF NodeStep, CacheHits, CacheMisses, ProcessSucceeds, StoreEnds, ProcessFails, Completed,
              Goes, TaskTypeInv, Stage
<1>6. CASE RetryTimer \/ Refill \/ MemoryChanges \/ Tick
  BY <1>6 DEF RetryTimer, Refill, MemoryChanges, Tick
<1>7. QED
  BY <1>2, <1>3, <1>4, <1>5, <1>6 DEF TaskNext, Pump

TruthInv == DepsInv /\ RecordInv /\ RanInv /\ SkipInv

LEMMA KeepGoingStays == TaskNext => UNCHANGED keepGoing
BY DEF TaskNext, Pump, PumpEnds, PumpSkips, PumpRefused, PumpStarts, NodeStep, CacheHits,
   CacheMisses, ProcessSucceeds, StoreEnds, ProcessFails, Completed, Goes, RetryTimer, Refill,
   MemoryChanges, Tick, outside

LEMMA InitTruth == TaskInit => TruthInv
<1>1. TaskInit => DependenciesFirst /\ RanInv /\ SkipInv
  BY DEF TaskInit, DependenciesFirst, RanInv, SkipInv
<1>2. QED
  BY <1>1, InitTaskTypes, InitRecord DEF TruthInv, DepsInv

LEMMA NextTruth == TruthInv /\ [TaskNext]_vars => TruthInv'
<1>1. SUFFICES ASSUME TruthInv, [TaskNext]_vars PROVE TruthInv'
  OBVIOUS
<1>2. DepsInv' /\ RecordInv'
  BY <1>1, NextDeps, NextRecord DEF TruthInv
<1>3. CASE TaskNext
  <2>1. UNCHANGED <<plan, keepGoing>> /\ Nodes' = Nodes /\ Scripted' = Scripted
    BY <1>3, PlanStays, KeepGoingStays DEF Nodes, Scripted
  <2>2. \A n : Below(n)' = Below(n)
    BY <2>1 DEF Below, Deps, Nodes
  <2>3. TaskTypeInv /\ plan \in Plans
    BY <1>1 DEF TruthInv, DepsInv, TaskTypeInv
  <2>4. RanInv'
    BY <1>1, <1>3, <2>1, <2>3, StartsAndSkips DEF TruthInv, RanInv
  <2>5. SkipInv'
    <3>1. SUFFICES ASSUME keepGoing, NEW n \in Nodes, status'[n] = "skipped"
                   PROVE  Hindered(n)'
      BY <2>1 DEF SkipInv
    <3>2. Hindered(n)
      <4>1. CASE status[n] = "skipped"
        BY <1>1, <3>1, <4>1 DEF TruthInv, SkipInv
      <4>2. CASE n \notin Scripted
        BY <4>2 DEF Hindered
      <4>3. CASE n \in CutOff
        BY <1>1, <2>3, <3>1, <4>3, CutOffHindered DEF TruthInv
      <4>4. QED
        BY <1>3, <2>3, <3>1, <4>1, <4>2, <4>3, StartsAndSkips
    <3>3. \A d \in Below(n) : status[d] = "failed" => status'[d] = "failed"
      BY <1>3, <2>3, FailedStays DEF Below
    <3>4. QED
      BY <2>1, <2>2, <3>2, <3>3 DEF Hindered
  <2>6. QED
    BY <1>2, <2>4, <2>5 DEF TruthInv
<1>4. CASE UNCHANGED vars
  <2>1. UNCHANGED <<plan, keepGoing, status>>
    BY <1>4 DEF vars
  <2>2. \A n : Hindered(n)' = Hindered(n)
    BY <2>1 DEF Hindered, Below, Deps, Nodes, Scripted
  <2>3. RanInv' /\ SkipInv'
    BY <1>1, <2>1, <2>2 DEF TruthInv, RanInv, SkipInv, Nodes, Scripted
  <2>4. QED
    BY <1>2, <2>3 DEF TruthInv
<1>5. QED
  BY <1>1, <1>3, <1>4

\* When a run with --continue returns, the nodes that have succeeded are closed
\* under dependency, so that nothing below one of them failed or has no script.
LEMMA NoFailureBelow ==
  ASSUME TruthInv, NEW n \in Nodes, status[n] \in {"succeeded", "failed"}
  PROVE  ~Hindered(n)
<1> DEFINE done == {m \in Nodes : status[m] = "succeeded"}
<1>1. \A m \in Nodes : Deps(m) \subseteq Nodes
  BY DepsType DEF TruthInv, DepsInv, TaskTypeInv
<1>2. Deps(n) \subseteq done /\ \A d \in done : Deps(d) \subseteq done
  BY <1>1 DEF TruthInv, DepsInv, DependenciesFirst
<1>3. Below(n) \subseteq done
  <2>1. done \in SUBSET Nodes
    OBVIOUS
  <2> HIDE DEF done
  <2>2. QED
    BY <1>2, <2>1, BelowLeast
<1>4. QED
  BY <1>3 DEF Hindered, TruthInv, RanInv

\* When a run returns, the user is told what happened, and with --continue a node
\* was skipped exactly when it has no script, or one below it failed or has none.
THEOREM RunsTellTheTruth == TaskSpec => []ResultsAreTrue
<1>1. TruthInv => ResultsAreTrue
  <2>1. SUFFICES ASSUME TruthInv, resolved, plan.cycle = <<>> PROVE ResultsAreTrue
    BY DEF ResultsAreTrue
  <2>2. ToldAsItWas /\ \A n \in Nodes : status[n] \in Terminal
    BY <2>1 DEF TruthInv, RecordInv, Recorded, ReturnedInv, ToldAsItWas, Terminal, TaskTypeInv, Told
  <2>3. ASSUME keepGoing, NEW n \in Nodes PROVE status[n] = "skipped" <=> Hindered(n)
    BY <2>1, <2>2, <2>3, NoFailureBelow DEF TruthInv, SkipInv, Terminal
  <2>4. QED
    BY <2>2, <2>3 DEF ResultsAreTrue, Hindered
<1>2. QED
  BY <1>1, InitTruth, NextTruth, PTL DEF TaskSpec
=============================================================================
